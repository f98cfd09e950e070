------------------------------ MODULE Frontend ------------------------------
(***************************************************************************)
(* The life of a DVB frontend's tuning thread (dvb_frontend.c): the device *)
(* node opened for tuning starts the thread or finds it running, the       *)
(* thread puts the hardware to sleep and ends some time after the node was *)
(* closed, and removing the device stops it.  The actors are one           *)
(* application that opens the node for writing (the code lets in one at a  *)
(* time), the Readers that open it read-only, the thread itself, and the   *)
(* driver that unregisters the frontend.                                   *)
(*                                                                         *)
(* fepriv->sem is meant to be held by whoever works on the frontend: by    *)
(* the opener that starts the thread (the thread releases it after its     *)
(* initialisation), by the thread for an iteration of its loop and again   *)
(* on its way out, by an ioctl.  FE_GET_EVENT gives it up to sleep until   *)
(* there is an event, and takes it back.  fe->exit and fepriv->thread are  *)
(* read and written without it, each access a step of its own where other  *)
(* actors can come between.  The calls fe->ops.init and fe->ops.sleep of   *)
(* the driver are in progress while tpc is "init" and "sleep".  What       *)
(* tuning and the ioctls compute, the loop's delays and what is in the     *)
(* event queue are left out, and so is time: the loop may go round at any  *)
(* moment, and the shutdown timeout may have passed whenever nobody has    *)
(* the node open for writing.                                              *)
(*                                                                         *)
(* The code has interleavings that nothing prevents and that it does not   *)
(* survive.  Each is named, as a window; a behaviour has at most one of    *)
(* them open, and each property names the windows that break it.  One is   *)
(* left out altogether: a thread that ends by itself after                 *)
(* dvb_frontend_stop has read its pointer and before kthread_stop has      *)
(* marked it leaves kthread_stop with NULL or with a task that is gone.    *)
(*                                                                         *)
(* A definition whose name ends in _broken is a plausible bug in the one   *)
(* that follows it, which the specification does not use.                  *)
(***************************************************************************)
EXTENDS Naturals, FiniteSets

CONSTANTS Readers, \* the applications that open the node read-only
          Windows  \* the windows a behaviour may have open

(* "reopen": the node is opened for writing while the thread ends and the  *)
(*   open takes it for one that runs: fe->exit is read after the thread    *)
(*   has decided to end and before it says so, or fepriv->thread is read   *)
(*   before the thread clears it and fe->exit after it has reset that.     *)
(* "signal": a signal interrupts an open that has just stopped the thread. *)
(* "overlap": an open runs while the frontend is being unregistered.       *)
(* "tail": a release is cut off between giving up its use and its wake-up. *)
(* "ending": the frontend is unregistered while the thread ends by itself: *)
(*   its pointer is cleared before dvb_frontend_stop reads it, and what    *)
(*   dvb_frontend_stop has written to fe->exit is reset after that.        *)
(* "sema": an ioctl takes the semaphore between the end of a stopped       *)
(*   thread and the sema_init of the one that stopped it, which lets in    *)
(*   another and forgets who waits.                                        *)
(* "event": a signal ends an FE_GET_EVENT that waits to take the semaphore *)
(*   back, and dvb_frontend_ioctl gives it up a second time.               *)
(* "init": the system is suspended while the thread runs fe->ops.init (it  *)
(*   becomes freezable only afterwards).                                   *)
FrontendWindows == {"reopen", "signal", "overlap", "tail", "ending", "sema", "event", "init"}

ASSUME ReadersAssumption == IsFiniteSet(Readers) /\ "writer" \notin Readers

VARIABLES app,         \* where each application is with the node
          thread,      \* fepriv->thread is not NULL
          tpc,         \* where the thread is
          should_stop, \* kthread_stop was called on it
          exit,        \* fe->exit
          sem,         \* the count of fepriv->sem
          unreg,       \* how far dvb_unregister_frontend is
          window       \* the window that is open, or "none"

frontendVars == <<app, thread, tpc, should_stop, exit, sem, unreg, window>>

Apps == Readers \union {"writer"}

\* dvbdev_mutex: an open for writing is in progress.
Opening == app["writer"] \in {"start", "check", "stop", "ask", "stopping", "run"}

\* dvbdev->writers is 1, dvbdev->users is -1: what dvb_generic_open took is back.
NoWriter == app["writer"] \in {"closed", "tail"}

\* Only who tunes is waited for.
NoUsers_broken == NoWriter

NoUsers == \A a \in Apps : app[a] \in {"closed", "tail"}

Open(w) == window = w

\* A thread that was stopped has ended and its stopper has not yet gone on.
StopPending == should_stop /\ tpc = "none"

FrontendInit ==
    /\ app = [a \in Apps |-> "closed"]
    /\ thread = FALSE /\ tpc = "none" /\ should_stop = FALSE
    /\ exit = "no" /\ sem = 1 /\ unreg = "no"
    /\ window \in Windows \union {"none"}

-----------------------------------------------------------------------------
(* Opening the node: dvb_frontend_open, dvb_generic_open and, for writing,  *)
(* dvb_frontend_start.                                                      *)

At(a, place) == app' = [app EXCEPT ![a] = place]

OpenNode(a) ==
    /\ app[a] = "closed" /\ ~Opening
    /\ exit # "removed"
    /\ unreg = "no" \/ (Open("overlap") /\ unreg # "freed")
    /\ At(a, IF a = "writer" THEN "start" ELSE "open")
    /\ UNCHANGED <<thread, tpc, should_stop, exit, sem, unreg, window>>

\* dvb_frontend_stop writes fe->exit ...
WriteExit == exit' = IF exit = "removed" THEN exit ELSE "normal"

\* ... and then asks the thread, if it finds one, to stop.
AskToStop == should_stop' = thread

\* What dvb_frontend_stop does when kthread_stop has returned.
AfterStop ==
    /\ StopPending
    /\ should_stop' = FALSE /\ sem' = 1

\* fepriv->thread is read ...
FoundThread ==
    /\ app["writer"] = "start" /\ thread
    /\ At("writer", "check")
    /\ UNCHANGED <<thread, tpc, should_stop, exit, sem, unreg, window>>

FoundNone ==
    /\ app["writer"] = "start" /\ ~thread
    /\ At("writer", "run")
    /\ UNCHANGED <<thread, tpc, should_stop, exit, sem, unreg, window>>

\* A thread on its way out is taken for one that runs.
FoundRunning_broken ==
    /\ app["writer"] = "check"
    /\ At("writer", "open")
    /\ UNCHANGED <<thread, tpc, should_stop, exit, sem, unreg, window>>

\* ... and then fe->exit.
FoundRunning ==
    /\ app["writer"] = "check" /\ exit = "no"
    /\ tpc # "quit" \/ Open("reopen")
    /\ At("writer", "open")
    /\ UNCHANGED <<thread, tpc, should_stop, exit, sem, unreg, window>>

FoundExiting ==
    /\ app["writer"] = "check" /\ exit # "no"
    /\ At("writer", "stop")
    /\ UNCHANGED <<thread, tpc, should_stop, exit, sem, unreg, window>>

OpenStops ==
    /\ app["writer"] = "stop"
    /\ WriteExit
    /\ At("writer", "ask")
    /\ UNCHANGED <<thread, tpc, should_stop, sem, unreg, window>>

\* A thread that is gone by now is neither waited for nor is there a sema_init.
OpenAsks ==
    /\ app["writer"] = "ask"
    /\ AskToStop
    /\ At("writer", IF thread THEN "stopping" ELSE "run")
    /\ UNCHANGED <<thread, tpc, exit, sem, unreg, window>>

OpenStopped ==
    /\ app["writer"] = "stopping"
    /\ AfterStop
    /\ At("writer", "run")
    /\ UNCHANGED <<thread, tpc, exit, unreg, window>>

\* A signal: -EINTR, and dvb_frontend_open gives the node back.
OpenInterrupted ==
    /\ app["writer"] = "run"
    /\ exit # "removed" \/ Open("signal")
    /\ At("writer", "closed")
    /\ UNCHANGED <<thread, tpc, should_stop, exit, sem, unreg, window>>

\* kthread_run works, and the thread begins with the semaphore held ...  The
\* semaphore keeps it behind the last statements of a thread before, except with
\* "sema" and "event", where two threads at once are left out.
StartThread ==
    /\ app["writer"] = "run" /\ sem > 0 /\ tpc = "none"
    /\ exit' = "no" /\ thread' = TRUE
    /\ tpc' = "init" /\ sem' = sem - 1
    /\ At("writer", "open")
    /\ UNCHANGED <<should_stop, unreg, window>>

\* ... or it fails, and the semaphore is given back.
StartFails ==
    /\ app["writer"] = "run" /\ sem > 0
    /\ exit' = "no"
    /\ At("writer", "closed")
    /\ UNCHANGED <<thread, tpc, should_stop, sem, unreg, window>>

-----------------------------------------------------------------------------
(* Using and closing it: dvb_frontend_ioctl and dvb_frontend_release.       *)

CanDown == sem > 0 /\ (~StopPending \/ Open("sema"))

\* The ioctls of read-only users include no FE_GET_EVENT.  One of the writer that
\* finds no event, and may block, is at "event".
IoctlDown(a) ==
    /\ app[a] = "open" /\ CanDown
    /\ sem' = sem - 1
    /\ \/ At(a, "ioctl")
       \/ a = "writer" /\ exit = "no" /\ At(a, "event")
    /\ UNCHANGED <<thread, tpc, should_stop, exit, unreg, window>>

\* dvb_frontend_get_event gives up the semaphore and sleeps ...
EventSleeps ==
    /\ app["writer"] = "event"
    /\ sem' = sem + 1
    /\ At("writer", "asleep")
    /\ UNCHANGED <<thread, tpc, should_stop, exit, unreg, window>>

\* ... until the thread adds an event or a signal comes ...
EventWakes ==
    /\ app["writer"] = "asleep"
    /\ At("writer", "woken")
    /\ UNCHANGED <<thread, tpc, should_stop, exit, sem, unreg, window>>

\* ... and takes it back, unless a signal comes while somebody else has it.
EventDown ==
    /\ app["writer"] = "woken" /\ CanDown
    /\ sem' = sem - 1
    /\ At("writer", "ioctl")
    /\ UNCHANGED <<thread, tpc, should_stop, exit, unreg, window>>

EventInterrupted ==
    /\ app["writer"] = "woken" /\ sem = 0 /\ Open("event")
    /\ At("writer", "interrupted")
    /\ UNCHANGED <<thread, tpc, should_stop, exit, sem, unreg, window>>

\* The end of dvb_frontend_ioctl, whatever the command did.
IoctlUp(a) ==
    /\ app[a] \in {"ioctl", "interrupted"}
    /\ sem' = sem + 1
    /\ At(a, "open")
    /\ UNCHANGED <<thread, tpc, should_stop, exit, unreg, window>>

\* The last user just goes.
Woken_broken == unreg

\* The last user wakes the unregistering driver, if fe->exit is set.
Woken == IF unreg = "asleep" /\ NoUsers' /\ exit # "no" THEN "wait" ELSE unreg

Release(a) ==
    /\ app[a] = "open"
    /\ \/ At(a, "closed") /\ unreg' = Woken
       \/ Open("tail") /\ At(a, "tail") /\ unreg' = unreg
    /\ UNCHANGED <<thread, tpc, should_stop, exit, sem, window>>

ReleaseTail(a) ==
    /\ app[a] = "tail"
    /\ At(a, "closed") /\ unreg' = Woken
    /\ UNCHANGED <<thread, tpc, should_stop, exit, sem, window>>

-----------------------------------------------------------------------------
(* The thread: dvb_frontend_thread.                                         *)

ThreadInit ==
    /\ tpc = "init"
    /\ tpc' = "loop" /\ sem' = sem + 1
    /\ UNCHANGED <<app, thread, should_stop, exit, unreg, window>>

\* kthread_should_stop() || dvb_frontend_is_exiting(fe)
ThreadDecides ==
    /\ tpc = "loop"
    /\ should_stop \/ exit # "no" \/ NoWriter
    /\ tpc' = "quit"
    /\ UNCHANGED <<app, thread, should_stop, exit, sem, unreg, window>>

\* Nobody stopped it when it looked: it waits for the semaphore and goes round.
ThreadDown ==
    /\ tpc = "loop" /\ sem > 0
    /\ tpc' = "tune" /\ sem' = sem - 1
    /\ UNCHANGED <<app, thread, should_stop, exit, unreg, window>>

ThreadTunes ==
    /\ tpc = "tune"
    /\ tpc' = "loop" /\ sem' = sem + 1
    /\ UNCHANGED <<app, thread, should_stop, exit, unreg, window>>

\* It goes on without the semaphore.
ThreadQuits_broken ==
    /\ tpc = "quit"
    /\ tpc' = "sleep" /\ exit' = "normal"
    /\ UNCHANGED <<app, thread, should_stop, sem, unreg, window>>

ThreadQuits ==
    /\ tpc = "quit" /\ sem > 0
    /\ tpc' = "sleep" /\ sem' = sem - 1 /\ exit' = "normal"
    /\ UNCHANGED <<app, thread, should_stop, unreg, window>>

\* fe->ops.sleep has returned: the pointer is cleared ...
ThreadSleeps ==
    /\ tpc = "sleep"
    /\ unreg # "asking" \/ Open("ending")
    /\ tpc' = "end" /\ thread' = FALSE
    /\ UNCHANGED <<app, should_stop, exit, sem, unreg, window>>

\* ... and then fe->exit written and the semaphore given back.
ThreadEnds ==
    /\ tpc = "end"
    /\ app["writer"] # "check" \/ Open("reopen")
    /\ tpc' = "none" /\ sem' = sem + 1
    /\ exit' = IF should_stop THEN "removed" ELSE "no"
    /\ UNCHANGED <<app, thread, should_stop, unreg, window>>

-----------------------------------------------------------------------------
(* Suspend and resume run with every process frozen, and the thread too,    *)
(* which freezes in its loop.                                               *)

Frozen ==
    /\ \A a \in Apps : app[a] \in {"closed", "open"}
    /\ tpc \in {"none", "loop"} \/ (tpc = "init" /\ Open("init"))
    /\ unreg = "no"

\* dvb_frontend_resume
FrontendResume ==
    /\ Frozen
    /\ exit' = "no"
    /\ UNCHANGED <<app, thread, tpc, should_stop, sem, unreg, window>>

-----------------------------------------------------------------------------
(* dvb_unregister_frontend.                                                 *)

UnregStop ==
    /\ unreg = "no"
    /\ ~Opening \/ Open("overlap")
    /\ tpc # "end" \/ Open("ending")
    /\ WriteExit
    /\ unreg' = "asking"
    /\ UNCHANGED <<app, thread, tpc, should_stop, sem, window>>

UnregAsks ==
    /\ unreg = "asking"
    /\ AskToStop
    /\ unreg' = IF thread THEN "stopping" ELSE "wait"
    /\ UNCHANGED <<app, thread, tpc, exit, sem, window>>

UnregStopped ==
    /\ unreg = "stopping"
    /\ AfterStop
    /\ unreg' = "wait"
    /\ UNCHANGED <<app, thread, tpc, exit, window>>

\* wait_event for the users to be gone, then kfree.
UnregWaits ==
    /\ unreg = "wait"
    /\ unreg' = IF NoUsers THEN "freed" ELSE "asleep"
    /\ UNCHANGED <<app, thread, tpc, should_stop, exit, sem, window>>

OpenStep ==
    \/ FoundThread \/ FoundNone \/ FoundRunning \/ FoundExiting \/ OpenStops \/ OpenAsks
    \/ OpenStopped \/ OpenInterrupted \/ StartThread \/ StartFails
EventStep == EventSleeps \/ EventWakes \/ EventDown \/ EventInterrupted
ThreadStep == ThreadDecides \/ ThreadDown \/ ThreadTunes \/ ThreadQuits \/ ThreadEnds
UnregStep == UnregAsks \/ UnregStopped \/ UnregWaits

AppStep ==
    \/ \E a \in Apps : OpenNode(a) \/ IoctlDown(a) \/ IoctlUp(a) \/ Release(a) \/ ReleaseTail(a)
    \/ EventStep

FrontendNext ==
    \/ AppStep \/ OpenStep
    \/ ThreadInit \/ ThreadStep \/ ThreadSleeps
    \/ FrontendResume \/ UnregStop \/ UnregStep

FrontendSpec == FrontendInit /\ [][FrontendNext]_frontendVars

-----------------------------------------------------------------------------
(* Properties.                                                              *)

HasNode == {"open", "ioctl", "event", "asleep", "woken", "interrupted"}
Places == {"closed", "start", "check", "stop", "ask", "stopping", "run", "tail"} \union HasNode

FrontendTypeOK ==
    /\ app \in [Apps -> Places]
    /\ thread \in BOOLEAN /\ should_stop \in BOOLEAN
    /\ tpc \in {"none", "init", "loop", "tune", "quit", "sleep", "end"}
    /\ exit \in {"no", "normal", "removed"}
    /\ sem \in Nat
    /\ unreg \in {"no", "asking", "stopping", "wait", "asleep", "freed"}
    /\ window \in Windows \union {"none"}

\* The semaphore is a mutex: the thread's use of the driver (its
\* initialisation, a round of tuning, its way out) and the ioctls never
\* overlap, whatever opens, closes, stops and restarts went before; an
\* FE_GET_EVENT that sleeps does not hold it.  Two things make it count two: an
\* ioctl let in before the stopper's sema_init, and an FE_GET_EVENT interrupted
\* while it waits to take it back.
ThreadHolds == tpc \in {"init", "tune", "sleep", "end"}
InIoctl == {a \in Apps : app[a] \in {"ioctl", "event"}}
OneHolder ==
    window \notin {"sema", "event"} =>
        /\ \A a, b \in InIoctl : a = b
        /\ InIoctl # {} => ~ThreadHolds
        /\ sem = IF ThreadHolds \/ InIoctl # {} THEN 0 ELSE 1

\* Until it is removed the node serves: who has it open for writing has a
\* thread that tunes for him and has not decided to end, and ioctls do not find
\* fe->exit set; and whoever comes next is not refused as if it were removed.
\* Only with "reopen" does an open return without such a thread.
NodeServes ==
    unreg = "no" =>
        /\ app["writer"] \in HasNode /\ window # "reopen" =>
               thread /\ exit = "no" /\ tpc \in {"init", "loop", "tune"}
        /\ ~Opening /\ window # "signal" => exit # "removed"

\* Once dvb_unregister_frontend has freed the frontend, no thread runs on it
\* and no file is open on it or in the middle of being opened or released.
FreedIsUnused ==
    unreg = "freed" /\ window \notin {"overlap", "tail", "ending"} =>
        tpc = "none" /\ \A a \in Apps : app[a] = "closed"
=============================================================================
