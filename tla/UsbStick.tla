------------------------------ MODULE UsbStick ------------------------------
(***************************************************************************)
(* A USB stick: the dvb-usb-v2 core (dvb_usb_core.c, usb_urb.c) between    *)
(* the demultiplexer, the frontend and the USB host.  One adapter with one *)
(* frontend.  The frontend's thread, its users and its removal are those   *)
(* of Frontend; this module adds what fe->ops.init and fe->ops.sleep do in *)
(* this driver, the start_feed and stop_feed the demultiplexer calls (one  *)
(* at a time: it holds its mutex), suspend, resume and disconnect.         *)
(*                                                                         *)
(* The three bits of state_bits order feeds and frontend: a feed waits     *)
(* while ADAP_INIT is set, the frontend does not sleep while               *)
(* ADAP_STREAMING is.  The URBs of the stream are submitted together and   *)
(* killed together; flowing says they are with the host controller.  The   *)
(* driver's own hooks are abstracted to hw (what streaming_ctrl last asked *)
(* for) and to the power count.                                            *)
(***************************************************************************)
EXTENDS Frontend

CONSTANTS Feeds,   \* the feeds of the demultiplexer
          MaxCount \* bound: no more errors or suspends in fe->ops.init
                   \* once feed_count or powered is there

(* "late_feed": a feed starts after the frontend, going to sleep, has seen *)
(*   that nothing streams.                                                 *)
(* "idle_resume": the system is suspended with a frontend in use that      *)
(*   nothing is fed from.                                                  *)
(* "feed_error": a hook called by start_feed fails.                        *)
(* "sleep_error": a hook called by fe_sleep fails.                         *)
StickWindows == FrontendWindows \union {"late_feed", "idle_resume", "feed_error", "sleep_error"}

ASSUME StickAssumption ==
    /\ IsFiniteSet(Feeds) /\ MaxCount \in Nat
    /\ Windows \subseteq StickWindows

VARIABLES active,     \* adap->active_fe is not -1
          bits,       \* adap->state_bits
          feed_count, \* adap->feed_count
          on,         \* the feeds whose start_feed succeeded: DMX_STATE_GO
          fop,        \* start_feed or stop_feed in progress
          flowing,    \* the URBs are submitted
          hw,         \* the device was asked to stream
          powered,    \* d->powered
          sra,        \* adap->suspend_resume_active
          suspended,  \* between suspend and resume
          fpc,        \* where dvb_usb_fe_init or dvb_usb_fe_sleep is
          gone        \* how far dvb_usbv2_disconnect is

stickVars == <<active, bits, feed_count, on, fop, flowing, hw, powered, sra, suspended, fpc, gone>>
vars == <<frontendVars, stickVars>>

NoOp == [kind |-> "none"]
Op(k, f) == [kind |-> k, feed |-> f]

Init ==
    /\ FrontendInit
    /\ active = FALSE /\ bits = {} /\ feed_count = 0 /\ on = {} /\ fop = NoOp
    /\ flowing = FALSE /\ hw = FALSE /\ powered = 0
    /\ sra = FALSE /\ suspended = FALSE /\ fpc = "idle" /\ gone = "no"

-----------------------------------------------------------------------------
(* The frontend's side, called by its thread.                               *)

\* dvb_usb_fe_init: the frontend is active and ADAP_INIT set, the power is
\* switched on and the driver's hooks are called ...
FeInit ==
    /\ tpc = "init" /\ fpc = "idle"
    /\ fpc' = "init"
    /\ IF sra THEN UNCHANGED <<active, bits>>
              ELSE active' = TRUE /\ bits' = bits \union {"init"}
    /\ powered' = powered + 1
    /\ UNCHANGED <<feed_count, on, fop, flowing, hw, sra, suspended, gone>>
    /\ UNCHANGED frontendVars

\* The bit stays.
FeInitDone_broken ==
    /\ fpc = "init"
    /\ ThreadInit
    /\ fpc' = "idle"
    /\ UNCHANGED <<active, bits, feed_count, on, fop, flowing, hw, powered, sra, suspended, gone>>

\* ... and return, with an error or without, to dvb_frontend_thread.
FeInitDone ==
    /\ fpc = "init"
    /\ ThreadInit
    /\ fpc' = "idle"
    /\ bits' = IF sra THEN bits ELSE bits \ {"init"}
    /\ UNCHANGED <<active, feed_count, on, fop, flowing, hw, powered, sra, suspended, gone>>

\* dvb_usb_fe_sleep: ADAP_SLEEP is set ...
FeSleep ==
    /\ ~suspended /\ tpc = "sleep" /\ fpc = "idle"
    /\ fpc' = "wait"
    /\ bits' = bits \union {"sleep"}
    /\ UNCHANGED <<active, feed_count, on, fop, flowing, hw, powered, sra, suspended, gone>>
    /\ UNCHANGED frontendVars

\* ADAP_STREAMING is not waited for.
FeSleepPasses_broken ==
    /\ ~suspended /\ fpc = "wait"
    /\ fpc' = "sleep"
    /\ UNCHANGED <<active, bits, feed_count, on, fop, flowing, hw, powered, sra, suspended, gone>>
    /\ UNCHANGED frontendVars

\* ... wait_on_bit(ADAP_STREAMING) returns ...
FeSleepPasses ==
    /\ ~suspended /\ fpc = "wait" /\ "streaming" \notin bits
    /\ fpc' = "sleep"
    /\ UNCHANGED <<active, bits, feed_count, on, fop, flowing, hw, powered, sra, suspended, gone>>
    /\ UNCHANGED frontendVars

\* ... and the hooks put the frontend to sleep and the power off; one that
\* fails skips the power.
FeSleepDone ==
    /\ ~suspended /\ fpc = "sleep"
    /\ ThreadSleeps
    /\ fpc' = "idle" /\ active' = FALSE /\ bits' = bits \ {"sleep"}
    /\ \/ powered' = powered - 1
       \/ Open("sleep_error") /\ powered < MaxCount /\ powered' = powered
    /\ UNCHANGED <<feed_count, on, fop, flowing, hw, sra, suspended, gone>>

-----------------------------------------------------------------------------
(* The demultiplexer's side: dvb_usb_start_feed and dvb_usb_stop_feed.      *)

\* usb_urb_submitv2: URBs already submitted make it take them all back.
Submitted == ~flowing

\* Applications start feeds until the device is gone.
StartFeed(f) ==
    /\ ~suspended /\ gone = "no" /\ fop = NoOp /\ f \notin on
    /\ fop' = Op("enter", f)
    /\ UNCHANGED <<active, bits, feed_count, on, flowing, hw, powered, sra, suspended, fpc, gone>>
    /\ UNCHANGED frontendVars

\* wait_on_bit(ADAP_INIT) has returned.  Without an active frontend it is
\* -EINVAL; a feed that is not the first is only counted.
FeedEnters ==
    /\ fop.kind = "enter" /\ "init" \notin bits
    /\ fpc # "sleep" \/ Open("late_feed")
    /\ IF active /\ feed_count = 0
       THEN bits' = bits \union {"streaming"} /\ fop' = Op("start", fop.feed)
       ELSE fop' = NoOp /\ UNCHANGED bits
    /\ feed_count' = IF active THEN feed_count + 1 ELSE feed_count
    /\ \/ on' = IF active /\ feed_count > 0 THEN on \union {fop.feed} ELSE on
       \/ Open("feed_error") /\ feed_count < MaxCount /\ on' = on
    /\ UNCHANGED <<active, flowing, hw, powered, sra, suspended, fpc, gone>>
    /\ UNCHANGED frontendVars

\* The first feed submits the URBs and has the device stream.
FeedStarted ==
    /\ fop.kind = "start"
    /\ flowing' = Submitted /\ hw' = TRUE
    /\ \/ on' = on \union {fop.feed}
       \/ Open("feed_error") /\ feed_count < MaxCount /\ on' = on
    /\ fop' = NoOp
    /\ UNCHANGED <<active, bits, feed_count, powered, sra, suspended, fpc, gone>>
    /\ UNCHANGED frontendVars

\* Without an active frontend stop_feed returns -EINVAL; the demultiplexer
\* takes the feed as stopped all the same.  The last one stops the device.
StopFeed(f) ==
    /\ ~suspended /\ fop = NoOp /\ f \in on
    /\ on' = on \ {f}
    /\ IF ~active
       THEN UNCHANGED <<feed_count, fop, hw>>
       ELSE /\ feed_count' = feed_count - 1
            /\ IF feed_count > 1
               THEN UNCHANGED <<fop, hw>>
               ELSE fop' = Op("stop", f) /\ hw' = FALSE
    /\ UNCHANGED <<active, bits, flowing, powered, sra, suspended, fpc, gone>>
    /\ UNCHANGED frontendVars

\* usb_urb_killv2, and whoever waits for ADAP_STREAMING is woken.
FeedStopped ==
    /\ fop.kind = "stop"
    /\ flowing' = FALSE /\ bits' = bits \ {"streaming"}
    /\ fop' = NoOp
    /\ UNCHANGED <<active, feed_count, on, hw, powered, sra, suspended, fpc, gone>>
    /\ UNCHANGED frontendVars

-----------------------------------------------------------------------------
(* Suspend and resume: dvb_usbv2_suspend and dvb_usbv2_resume_common.  With *)
(* a frontend in use they stop the stream and run its sleep and init, which *)
(* with suspend_resume_active set touch nothing but the power.              *)

\* The power is switched off whether a frontend is in use or not.
GoesQuiet_broken == hw' = FALSE /\ flowing' = FALSE /\ powered' = powered - 1

GoesQuiet ==
    IF active THEN hw' = FALSE /\ flowing' = FALSE /\ powered' = powered - 1
              ELSE UNCHANGED <<hw, flowing, powered>>

Suspend ==
    /\ ~suspended /\ gone = "no" /\ fop = NoOp /\ Frozen
    /\ active /\ feed_count = 0 => Open("idle_resume") \/ Open("init")
    /\ tpc = "init" => powered < MaxCount
    /\ suspended' = TRUE
    /\ sra' = active
    /\ GoesQuiet
    /\ UNCHANGED <<active, bits, feed_count, on, fop, fpc, gone>>
    /\ UNCHANGED frontendVars

Resume ==
    /\ suspended
    /\ suspended' = FALSE
    /\ sra' = FALSE
    /\ IF active
       THEN /\ FrontendResume
            /\ hw' = TRUE /\ flowing' = Submitted /\ powered' = powered + 1
       ELSE UNCHANGED <<frontendVars, hw, flowing, powered>>
    /\ UNCHANGED <<active, bits, feed_count, on, fop, fpc, gone>>

-----------------------------------------------------------------------------
(* Removal: dvb_usbv2_disconnect.  The demultiplexer's nodes are released   *)
(* first (that waits until nobody has them open), then the stream is freed, *)
(* then the frontend is unregistered.                                       *)

Disconnect ==
    /\ ~suspended /\ gone = "no"
    /\ gone' = "demux"
    /\ UNCHANGED <<active, bits, feed_count, on, fop, flowing, hw, powered, sra, suspended, fpc>>
    /\ UNCHANGED frontendVars

\* The host controller returns the URBs of a device that is not there.
UrbsReturned ==
    /\ gone # "no" /\ flowing
    /\ flowing' = FALSE
    /\ UNCHANGED <<active, bits, feed_count, on, fop, hw, powered, sra, suspended, fpc, gone>>
    /\ UNCHANGED frontendVars

StreamExit ==
    /\ gone = "demux" /\ on = {} /\ fop = NoOp
    /\ gone' = "stream" /\ flowing' = FALSE
    /\ UNCHANGED <<active, bits, feed_count, on, fop, hw, powered, sra, suspended, fpc>>
    /\ UNCHANGED frontendVars

FrontendExit ==
    /\ gone = "stream"
    /\ UnregStop
    /\ UNCHANGED stickVars

-----------------------------------------------------------------------------

Users == /\ ~suspended /\ (AppStep \/ OpenStep)
         /\ UNCHANGED stickVars
Thread == /\ ~suspended /\ (ThreadStep \/ UnregStep)
          /\ UNCHANGED stickVars
FeStep == FeInit \/ FeInitDone \/ FeSleep \/ FeSleepPasses \/ FeSleepDone
FeedStep == FeedEnters \/ FeedStarted \/ FeedStopped
ExitStep == StreamExit \/ FrontendExit

Next ==
    \/ Users \/ Thread
    \/ FeStep
    \/ (\E f \in Feeds : StartFeed(f) \/ StopFeed(f)) \/ FeedStep
    \/ Suspend \/ Resume
    \/ Disconnect \/ UrbsReturned \/ ExitStep

(* The kernel's threads run; the system does not stay suspended; once the   *)
(* device is gone the applications close what they have open.  The thread   *)
(* looks at its exit conditions in every round, and a mutex or semaphore    *)
(* lets in who waits for it.  Calls in progress end, but for one: nothing   *)
(* says that an FE_GET_EVENT that sleeps is ever woken.  Only an event of   *)
(* the thread or a signal does that; removal does not.                      *)
OfUsers(step) == ~suspended /\ step /\ UNCHANGED stickVars
Closes == \E a \in Apps : Release(a) \/ ReleaseTail(a)

Fairness ==
    /\ WF_vars(Thread) /\ SF_vars(OfUsers(ThreadDecides)) /\ SF_vars(OfUsers(ThreadQuits))
    /\ WF_vars(OfUsers(UnregStep))
    /\ WF_vars(FeStep) /\ WF_vars(FeedStep) /\ SF_vars(FeedEnters) /\ WF_vars(Resume)
    /\ WF_vars(StreamExit) /\ SF_vars(FrontendExit)
    /\ SF_vars(OfUsers(OpenStep))
    /\ \A a \in Apps : WF_vars(OfUsers(IoctlUp(a)))
    /\ WF_vars(OfUsers(EventSleeps)) /\ SF_vars(OfUsers(EventDown))
    /\ SF_vars(gone # "no" /\ OfUsers(Closes))
    /\ \A f \in Feeds : WF_vars(gone # "no" /\ StopFeed(f))

Spec == Init /\ [][Next]_vars
FairSpec == Spec /\ Fairness

-----------------------------------------------------------------------------
(* Properties.                                                              *)

TypeOK ==
    /\ FrontendTypeOK
    /\ active \in BOOLEAN /\ flowing \in BOOLEAN /\ hw \in BOOLEAN
    /\ sra \in BOOLEAN /\ suspended \in BOOLEAN
    /\ bits \subseteq {"init", "sleep", "streaming"}
    /\ feed_count \in Nat /\ powered \in Nat
    /\ on \subseteq Feeds
    /\ fop = NoOp \/ \E k \in {"enter", "start", "stop"}, f \in Feeds : fop = Op(k, f)
    /\ fpc \in {"idle", "init", "wait", "sleep"}
    /\ gone \in {"no", "demux", "stream"}

\* While nothing is starting or stopping, feed_count is the number of feeds
\* that are on, and with any of them on ADAP_STREAMING is set, the device
\* streams and the URBs are with the host controller; with none, nothing does:
\* whatever tuning, closing and suspending went on meanwhile.
Streams ==
    ~suspended /\ gone = "no" /\ fop = NoOp =>
        /\ feed_count = Cardinality(on)
        /\ ("streaming" \in bits) = (on # {})
        /\ hw = (on # {}) /\ flowing = (on # {})
StreamsWhileFed ==
    window \notin {"late_feed", "idle_resume", "init", "feed_error"} => Streams

\* "submit USB streaming packets": once the start of a feed has succeeded, the
\* URBs that carry it are with the host controller.
FedFlows == ~suspended /\ gone = "no" /\ fop = NoOp /\ on # {} => flowing

\* The device is powered exactly while its frontend is in use and the system
\* runs, and feeds are kept waiting by ADAP_INIT only while it initialises: a
\* suspend in between, a failed start or a removal leaves it at that.
InUse == tpc \in {"loop", "tune", "quit", "sleep"} \/ fpc = "init"
PowerFollowsFrontend ==
    window \notin {"init", "sleep_error"} =>
        /\ active = InUse
        /\ powered = IF InUse /\ ~suspended THEN 1 ELSE 0
        /\ "init" \in bits => fpc = "init"

\* Removal ends: when the applications close what they have open and no
\* FE_GET_EVENT sleeps for ever, dvb_usbv2_disconnect gets the frontend freed.
\* With "sema" a caller that sema_init forgot may wait for ever too.
RemovalEnds ==
    []<>(app["writer"] # "asleep") =>
        (gone # "no" /\ window \notin {"overlap", "ending", "sema", "init", "late_feed", "feed_error"}
            ~> unreg = "freed")
=============================================================================
