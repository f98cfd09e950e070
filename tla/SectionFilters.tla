---------------------------- MODULE SectionFilters ----------------------------
(***************************************************************************)
(* The section filters of one demux device: the filter slots of            *)
(* media/3.19/dvb-core/dmxdev.c over the feeds and section filters of      *)
(* media/3.19/dvb-core/dvb_demux.c.                                        *)
(*                                                                         *)
(* Filters with the same PID share one demux feed.  A filter joins or      *)
(* leaves a running feed by stopping it, changing its chain and starting   *)
(* it again for whoever is left.  The ioctls are serialised by             *)
(* dmxdev->mutex (op is the one in progress); sections are delivered in    *)
(* softirq context under demux->lock (disp is the delivery in progress,    *)
(* and a step that takes that lock waits for it to end); the section       *)
(* timers run on their own.                                                *)
(*                                                                         *)
(* A section is the PID it came on.  Whether it matches a filter's mask is *)
(* left open.  The bytes of a buffer are the subject of DmxBuffer.         *)
(*                                                                         *)
(* A definition whose name ends in _broken is a plausible bug in the one   *)
(* that follows it, which the specification does not use.                  *)
(***************************************************************************)
EXTENDS Integers, SequencesExt

CONSTANTS
    NumFilters,  \* dmxdev->filternum: slots, at most one per open descriptor
    NumFeeds,    \* demux->feednum
    NumSecs,     \* demux->filternum: section filters of the demux
    Pids,        \* PIDs an application asks for
    Oneshots,    \* whether it sets DMX_ONESHOT
    Timeouts,    \* whether it sets a timeout
    Room,        \* sections that fit in a filter's buffer
    Failing,     \* demux calls may fail: the driver, or a signal
    LateTimer    \* del_timer may return while the handler runs

ASSUME FiltersAssumption ==
    /\ NumFilters \in Nat \ {0} /\ NumFeeds \in Nat \ {0} /\ NumSecs \in Nat \ {0}
    /\ Room \in Nat \ {0}
    /\ Oneshots \subseteq BOOLEAN /\ Timeouts \subseteq BOOLEAN
    /\ Failing \in BOOLEAN /\ LateTimer \in BOOLEAN

VARIABLES
    flt,     \* struct dmxdev_filter, by slot
    timer,   \* its timer: pending (armed), handler before its lock (late)
    opened,  \* slots an open file descriptor stands for
    feed,    \* struct dvb_demux_feed
    sec,     \* struct dvb_demux_filter
    op,      \* the ioctl or release in progress
    disp,    \* the delivery of a section in progress
    failed   \* history: a demux call has failed that could have succeeded

vars == <<flt, timer, opened, feed, sec, op, disp, failed>>

Filter == 1 .. NumFilters
Feed   == 1 .. NumFeeds
Sec    == 1 .. NumSecs
None   == 0        \* a NULL pointer; no real slot has this number
NoPid  == "0xffff"

(* What DMX_SET_FILTER asks for: a PID, DMX_ONESHOT, a timeout.  DMX_IMMEDIATE_START
   is an argument of the call. *)
Request == [pid : Pids, oneshot : Oneshots, timed : Timeouts]
NoRequest == [pid |-> NoPid, oneshot |-> FALSE, timed |-> FALSE]

NoOp  == [pc |-> "idle", f |-> None, g |-> None, then |-> "end", back |-> "end",
          ask |-> NoRequest, now |-> FALSE]
Quiet == [feed |-> None, rest |-> <<>>]

FreeSlot == [state |-> "FREE", section |-> FALSE, par |-> NoRequest, feed |-> None,
             sec |-> None, err |-> "none", unread |-> <<>>]
FreeFeed == [state |-> "FREE", pid |-> NoPid, listed |-> FALSE, filtering |-> FALSE,
             chain |-> <<>>]
FreeSec  == [state |-> "FREE", feed |-> None, priv |-> None]

Init ==
    /\ flt = [f \in Filter |-> FreeSlot]
    /\ timer = [f \in Filter |-> [armed |-> FALSE, late |-> FALSE]]
    /\ opened = {}
    /\ feed = [d \in Feed |-> FreeFeed]
    /\ sec = [x \in Sec |-> FreeSec]
    /\ op = NoOp /\ disp = Quiet /\ failed = FALSE

-----------------------------------------------------------------------------
(* state >= DMXDEV_STATE_GO *)
Running(f) == flt[f].state \in {"GO", "DONE", "TIMEDOUT"}

(* The filters the code takes to be active on a PID. *)
Active_broken(p) == {f \in Filter : flt[f].state = "GO" /\ flt[f].section /\ flt[f].par.pid = p}

Active(p) == {f \in Filter : Running(f) /\ flt[f].section /\ flt[f].par.pid = p}

InChain(x, d) == \E i \in 1 .. Len(feed[d].chain) : feed[d].chain[i] = x

(* The first of a set of slots, as a scan of the array finds it. *)
First(i, S) == i \in S /\ \A j \in S : i <= j

Goto(pc) == op' = IF pc = "end" THEN NoOp ELSE [op EXCEPT !.pc = pc]

(* dvb_ringbuffer_flush. *)
Flushed(r) == [r EXCEPT !.err = "none", !.unread = <<>>]

(* The timer stays pending. *)
TimerDeleted_broken(f) == UNCHANGED timer

(* del_timer returns; only a LateTimer lets it do so before the handler ends. *)
TimerDeleted(f) ==
    /\ LateTimer \/ ~timer[f].late
    /\ timer' = [timer EXCEPT ![f].armed = FALSE]

-----------------------------------------------------------------------------
(* The system calls on a descriptor; calls that return at once are left out. *)

(* dvb_demux_open: the first free slot. *)
Open ==
    \E f \in Filter :
        /\ op.pc = "idle"
        /\ First(f, {g \in Filter : flt[g].state = "FREE"})
        /\ flt' = [flt EXCEPT ![f] = [Flushed(@) EXCEPT !.state = "ALLOCATED"]]
        /\ timer' = [timer EXCEPT ![f].armed = FALSE]
        /\ opened' = opened \cup {f}
        /\ UNCHANGED <<feed, sec, op, disp, failed>>

(* An ioctl or release on slot f: first at pc, and after dvb_dmxdev_filter_stop at then.
   It begins here when it has the descriptor's own mutex too.  Until then it waits, with
   dmxdev->mutex held, for a read() of that descriptor to end, which may be blocked for as
   long as no data comes; that wait, and every other call's behind it, is left out. *)
Call(f, pc, then, ask, now) ==
    /\ op.pc = "idle" /\ f \in opened
    /\ op' = [NoOp EXCEPT !.pc = pc, !.f = f, !.then = then, !.ask = ask, !.now = now]
    /\ UNCHANGED <<flt, timer, opened, feed, sec, disp, failed>>

SetFilter(f) == \E r \in Request, now \in BOOLEAN : Call(f, "stop", "set", r, now)
Start(f) ==
    /\ flt[f].state \notin {"FREE", "ALLOCATED"}
    /\ Call(f, IF Running(f) THEN "stop" ELSE "start", "start", NoRequest, FALSE)
Stop(f)  == Running(f) /\ Call(f, "stop", "end", NoRequest, FALSE)
Close(f) == Call(f, "stop", "free", NoRequest, FALSE)

(* read(): an error is reported and the buffer flushed, or a section is taken. *)
Read(f) ==
    /\ f \in opened /\ op.f # f
    /\ \/ flt[f].err # "none" /\ flt' = [flt EXCEPT ![f] = Flushed(@)]
       \/ /\ flt[f].err = "none" /\ flt[f].unread # <<>>
          /\ flt' = [flt EXCEPT ![f].unread = Tail(@)]
    /\ UNCHANGED <<timer, opened, feed, sec, op, disp, failed>>

-----------------------------------------------------------------------------
(* The demux calls. *)

(* dmx_section_feed_stop_filtering, under demux->lock. *)
StopFiltering(d) ==
    /\ disp = Quiet
    /\ feed' = [feed EXCEPT ![d].filtering = FALSE, ![d].state = "READY"]

CanStart(d) == ~feed[d].filtering /\ feed[d].chain # <<>>

(* dmx_section_feed_start_filtering succeeds, under demux->lock... *)
StartSucceeds(d) ==
    /\ CanStart(d) /\ disp = Quiet
    /\ feed' = [feed EXCEPT ![d].filtering = TRUE, ![d].state = "GO"]
    /\ UNCHANGED failed

(* ...or returns an error. *)
StartFails(d) ==
    /\ ~CanStart(d) \/ Failing
    /\ failed' = (failed \/ CanStart(d))
    /\ UNCHANGED feed

-----------------------------------------------------------------------------
(* dvb_dmxdev_filter_stop and dvb_dmxdev_feed_restart *)

(* Nothing runs, or a timer handler left TIMEDOUT in a slot that has no feed. *)
StopNothing ==
    LET f == op.f IN
    /\ op.pc = "stop"
    /\ ~Running(f) \/ ~flt[f].section \/ flt[f].feed = None
    /\ flt' = IF Running(f) /\ flt[f].section THEN [flt EXCEPT ![f] = Flushed(@)] ELSE flt
    /\ Goto(op.then)
    /\ UNCHANGED <<timer, opened, feed, sec, disp, failed>>

(* The filter is not marked. *)
StopFilter_broken ==
    /\ op.pc = "stop" /\ Running(op.f) /\ flt[op.f].section /\ flt[op.f].feed # None
    /\ TimerDeleted(op.f)
    /\ Goto("halt")
    /\ UNCHANGED <<flt, opened, feed, sec, disp, failed>>

(* dvb_dmxdev_feed_stop: mark this filter as stopped, delete its timer... *)
StopFilter ==
    LET f == op.f IN
    /\ op.pc = "stop" /\ Running(f) /\ flt[f].section /\ flt[f].feed # None
    /\ TimerDeleted(f)
    /\ flt' = [flt EXCEPT ![f].state = "SET"]
    /\ Goto("halt")
    /\ UNCHANGED <<opened, feed, sec, disp, failed>>

(* ...and stop the feed, for every filter on it. *)
HaltFeed ==
    /\ op.pc = "halt"
    /\ StopFiltering(flt[op.f].feed)
    /\ Goto("release")
    /\ UNCHANGED <<flt, timer, opened, sec, disp, failed>>

(* The section filter is freed but stays in the chain of its feed. *)
ReleaseFilter_broken ==
    /\ op.pc = "release"
    /\ sec' = [sec EXCEPT ![flt[op.f].sec].state = "FREE"]
    /\ op' = [op EXCEPT !.pc = "restart", !.back = "stopped"]
    /\ UNCHANGED <<flt, timer, opened, feed, disp, failed>>

(* release_filter: the section filter leaves the chain of its feed.  One that
   is not in it makes the search run off the end of the chain. *)
ReleaseFilter ==
    LET x     == flt[op.f].sec
        d     == flt[op.f].feed
        owned == x # None /\ sec[x].feed = d
    IN
    /\ op.pc = "release"
    /\ \/ /\ ~owned
          /\ op' = [op EXCEPT !.pc = "restart", !.back = "stopped"]
          /\ UNCHANGED <<feed, sec>>
       \/ /\ owned /\ disp = Quiet
          /\ \E i \in 1 .. Len(feed[d].chain) :
                /\ feed[d].chain[i] = x
                /\ feed' = [feed EXCEPT ![d].chain = RemoveAt(@, i), ![d].filtering = FALSE]
          /\ sec' = [sec EXCEPT ![x].state = "FREE"]
          /\ op' = [op EXCEPT !.pc = "restart", !.back = "stopped"]
       \/ /\ owned /\ ~InChain(x, d) /\ disp = Quiet
          /\ Goto("oops")
          /\ UNCHANGED <<feed, sec>>
    /\ UNCHANGED <<flt, timer, opened, disp, failed>>

(* Others on the PID: the first of them is set going again, whatever ended it... *)
RestartOther ==
    \E g \in Filter :
        /\ op.pc = "restart"
        /\ First(g, Active(flt[op.f].par.pid))
        /\ flt' = [flt EXCEPT ![g].state = "GO"]
        /\ op' = [op EXCEPT !.pc = "restarting", !.g = g]
        /\ UNCHANGED <<timer, opened, feed, sec, disp, failed>>

(* A feed that does not start is tried again. *)
RestartFeed_broken ==
    LET d == flt[op.g].feed IN
    /\ op.pc = "restarting" /\ d # None
    /\ \/ StartSucceeds(d) /\ Goto(op.back)
       \/ StartFails(d) /\ Goto("restart")
    /\ UNCHANGED <<flt, timer, opened, sec, disp>>

RestartFeed ==
    LET d == flt[op.g].feed IN
    /\ op.pc = "restarting"
    /\ \/ d # None /\ (StartSucceeds(d) \/ StartFails(d)) /\ Goto(op.back)
       \/ d = None /\ Goto("oops") /\ UNCHANGED <<feed, failed>>
    /\ UNCHANGED <<flt, timer, opened, sec, disp>>

(* The feed is left allocated. *)
ReleaseFeed_broken ==
    /\ op.pc = "restart" /\ Active(flt[op.f].par.pid) = {}
    /\ disp = Quiet
    /\ Goto(op.back)
    /\ UNCHANGED <<flt, timer, opened, feed, sec, disp, failed>>

(* ...nobody: the feed is released. *)
ReleaseFeed ==
    LET d == flt[op.f].feed IN
    /\ op.pc = "restart" /\ Active(flt[op.f].par.pid) = {}
    /\ disp = Quiet
    /\ feed' = [feed EXCEPT ![d] = IF @.state = "FREE" THEN @
                    ELSE [@ EXCEPT !.state = "FREE", !.listed = FALSE, !.pid = NoPid]]
    /\ Goto(op.back)
    /\ UNCHANGED <<flt, timer, opened, sec, disp, failed>>

(* The buffer keeps what it holds. *)
Stopped_broken ==
    /\ op.pc = "stopped"
    /\ flt' = [flt EXCEPT ![op.f].feed = None]
    /\ Goto(op.then)
    /\ UNCHANGED <<timer, opened, feed, sec, disp, failed>>

Stopped ==
    /\ op.pc = "stopped"
    /\ flt' = [flt EXCEPT ![op.f] = [Flushed(@) EXCEPT !.feed = None]]
    /\ Goto(op.then)
    /\ UNCHANGED <<timer, opened, feed, sec, disp, failed>>

-----------------------------------------------------------------------------
(* dvb_dmxdev_filter_set and dvb_dmxdev_filter_free, once stopped.  The
   parameters of a filter without a type are never looked at: none are kept. *)

FilterSet ==
    /\ op.pc = "set"
    /\ flt' = [flt EXCEPT ![op.f].section = TRUE, ![op.f].par = op.ask, ![op.f].state = "SET"]
    /\ Goto(IF op.now THEN "start" ELSE "end")
    /\ UNCHANGED <<timer, opened, feed, sec, disp, failed>>

FilterFree ==
    /\ op.pc = "free"
    /\ flt' = [flt EXCEPT ![op.f].section = FALSE, ![op.f].par = NoRequest,
                          ![op.f].state = "FREE"]
    /\ opened' = opened \ {op.f}
    /\ Goto("end")
    /\ UNCHANGED <<timer, feed, sec, disp, failed>>

-----------------------------------------------------------------------------
(* dvb_dmxdev_filter_start, once stopped *)

(* The first filter active on the PID, when that filter has a feed. *)
PeerOf(f) == {g \in Filter \ {f} : First(g, Active(flt[f].par.pid)) /\ flt[g].feed # None}

(* There is none: a new feed is needed.  A slot whose type was reset by a close, and
   which only a late timer makes one to start, has nothing to start. *)
StartAlone ==
    LET f == op.f IN
    /\ op.pc = "start"
    /\ \/ /\ ~flt[f].section
          /\ flt' = [flt EXCEPT ![f] = Flushed(@)]
          /\ Goto("end")
       \/ /\ flt[f].section /\ PeerOf(f) = {}
          /\ flt' = [flt EXCEPT ![f] = [Flushed(@) EXCEPT !.sec = None, !.feed = None]]
          /\ Goto("alloc")
    /\ UNCHANGED <<timer, opened, feed, sec, disp, failed>>

(* Its feed is shared: it is stopped (dvb_dmxdev_feed_stop). *)
StartShared ==
    LET f == op.f IN
    /\ op.pc = "start" /\ flt[f].section
    /\ TimerDeleted(f)
    /\ \E g \in PeerOf(f) :
         flt' = [flt EXCEPT ![f] = [Flushed(@) EXCEPT !.sec = None, !.feed = flt[g].feed,
                                                      !.state = "SET"]]
    /\ Goto("pause")
    /\ UNCHANGED <<opened, feed, sec, disp, failed>>

PauseFeed ==
    /\ op.pc = "pause"
    /\ StopFiltering(flt[op.f].feed)
    /\ Goto("link")
    /\ UNCHANGED <<flt, timer, opened, sec, disp, failed>>

FreeFeeds == {d \in Feed : feed[d].state = "FREE"}

(* That the scan ran past the last feed goes unnoticed. *)
AllocFeed_broken ==
    /\ op.pc = "alloc" /\ disp = Quiet
    /\ \E d \in 1 .. NumFeeds + 1 :
         /\ First(d, FreeFeeds \cup {NumFeeds + 1})
         /\ flt' = [flt EXCEPT ![op.f].feed = d]
         /\ feed' = [feed EXCEPT ![d] = [FreeFeed EXCEPT
                         !.state = "READY", !.pid = flt[op.f].par.pid, !.listed = TRUE]]
    /\ Goto("link")
    /\ UNCHANGED <<timer, opened, sec, disp, failed>>

(* dvbdmx_allocate_section_feed and dmx_section_feed_set: the feed is on the
   list but filters nothing yet.  If the second call fails, the feed is given
   back through dvb_dmxdev_feed_restart. *)
AllocFeed ==
    /\ op.pc = "alloc" /\ disp = Quiet
    /\ \/ /\ (FreeFeeds = {} \/ Failing) /\ Goto("end") /\ UNCHANGED <<flt, feed>>
          /\ failed' = (failed \/ FreeFeeds # {})
       \/ \E d \in Feed :
            /\ First(d, FreeFeeds)
            /\ flt' = [flt EXCEPT ![op.f].feed = d]
            /\ \/ /\ feed' = [feed EXCEPT ![d] = [FreeFeed EXCEPT
                                !.state = "READY", !.pid = flt[op.f].par.pid, !.listed = TRUE]]
                  /\ Goto("link") /\ UNCHANGED failed
               \/ /\ Failing
                  /\ feed' = [feed EXCEPT ![d] = [FreeFeed EXCEPT !.state = "ALLOCATED"]]
                  /\ op' = [op EXCEPT !.pc = "restart", !.back = "end"]
                  /\ failed' = TRUE
    /\ UNCHANGED <<timer, opened, sec, disp>>

FreeSecs == {x \in Sec : sec[x].state = "FREE"}

(* The new section filter replaces the chain. *)
LinkFilter_broken ==
    LET d == flt[op.f].feed IN
    /\ op.pc = "link" /\ disp = Quiet
    /\ \E x \in Sec :
         /\ First(x, FreeSecs)
         /\ sec' = [sec EXCEPT ![x] = [state |-> "READY", feed |-> d, priv |-> op.f]]
         /\ feed' = [feed EXCEPT ![d].chain = <<x>>]
         /\ flt' = [flt EXCEPT ![op.f].sec = x]
    /\ Goto("run")
    /\ UNCHANGED <<timer, opened, disp, failed>>

(* dmx_section_feed_allocate_filter: at the head of the feed's chain. *)
LinkFilter ==
    LET d == flt[op.f].feed IN
    /\ op.pc = "link" /\ disp = Quiet
    /\ \/ /\ FreeSecs = {} \/ Failing
          /\ op' = [op EXCEPT !.pc = "restart", !.back = "retry"]
          /\ UNCHANGED <<flt, feed, sec>>
          /\ failed' = (failed \/ FreeSecs # {})
       \/ \E x \in Sec :
            /\ First(x, FreeSecs)
            /\ sec' = [sec EXCEPT ![x] = [state |-> "READY", feed |-> d, priv |-> op.f]]
            /\ feed' = [feed EXCEPT ![d].chain = <<x>> \o @]
            /\ flt' = [flt EXCEPT ![op.f].sec = x]
            /\ Goto("run") /\ UNCHANGED failed
    /\ UNCHANGED <<timer, opened, disp>>

(* No section filter: after the restart the feed is started once more. *)
RetryFeed ==
    LET d == flt[op.f].feed IN
    /\ op.pc = "retry"
    /\ StartSucceeds(d) \/ StartFails(d)
    /\ Goto("end")
    /\ UNCHANGED <<flt, timer, opened, sec, disp>>

RunFeed ==
    LET d == flt[op.f].feed IN
    /\ op.pc = "run"
    /\ \/ StartSucceeds(d) /\ Goto("arm")
       \/ StartFails(d) /\ Goto("end")
    /\ UNCHANGED <<flt, timer, opened, sec, disp>>

(* dvb_dmxdev_filter_timer. *)
ArmTimer ==
    /\ op.pc = "arm"
    /\ timer' = [timer EXCEPT ![op.f].armed = flt[op.f].par.timed]
    /\ Goto("go")
    /\ UNCHANGED <<flt, opened, feed, sec, disp, failed>>

Go ==
    /\ op.pc = "go"
    /\ flt' = [flt EXCEPT ![op.f].state = "GO"]
    /\ Goto("end")
    /\ UNCHANGED <<timer, opened, feed, sec, disp, failed>>

OpStep ==
    \/ StopNothing \/ StopFilter \/ HaltFeed \/ ReleaseFilter
    \/ RestartOther \/ RestartFeed \/ ReleaseFeed \/ Stopped
    \/ FilterSet \/ FilterFree
    \/ StartAlone \/ StartShared \/ PauseFeed
    \/ AllocFeed \/ LinkFilter \/ RetryFeed \/ RunFeed \/ ArmTimer \/ Go

-----------------------------------------------------------------------------
(* Delivery: a section is complete on a feed that is filtering; demux->lock
   is held until it has been offered to the whole chain. *)
SectionArrives(d) ==
    /\ disp = Quiet
    /\ feed[d].listed /\ feed[d].filtering /\ feed[d].chain # <<>>
    /\ disp' = [feed |-> d, rest |-> feed[d].chain]
    /\ UNCHANGED <<flt, timer, opened, feed, sec, op, failed>>

Rest == IF Len(disp.rest) = 1 THEN Quiet ELSE [disp EXCEPT !.rest = Tail(@)]

(* The section does not match, or the filter is in error or not running. *)
SectionIgnored ==
    /\ disp # Quiet
    /\ disp' = Rest
    /\ UNCHANGED <<flt, timer, opened, feed, sec, op, failed>>

(* dvb_dmxdev_section_callback stores it, or notes that it does not fit. *)
SectionStored ==
    LET f    == sec[Head(disp.rest)].priv
        fits == Len(flt[f].unread) < Room IN
    /\ disp # Quiet
    /\ flt[f].err = "none" /\ flt[f].state = "GO"
    /\ timer' = [timer EXCEPT ![f].armed = FALSE]
    /\ flt' = [flt EXCEPT
           ![f].unread = IF fits THEN Append(@, feed[disp.feed].pid) ELSE @,
           ![f].err    = IF fits THEN @ ELSE "EOVERFLOW",
           ![f].state  = IF flt[f].par.oneshot THEN "DONE" ELSE @]
    /\ disp' = Rest
    /\ UNCHANGED <<opened, feed, sec, op, failed>>

-----------------------------------------------------------------------------
(* dvb_dmxdev_filter_timeout: the error without a lock, the state under dev->lock. *)

TimerExpires(f) ==
    /\ timer[f].armed /\ ~timer[f].late
    /\ timer' = [timer EXCEPT ![f] = [armed |-> FALSE, late |-> TRUE]]
    /\ flt' = [flt EXCEPT ![f].err = "ETIMEDOUT"]
    /\ UNCHANGED <<opened, feed, sec, op, disp, failed>>

TimerEnds(f) ==
    /\ timer[f].late
    /\ timer' = [timer EXCEPT ![f].late = FALSE]
    /\ flt' = [flt EXCEPT ![f].state = "TIMEDOUT"]
    /\ UNCHANGED <<opened, feed, sec, op, disp, failed>>

-----------------------------------------------------------------------------
Next ==
    \/ Open
    \/ \E f \in Filter : SetFilter(f) \/ Start(f) \/ Stop(f) \/ Close(f) \/ Read(f)
    \/ OpStep
    \/ \E d \in Feed : SectionArrives(d)
    \/ SectionIgnored \/ SectionStored
    \/ \E f \in Filter : TimerExpires(f) \/ TimerEnds(f)

Spec == Init /\ [][Next]_vars

(* An ioctl that has its two mutexes and a delivery in progress go on, a running timer handler ends.
   The spinlock is a ticket lock: a step that waits for it infinitely often
   gets it. *)
FairSpec ==
    /\ Spec
    /\ SF_vars(OpStep)
    /\ WF_vars(SectionIgnored)
    /\ \A f \in Filter : WF_vars(TimerEnds(f))

-----------------------------------------------------------------------------
SlotType ==
    [state : {"FREE", "ALLOCATED", "SET", "GO", "DONE", "TIMEDOUT"}, section : BOOLEAN,
     par : Request \cup {NoRequest}, feed : Feed \cup {None}, sec : Sec \cup {None},
     err : {"none", "EOVERFLOW", "ETIMEDOUT"}, unread : Seq(Pids \cup {NoPid})]

FeedType ==
    [state : {"FREE", "ALLOCATED", "READY", "GO"}, pid : Pids \cup {NoPid},
     listed : BOOLEAN, filtering : BOOLEAN, chain : Seq(Sec)]

SecType == [state : {"FREE", "READY"}, feed : Feed \cup {None}, priv : Filter \cup {None}]

OpType ==
    [pc : {"idle", "stop", "halt", "release", "restart", "restarting", "stopped", "set", "free",
           "start", "alloc", "pause", "link", "retry", "run", "arm", "go", "oops"},
     f : Filter \cup {None}, g : Filter \cup {None},
     then : {"end", "set", "start", "free"}, back : {"end", "stopped", "retry"},
     ask : Request \cup {NoRequest}, now : BOOLEAN]

TypeOK ==
    /\ flt \in [Filter -> SlotType]
    /\ timer \in [Filter -> [armed : BOOLEAN, late : BOOLEAN]]
    /\ opened \subseteq Filter
    /\ feed \in [Feed -> FeedType]
    /\ sec \in [Sec -> SecType]
    /\ op \in OpType /\ (op.pc # "idle" => op.f \in Filter)
    /\ disp = Quiet \/ (disp \in [feed : Feed, rest : Seq(Sec)] /\ disp.rest # <<>>)
    /\ failed \in BOOLEAN

(* Until a demux call fails that had what it needed, every running filter is served
   between two calls: it has a feed that is on the list and filtering for its PID,
   with the filter's own section filter in the chain, although calls on its
   neighbours have stopped and restarted it. *)
RunningIsServed ==
    op.pc = "idle" /\ ~failed =>
        \A f \in Filter : Running(f) =>
            LET d == flt[f].feed IN
            /\ d # None /\ feed[d].listed /\ feed[d].filtering
            /\ feed[d].pid = flt[f].par.pid
            /\ flt[f].sec # None
            /\ InChain(flt[f].sec, d) /\ sec[flt[f].sec].priv = f

(* Until then, no feed and no section filter is kept by nobody between two calls,
   the calls that found the tables full included. *)
NothingLeaks ==
    op.pc = "idle" /\ ~failed =>
        /\ \A d \in Feed : feed[d].state # "FREE" => \E f \in Filter : Running(f) /\ flt[f].feed = d
        /\ \A x \in Sec : sec[x].state # "FREE" => \E f \in Filter : Running(f) /\ flt[f].sec = x

(* Running filters share a feed exactly when they have the same PID. *)
OneFeedPerPid ==
    op.pc = "idle" =>
        \A f, g \in Filter : Running(f) /\ Running(g) =>
            (flt[f].feed = flt[g].feed <=> flt[f].par.pid = flt[g].par.pid)

(* Until then, whatever slots were stopped, closed, reopened and retuned in the
   meantime, a buffer holds only sections of the PID its filter has been running on. *)
BufferIsOfItsPid ==
    ~failed => \A f \in Filter : \A i \in 1 .. Len(flt[f].unread) :
        flt[f].section => flt[f].unread[i] = flt[f].par.pid

(* "restart section feed if it has filters left associated with it": the filter
   that dvb_dmxdev_feed_restart sets going is one of the feed it was called for. *)
RestartsThatFeed == op.pc = "restarting" => flt[op.g].feed = flt[op.f].feed

(* "...otherwise release the feed": a feed is released only when it has no section
   filter left in its chain, which would go on pointing to a slot that has meanwhile
   been started on another PID. *)
ReleasedIsEmpty ==
    op.pc = "restart" /\ Active(flt[op.f].par.pid) = {} => feed[flt[op.f].feed].chain = <<>>

(* No call follows a NULL feed or runs off the end of a chain. *)
NoOops == op.pc # "oops"

(* A feed on the list offers a section to each allocated section filter of its own
   once: none is freed, doubled, or in the chain of another feed. *)
ChainsAreSound ==
    \A d \in Feed : feed[d].listed =>
        LET c == feed[d].chain IN
        /\ \A i \in 1 .. Len(c) : sec[c[i]].state = "READY" /\ sec[c[i]].feed = d
        /\ \A i, j \in 1 .. Len(c) : i # j => c[i] # c[j]

(* A slot no descriptor stands for can be opened again. *)
ClosedSlotsAreFree == \A f \in Filter \ opened : flt[f].state = "FREE"

(* Every ioctl and close that has got its descriptor's mutex ends: whatever
   fails, runs out or is restarted for others, no path waits for something that
   does not come.  How long it waits for that mutex is not in this. *)
CallsEnd == (op.pc # "idle") ~> (op.pc = "idle")
=============================================================================
