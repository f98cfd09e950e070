------------------------------- MODULE PesFilters -------------------------------
(***************************************************************************)
(* The PES and TS filters of one demux device: the lists of PIDs that      *)
(* media/3.19/dvb-core/dmxdev.c keeps for a descriptor, over the TS feeds  *)
(* of media/3.19/dvb-core/dvb_demux.c.                                     *)
(*                                                                         *)
(* Every PID of a running filter has a demux feed of its own.  The ioctls  *)
(* are serialised by dmxdev->mutex (op is the one in progress), but stop,  *)
(* release, allocate, set and start their feeds one by one, each under     *)
(* demux->lock for a moment.  A packet is filtered under that lock, so it  *)
(* may come between any two steps: Copies(p, x) is what it would do to     *)
(* buffer x in the present state.  The buffers themselves are the subject  *)
(* of DmxBuffer, section filters that of SectionFilters.                   *)
(*                                                                         *)
(* A definition whose name ends in _broken is a plausible bug in the one   *)
(* that follows it, which the specification does not use.                  *)
(***************************************************************************)
EXTENDS Integers, SequencesExt

CONSTANTS
    NumFilters,  \* dmxdev->filternum: slots, at most one per open descriptor
    NumFeeds,    \* demux->feednum
    Pids,        \* PIDs an application asks for
    Outputs,     \* what it wants done with the packets
    PesTypes,    \* the decoder it wants them sent to, "other", or "invalid"
    MaxPids,     \* bound on the PIDs of a descriptor
    Edits,       \* applications call DMX_ADD_PID and DMX_REMOVE_PID
    Failing      \* allocations, signals and the driver's start_feed may fail

Decoders == {"audio", "video", "teletext", "subtitle", "pcr"}

ASSUME PesAssumption ==
    /\ NumFilters \in Nat \ {0} /\ NumFeeds \in Nat \ {0} /\ MaxPids \in Nat \ {0}
    /\ Outputs \subseteq {"decoder", "tap", "ts_tap", "tsdemux_tap"}
    /\ PesTypes \subseteq Decoders \cup {"other", "invalid"}
    /\ Edits \in BOOLEAN /\ Failing \in BOOLEAN

VARIABLES
    flt,        \* struct dmxdev_filter, by slot
    feed,       \* struct dvb_demux_feed
    feed_list,  \* demux->feed_list
    pesfilter,  \* demux->pesfilter
    op          \* the ioctl or release in progress

vars == <<flt, feed, feed_list, pesfilter, op>>

Filter == 1 .. NumFilters
Feed   == 1 .. NumFeeds
None   == 0           \* a NULL pointer; no real slot has this number
Dvr    == 0           \* the buffer of the DVR device; a filter's own is its slot
NoPid  == "0xffff"
Whole  == "0x2000"    \* the PID that stands for the whole transport stream

Request   == [pid : Pids, output : Outputs, type : PesTypes]
NoRequest == [pid |-> NoPid, output |-> "decoder", type |-> "other"]

NoOp == [pc |-> "idle", f |-> None, i |-> 1, then |-> "end", ask |-> NoRequest, now |-> FALSE]

FreeSlot == [state |-> "FREE", par |-> NoRequest, pids |-> <<>>]
FreeFeed == [state |-> "FREE", pid |-> NoPid, output |-> "decoder", type |-> "other",
             filtering |-> FALSE, priv |-> None]

(* The table of feeds is not cleared: what release_ts_feed would read from a
   feed that was never set may be any decoder. *)
Init ==
    /\ flt = [f \in Filter |-> FreeSlot]
    /\ feed \in [Feed -> {[FreeFeed EXCEPT !.type = t] : t \in (PesTypes \cap Decoders) \cup {"other"}}]
    /\ feed_list = <<>>
    /\ pesfilter = [t \in Decoders |-> None]
    /\ op = NoOp

-----------------------------------------------------------------------------
(* The present ioctl: its entry of the PID list, and the feed of that entry. *)
Entry   == flt[op.f].pids[op.i]
AtEntry == op.i <= Len(flt[op.f].pids)
Goto(pc)  == op' = [op EXCEPT !.pc = pc]
Pass(pc)  == op' = IF pc = "end" THEN NoOp ELSE [op EXCEPT !.pc = pc, !.i = 1]
Proceed   == op' = [op EXCEPT !.i = @ + 1]
PointTo(d) == flt' = [flt EXCEPT ![op.f].pids[op.i].ts = d]

First(i, S) == i \in S /\ \A j \in S : i <= j

FreeFeeds == {d \in Feed : feed[d].state = "FREE"}

-----------------------------------------------------------------------------
(* dvb_demux.c *)

(* dmx_ts_feed_stop_filtering: a feed that is not going is left alone. *)
StopFeed(d) ==
    feed' = [feed EXCEPT ![d] = IF @.state # "GO" THEN @
                ELSE [@ EXCEPT !.state = "ALLOCATED", !.filtering = FALSE]]

(* Of a free feed only the type is ever read again. *)
Released(d) == [FreeFeed EXCEPT !.type = feed[d].type]

(* dvb_demux_feed_find, dvb_demux_feed_add, dvb_demux_feed_del *)
Places(d) == {i \in 1 .. Len(feed_list) : feed_list[i] = d}

FeedAdd(d) == feed_list' = IF Places(d) = {} THEN <<d>> \o feed_list ELSE feed_list

FeedDel(d) ==
    \/ Places(d) = {} /\ UNCHANGED feed_list
    \/ \E i \in Places(d) : feed_list' = RemoveAt(feed_list, i)

(* dvb_demux_feed_del is forgotten. *)
ReleaseFeed_broken(d) ==
    /\ feed' = [feed EXCEPT ![d] = Released(d)]
    /\ UNCHANGED <<feed_list, pesfilter>>

(* dvbdmx_release_ts_feed.  The decoder given up is the one the feed was last
   set to, by whoever had it then. *)
ReleaseFeed(d) ==
    \/ feed[d].state = "FREE" /\ UNCHANGED <<feed, feed_list, pesfilter>>
    \/ /\ feed[d].state # "FREE"
       /\ feed' = [feed EXCEPT ![d] = Released(d)]
       /\ FeedDel(d)
       /\ pesfilter' = [t \in Decoders |-> IF t = feed[d].type THEN None ELSE pesfilter[t]]

(* dvbdmx_allocate_ts_feed: the type stays what it was. *)
Prepared(d, state, priv) == [Released(d) EXCEPT !.state = state, !.priv = priv]

(* DVR_FEED without is_filtering. *)
DvrFeed_broken(d) == feed[d].output = "ts_tap"

(* DVR_FEED *)
DvrFeed(d) == feed[d].filtering /\ feed[d].output = "ts_tap"

(* The first DVR feed takes no turn. *)
Skipped_broken(p, i) == FALSE

(* dvb_dmx_swfilter_packet: the i-th feed of the list wants a packet on p, but
   a DVR feed before it has had it. *)
Wants(p, i)   == feed[feed_list[i]].pid \in {p, Whole}
Skipped(p, i) ==
    /\ DvrFeed(feed_list[i])
    /\ \E j \in 1 .. i - 1 : Wants(p, j) /\ DvrFeed(feed_list[j])

(* dvb_dmx_swfilter_packet_type asks whether the feed is filtering and takes
   packets, a feed for the whole stream is not asked. *)
Served(p, i) ==
    LET d == feed_list[i] IN
    /\ Wants(p, i) /\ ~Skipped(p, i)
    /\ \/ feed[d].pid = Whole
       \/ feed[d].filtering /\ feed[d].output # "decoder"

(* dvb_dmxdev_ts_callback: the buffer a packet of feed d goes to. *)
Reaches(d, x) ==
    LET f == feed[d].priv IN
    \/ flt[f].par.output \in {"tap", "tsdemux_tap"} /\ x = f
    \/ flt[f].par.output = "ts_tap" /\ x = Dvr

(* How often a packet on p would now be put in buffer x. *)
Copies(p, x) ==
    Cardinality({i \in 1 .. Len(feed_list) : Served(p, i) /\ Reaches(feed_list[i], x)})

-----------------------------------------------------------------------------
(* The system calls on a descriptor; calls that return at once are left out. *)

(* dvb_demux_open *)
Open ==
    \E f \in Filter :
        /\ op.pc = "idle"
        /\ First(f, {g \in Filter : flt[g].state = "FREE"})
        /\ flt' = [flt EXCEPT ![f].state = "ALLOCATED"]
        /\ UNCHANGED <<feed, feed_list, pesfilter, op>>

(* An ioctl or release on slot f: first dvb_dmxdev_filter_stop, then the rest. *)
Call(f, then, ask, now) ==
    /\ op.pc = "idle" /\ flt[f].state # "FREE"
    /\ op' = [NoOp EXCEPT !.pc = "stop", !.f = f, !.then = then, !.ask = ask, !.now = now]
    /\ UNCHANGED <<flt, feed, feed_list, pesfilter>>

SetPesFilter(f) == \E r \in Request, now \in BOOLEAN : Call(f, "set", r, now)
Start(f) == flt[f].state # "ALLOCATED" /\ Call(f, "start", NoRequest, FALSE)
Stop(f)  == flt[f].state = "GO" /\ Call(f, "end", NoRequest, FALSE)
Close(f) == Call(f, "free", NoRequest, FALSE)

(* A PID added to a running filter is not started. *)
AddPid_broken(f, p) ==
    /\ Edits /\ op.pc = "idle" /\ flt[f].state \in {"SET", "GO"}
    /\ flt[f].par.output = "tsdemux_tap" \/ flt[f].pids = <<>>
    /\ Len(flt[f].pids) < MaxPids
    /\ flt' = [flt EXCEPT ![f].pids = <<[pid |-> p, ts |-> None]>> \o @]
    /\ UNCHANGED <<feed, feed_list, pesfilter, op>>

(* dvb_dmxdev_add_pid: a PID of a running filter is started. *)
AddPid(f, p) ==
    /\ Edits /\ op.pc = "idle" /\ flt[f].state \in {"SET", "GO"}
    /\ flt[f].par.output = "tsdemux_tap" \/ flt[f].pids = <<>>
    /\ Len(flt[f].pids) < MaxPids                  \* the bound of the runs
    /\ flt' = [flt EXCEPT ![f].pids = <<[pid |-> p, ts |-> None]>> \o @]
    /\ op' = IF flt[f].state = "GO" THEN [NoOp EXCEPT !.pc = "alloc", !.f = f] ELSE op
    /\ UNCHANGED <<feed, feed_list, pesfilter>>

(* dvb_dmxdev_remove_pid *)
RemovePid(f, p) ==
    /\ Edits /\ op.pc = "idle" /\ flt[f].state \in {"SET", "GO"}
    /\ op' = [NoOp EXCEPT !.pc = "remove", !.f = f, !.ask = [NoRequest EXCEPT !.pid = p]]
    /\ UNCHANGED <<flt, feed, feed_list, pesfilter>>

-----------------------------------------------------------------------------
(* dvb_dmxdev_filter_stop *)

(* Nothing runs. *)
StopNothing ==
    /\ op.pc = "stop" /\ flt[op.f].state # "GO"
    /\ Pass(op.then)
    /\ UNCHANGED <<flt, feed, feed_list, pesfilter>>

(* The state is not looked at. *)
StopFilter_broken ==
    /\ op.pc = "stop"
    /\ flt' = [flt EXCEPT ![op.f].state = "SET"]
    /\ Pass("halt")
    /\ UNCHANGED <<feed, feed_list, pesfilter>>

(* dvb_dmxdev_feed_stop: the filter is marked as stopped... *)
StopFilter ==
    /\ op.pc = "stop" /\ flt[op.f].state = "GO"
    /\ flt' = [flt EXCEPT ![op.f].state = "SET"]
    /\ Pass("halt")
    /\ UNCHANGED <<feed, feed_list, pesfilter>>

(* ...and its feeds one after the other; one without a TS feed is followed nevertheless. *)
HaltFeed ==
    /\ op.pc = "halt" /\ AtEntry
    /\ \/ Entry.ts # None /\ StopFeed(Entry.ts) /\ Proceed
       \/ Entry.ts = None /\ Goto("oops") /\ UNCHANGED feed
    /\ UNCHANGED <<flt, feed_list, pesfilter>>

FeedsHalted ==
    /\ op.pc = "halt" /\ ~AtEntry
    /\ Pass("release")
    /\ UNCHANGED <<flt, feed, feed_list, pesfilter>>

ReleaseEntry ==
    /\ op.pc = "release" /\ AtEntry
    /\ ReleaseFeed(Entry.ts)
    /\ PointTo(None)
    /\ Proceed

FeedsReleased ==
    /\ op.pc = "release" /\ ~AtEntry
    /\ Pass(op.then)
    /\ UNCHANGED <<flt, feed, feed_list, pesfilter>>

-----------------------------------------------------------------------------
(* dvb_dmxdev_pes_filter_set and dvb_dmxdev_filter_free, once stopped *)

(* The old PIDs are deleted... *)
PesFilterRefused ==
    /\ op.pc = "set" /\ op.ask.type = "invalid"
    /\ flt' = [flt EXCEPT ![op.f].state = "ALLOCATED", ![op.f].pids = <<>>]
    /\ op' = NoOp
    /\ UNCHANGED <<feed, feed_list, pesfilter>>

(* ...and the new one is added, if there is memory for it. *)
PesFilterSet ==
    /\ op.pc = "set" /\ op.ask.type # "invalid"
    /\ \/ /\ flt' = [flt EXCEPT ![op.f] = [state |-> "SET", par |-> op.ask,
                                           pids |-> <<[pid |-> op.ask.pid, ts |-> None]>>]]
          /\ op' = IF op.now THEN [NoOp EXCEPT !.pc = "start", !.f = op.f] ELSE NoOp
       \/ /\ Failing
          /\ flt' = [flt EXCEPT ![op.f] = [state |-> "SET", par |-> op.ask, pids |-> <<>>]]
          /\ op' = NoOp
    /\ UNCHANGED <<feed, feed_list, pesfilter>>

(* The parameters stay in the slot. *)
FilterFree ==
    /\ op.pc = "free"
    /\ flt' = [flt EXCEPT ![op.f].state = "FREE", ![op.f].pids = <<>>]
    /\ op' = NoOp
    /\ UNCHANGED <<feed, feed_list, pesfilter>>

-----------------------------------------------------------------------------
(* dvb_dmxdev_filter_start, once stopped, and dvb_dmxdev_start_feed for each
   entry (then = "start") or for the one just added (then = "end") *)

(* There is memory for the buffer, or not. *)
StartFilter ==
    /\ op.pc = "start"
    /\ \/ op' = [op EXCEPT !.pc = "alloc", !.then = "start"]
       \/ Failing /\ op' = NoOp
    /\ UNCHANGED <<flt, feed, feed_list, pesfilter>>

(* The NULL for a full table goes unnoticed. *)
AllocFeed_broken ==
    /\ op.pc = "alloc" /\ AtEntry
    /\ \/ \E d \in Feed : /\ First(d, FreeFeeds)
                         /\ feed' = [feed EXCEPT ![d] = Prepared(d, "ALLOCATED", op.f)]
                         /\ PointTo(d)
       \/ FreeFeeds = {} /\ PointTo(None) /\ UNCHANGED feed
    /\ Goto("set_feed")
    /\ UNCHANGED <<feed_list, pesfilter>>

AllocFeed ==
    /\ op.pc = "alloc" /\ AtEntry
    /\ \E d \in Feed :
         /\ First(d, FreeFeeds)
         /\ feed' = [feed EXCEPT ![d] = Prepared(d, "ALLOCATED", op.f)]
         /\ PointTo(d)
    /\ Goto("set_feed")
    /\ UNCHANGED <<feed_list, pesfilter>>

(* No feed is free or the call is interrupted: the entry has none.  No demux
   filter is free: it points to a feed that was not allocated. *)
AllocFails ==
    /\ op.pc = "alloc" /\ AtEntry
    /\ \/ (FreeFeeds = {} \/ Failing) /\ PointTo(None) /\ UNCHANGED feed
       \/ /\ Failing
          /\ \E d \in Feed :
               /\ First(d, FreeFeeds)
               /\ feed' = [feed EXCEPT ![d] = Prepared(d, "FREE", None)]
               /\ PointTo(d)
    /\ op' = NoOp
    /\ UNCHANGED <<feed_list, pesfilter>>

(* dmx_ts_feed_set: another feed has the decoder. *)
Busy(t) == t \in Decoders /\ pesfilter[t] \notin {None, Entry.ts}

SetFeed ==
    LET par == flt[op.f].par  d == Entry.ts IN
    /\ op.pc = "set_feed" /\ ~Busy(par.type)
    /\ feed' = [feed EXCEPT ![d].state = "READY", ![d].pid = Entry.pid,
                            ![d].output = par.output, ![d].type = par.type]
    /\ FeedAdd(d)
    /\ pesfilter' = [t \in Decoders |-> IF t = par.type THEN d ELSE pesfilter[t]]
    /\ Goto("run")
    /\ UNCHANGED flt

(* It is refused: the feed is released, the entry keeps pointing to it. *)
SetFails ==
    /\ op.pc = "set_feed" /\ (Busy(flt[op.f].par.type) \/ Failing)
    /\ ReleaseFeed(Entry.ts)
    /\ op' = NoOp
    /\ UNCHANGED flt

(* dmx_ts_feed_start_filtering *)
RunFeed ==
    /\ op.pc = "run"
    /\ feed' = [feed EXCEPT ![Entry.ts].state = "GO", ![Entry.ts].filtering = TRUE]
    /\ op' = IF op.then = "start" THEN [op EXCEPT !.pc = "alloc", !.i = @ + 1] ELSE NoOp
    /\ UNCHANGED <<flt, feed_list, pesfilter>>

(* The feed is not given back. *)
RunFails_broken ==
    /\ op.pc = "run" /\ Failing
    /\ op' = NoOp
    /\ UNCHANGED <<flt, feed, feed_list, pesfilter>>

(* The feed is released.  filter_start calls filter_stop then, which does
   nothing: the filter's state is still SET. *)
RunFails ==
    /\ op.pc = "run" /\ Failing
    /\ ReleaseFeed(Entry.ts)
    /\ op' = NoOp
    /\ UNCHANGED flt

Go ==
    /\ op.pc = "alloc" /\ ~AtEntry
    /\ flt' = [flt EXCEPT ![op.f].state = "GO"]
    /\ op' = NoOp
    /\ UNCHANGED <<feed, feed_list, pesfilter>>

-----------------------------------------------------------------------------
(* dvb_dmxdev_remove_pid: every entry with the PID and a feed goes. *)

Removes == Entry.pid = op.ask.pid /\ Entry.ts # None

KeepEntry ==
    /\ op.pc = "remove" /\ AtEntry /\ ~Removes
    /\ Proceed
    /\ UNCHANGED <<flt, feed, feed_list, pesfilter>>

HaltEntry ==
    /\ op.pc = "remove" /\ AtEntry /\ Removes
    /\ StopFeed(Entry.ts)
    /\ Goto("drop")
    /\ UNCHANGED <<flt, feed_list, pesfilter>>

(* The feed stays allocated. *)
DropEntry_broken ==
    /\ op.pc = "drop"
    /\ flt' = [flt EXCEPT ![op.f].pids = RemoveAt(@, op.i)]
    /\ Goto("remove")
    /\ UNCHANGED <<feed, feed_list, pesfilter>>

DropEntry ==
    /\ op.pc = "drop"
    /\ ReleaseFeed(Entry.ts)
    /\ flt' = [flt EXCEPT ![op.f].pids = RemoveAt(@, op.i)]
    /\ Goto("remove")

RemoveEnds ==
    /\ op.pc = "remove" /\ ~AtEntry
    /\ op' = NoOp
    /\ UNCHANGED <<flt, feed, feed_list, pesfilter>>

-----------------------------------------------------------------------------
OpStep ==
    \/ StopNothing \/ StopFilter \/ HaltFeed \/ FeedsHalted \/ ReleaseEntry \/ FeedsReleased
    \/ PesFilterRefused \/ PesFilterSet \/ FilterFree
    \/ StartFilter \/ AllocFeed \/ AllocFails \/ SetFeed \/ SetFails \/ RunFeed \/ RunFails \/ Go
    \/ KeepEntry \/ HaltEntry \/ DropEntry \/ RemoveEnds

Next ==
    \/ Open
    \/ \E f \in Filter :
         \/ SetPesFilter(f) \/ Start(f) \/ Stop(f) \/ Close(f)
         \/ \E p \in Pids : AddPid(f, p) \/ RemovePid(f, p)
    \/ OpStep

Spec == Init /\ [][Next]_vars

-----------------------------------------------------------------------------
EntryType == [pid : Pids, ts : Feed \cup {None}]
SlotType  == [state : {"FREE", "ALLOCATED", "SET", "GO"}, par : Request \cup {NoRequest},
              pids : Seq(EntryType)]
FeedType  == [state : {"FREE", "ALLOCATED", "READY", "GO"}, pid : Pids \cup {NoPid},
              output : Outputs \cup {"decoder"}, type : PesTypes \cup {"other"},
              filtering : BOOLEAN, priv : Filter \cup {None}]
Steps == {"idle", "stop", "halt", "release", "set", "free", "start", "alloc", "set_feed", "run",
          "remove", "drop", "oops"}
OpType ==
    [pc : Steps, f : Filter \cup {None}, i : Nat \ {0}, then : {"end", "set", "start", "free"},
     ask : Request \cup [pid : Pids \cup {NoPid}, output : {"decoder"}, type : {"other"}],
     now : BOOLEAN]

TypeOK ==
    /\ flt \in [Filter -> SlotType]
    /\ feed \in [Feed -> FeedType]
    /\ feed_list \in Seq(Feed)
    /\ pesfilter \in [Decoders -> Feed \cup {None}]
    /\ op \in OpType

(* The PIDs a packet may have, and how often a filter asks for one of them. *)
Packets == Pids \ {Whole}
Asked(f, p) == Cardinality({i \in 1 .. Len(flt[f].pids) : flt[f].pids[i].pid \in {p, Whole}})

Running(f) == flt[f].state = "GO"
IsDvr(f)   == flt[f].par.output = "ts_tap"

(* "copy each packet only once to the dvr device, even if a PID is in multiple
   filters": whatever filters come and go, and in the middle of their coming and
   going, the DVR buffer gets a packet at most once. *)
DvrOnce == \A p \in Packets : Copies(p, Dvr) <= 1

(* ...and it gets the packet if any filter for the DVR device runs on its PID:
   taking turns never makes one of them lose it. *)
DvrServed ==
    \A f \in Filter : Running(f) /\ IsDvr(f) /\ op.f # f =>
        \A p \in Packets : Asked(f, p) > 0 => Copies(p, Dvr) > 0

(* While others start, stop, close and change their PIDs, a running tap gets each
   packet it asked for as often as it asked for it, and a filter that does not
   run gets none. *)
TapGetsWhatItAsked ==
    \A f \in Filter, p \in Packets : op.f # f =>
        Copies(p, f) = IF Running(f) /\ flt[f].par.output \in {"tap", "tsdemux_tap"}
                       THEN Asked(f, p) ELSE 0

(* Between two calls the feeds in use are those of the PIDs of the running
   filters, one each. *)
NothingLeaks ==
    op.pc = "idle" =>
        \A d \in Feed :
            LET owners == {f \in Filter : Running(f) /\
                             \E i \in 1 .. Len(flt[f].pids) : flt[f].pids[i].ts = d}
            IN feed[d].state = "FREE" \/ owners = {feed[d].priv}

(* No call follows a NULL feed. *)
NoOops == op.pc # "oops"

(* No feed is on the list twice ("feed already in list" is never printed) and no
   free one: a packet is never given to a feed that was released.  A feed that was
   set is on it, so it is served. *)
FeedListSound ==
    /\ \A i, j \in 1 .. Len(feed_list) : feed_list[i] = feed_list[j] => i = j
    /\ \A i \in 1 .. Len(feed_list) : feed[feed_list[i]].state # "FREE"
    /\ \A d \in Feed : feed[d].state \in {"READY", "GO"} => Places(d) # {}
=============================================================================
