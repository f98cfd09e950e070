------------------------- MODULE SectionFilters_proofs -------------------------
(***************************************************************************)
(* Proofs about SectionFilters for every number of slots, feeds and        *)
(* section filters, with failing demux calls and late timer handlers: the  *)
(* types, and that a feed on the list never offers a section to a section  *)
(* filter that is free, twice in its chain, or another feed's.             *)
(*                                                                         *)
(* ChainsAreSound is inductive together with TypeOK.  A step disturbs it   *)
(* only where it changes a chain, the list, or a section filter: in        *)
(* AllocFeed, LinkFilter, ReleaseFilter and ReleaseFeed.                   *)
(***************************************************************************)
EXTENDS SectionFilters, SequenceTheorems, TLAPS

(* The call has been moved on to pc, or has ended. *)
LEMMA GotoType ==
    ASSUME NEW pc \in {"end", "stop", "halt", "release", "restart", "restarting", "stopped",
                       "set", "free", "start", "alloc", "pause", "link", "retry", "run", "arm",
                       "go", "oops"},
           TypeOK, op.pc # "idle", Goto(pc)
    PROVE  op' \in OpType /\ (op'.pc # "idle" => op'.f \in Filter)
<1>1. CASE pc = "end"
  BY <1>1 DEF Goto, NoOp, OpType
<1>2. CASE pc # "end"
  <2>1. op' = [op EXCEPT !.pc = pc]
    BY <1>2 DEF Goto
  <2> QED
    BY <1>2, <2>1 DEF TypeOK, OpType
<1> QED
  BY <1>1, <1>2

LEMMA InitTypes == ASSUME Init PROVE TypeOK
<1>1. flt \in [Filter -> SlotType]
  BY DEF Init, FreeSlot, SlotType
<1>2. timer \in [Filter -> [armed : BOOLEAN, late : BOOLEAN]]
  BY DEF Init
<1>3. feed \in [Feed -> FeedType]
  BY DEF Init, FreeFeed, FeedType
<1>4. sec \in [Sec -> SecType]
  BY DEF Init, FreeSec, SecType
<1>5. op \in OpType /\ (op.pc # "idle" => op.f \in Filter)
  BY DEF Init, NoOp, OpType
<1> QED
  BY <1>1, <1>2, <1>3, <1>4, <1>5 DEF Init, TypeOK

(* What the actions do to one slot leaves it a slot. *)
LEMMA SlotEdits ==
    ASSUME NEW r \in SlotType
    PROVE  /\ Flushed(r) \in SlotType
           /\ \A v \in {"FREE", "ALLOCATED", "SET", "GO", "DONE", "TIMEDOUT"} :
                [r EXCEPT !.state = v] \in SlotType
           /\ \A d \in Feed \cup {None} : [r EXCEPT !.feed = d] \in SlotType
           /\ \A x \in Sec \cup {None} : [r EXCEPT !.sec = x] \in SlotType
           /\ [r EXCEPT !.err = "ETIMEDOUT"] \in SlotType
<1>1. Flushed(r) \in SlotType
  <2>1. <<>> \in Seq(Pids \cup {NoPid})
    OBVIOUS
  <2>2. [r EXCEPT !.unread = <<>>] \in SlotType
    BY <2>1 DEF SlotType
  <2>3. \A q \in SlotType : [q EXCEPT !.err = "none"] \in SlotType
    BY DEF SlotType
  <2>4. Flushed(r) = [[r EXCEPT !.unread = <<>>] EXCEPT !.err = "none"]
    BY DEF Flushed, SlotType
  <2> QED
    BY <2>2, <2>3, <2>4
<1>2. ASSUME NEW v \in {"FREE", "ALLOCATED", "SET", "GO", "DONE", "TIMEDOUT"}
      PROVE  [r EXCEPT !.state = v] \in SlotType
  BY DEF SlotType
<1>3. ASSUME NEW d \in Feed \cup {None} PROVE [r EXCEPT !.feed = d] \in SlotType
  BY DEF SlotType
<1>4. ASSUME NEW x \in Sec \cup {None} PROVE [r EXCEPT !.sec = x] \in SlotType
  BY DEF SlotType
<1>5. [r EXCEPT !.err = "ETIMEDOUT"] \in SlotType
  BY DEF SlotType
<1> QED
  BY <1>1, <1>2, <1>3, <1>4, <1>5

(* The calls change the slot only through op, and the reads only a buffer. *)
LEMMA CallTypes ==
    ASSUME TypeOK, NEW f \in Filter,
           Open \/ SetFilter(f) \/ Start(f) \/ Stop(f) \/ Close(f) \/ Read(f)
    PROVE  TypeOK'
<1>1. CASE Open
  <2> PICK g \in Filter :
         /\ flt' = [flt EXCEPT ![g] = [Flushed(flt[g]) EXCEPT !.state = "ALLOCATED"]]
         /\ timer' = [timer EXCEPT ![g].armed = FALSE]
         /\ opened' = opened \cup {g}
    BY <1>1 DEF Open
  <2>1. [Flushed(flt[g]) EXCEPT !.state = "ALLOCATED"] \in SlotType
    <3>1. flt[g] \in SlotType
      BY DEF TypeOK
    <3>2. Flushed(flt[g]) \in SlotType
      BY <3>1, SlotEdits
    <3> QED
      BY <3>2, SlotEdits
  <2>2. flt' \in [Filter -> SlotType]
    BY <2>1 DEF TypeOK
  <2>3. timer' \in [Filter -> [armed : BOOLEAN, late : BOOLEAN]]
    BY DEF TypeOK
  <2> QED
    BY <1>1, <2>2, <2>3 DEF Open, TypeOK, Quiet
<1>2. ASSUME NEW pc \in {"stop", "start"}, NEW then \in {"end", "set", "start", "free"},
             NEW ask \in Request \cup {NoRequest}, NEW now \in BOOLEAN,
             Call(f, pc, then, ask, now)
      PROVE  TypeOK'
  <2>1. op' \in OpType /\ op'.f \in Filter
    BY <1>2 DEF Call, NoOp, OpType
  <2> QED
    BY <1>2, <2>1 DEF Call, TypeOK, Quiet
<1>3. CASE SetFilter(f) \/ Start(f) \/ Stop(f) \/ Close(f)
  BY <1>2, <1>3 DEF SetFilter, Start, Stop, Close
<1>4. CASE Read(f)
  <2>1. flt[f] \in SlotType
    BY DEF TypeOK
  <2>2. CASE flt' = [flt EXCEPT ![f] = Flushed(flt[f])]
    <3>1. flt' \in [Filter -> SlotType]
      BY <2>1, <2>2, SlotEdits DEF TypeOK
    <3> QED
      BY <1>4, <3>1 DEF Read, TypeOK, Quiet
  <2>3. CASE flt[f].unread # <<>> /\ flt' = [flt EXCEPT ![f].unread = Tail(flt[f].unread)]
    <3>1. flt[f].unread \in Seq(Pids \cup {NoPid})
      BY <2>1 DEF SlotType
    <3>2. Tail(flt[f].unread) \in Seq(Pids \cup {NoPid})
      BY <2>3, <3>1
    <3>3. [flt[f] EXCEPT !.unread = Tail(flt[f].unread)] \in SlotType
      BY <2>1, <3>2 DEF SlotType
    <3>4. flt' \in [Filter -> SlotType]
      BY <2>3, <3>3 DEF TypeOK
    <3> QED
      BY <1>4, <3>4 DEF Read, TypeOK, Quiet
  <2> QED
    BY <1>4, <2>2, <2>3 DEF Read
<1> QED
  BY <1>1, <1>3, <1>4

(* The calls of the demux on a feed. *)
LEMMA FeedEdits ==
    ASSUME TypeOK, NEW d, StopFiltering(d) \/ StartSucceeds(d) \/ StartFails(d)
    PROVE  feed' \in [Feed -> FeedType]
<1>1. ASSUME NEW e \in Feed, NEW v \in {"READY", "GO"}, NEW b \in BOOLEAN
      PROVE  [feed[e] EXCEPT !.filtering = b, !.state = v] \in FeedType
  <2>1. feed[e] \in FeedType
    BY DEF TypeOK
  <2> QED
    BY <2>1 DEF FeedType
<1>2. feed \in [Feed -> FeedType]
  BY DEF TypeOK
<1>3. CASE StopFiltering(d)
  BY <1>1, <1>2, <1>3 DEF StopFiltering
<1>4. CASE StartSucceeds(d)
  BY <1>1, <1>2, <1>4 DEF StartSucceeds
<1>5. CASE StartFails(d)
  BY <1>2, <1>5 DEF StartFails
<1> QED
  BY <1>3, <1>4, <1>5

LEMMA FailedType ==
    ASSUME TypeOK, NEW d, StartSucceeds(d) \/ StartFails(d)
    PROVE  failed' \in BOOLEAN
BY DEF StartSucceeds, StartFails, TypeOK

(* The current slot, and what a step may put back in its place. *)
LEMMA SlotUpdate ==
    ASSUME TypeOK, NEW f, NEW r \in SlotType, flt' = [flt EXCEPT ![f] = r]
    PROVE  flt' \in [Filter -> SlotType]
BY DEF TypeOK

(* The steps that move the call on from op.pc. *)
LEMMA PcTypes ==
    ASSUME TypeOK
    PROVE  /\ op.then \in {"end", "set", "start", "free"} /\ op.back \in {"end", "stopped", "retry"}
           /\ op.pc # "idle" => op.f \in Filter /\ flt[op.f] \in SlotType
BY DEF TypeOK, OpType

LEMMA StopTypes ==
    ASSUME TypeOK,
           StopNothing \/ StopFilter \/ HaltFeed \/ Stopped \/ FilterSet \/ FilterFree
    PROVE  TypeOK'
<1> DEFINE f == op.f
<1>1. f \in Filter /\ flt[f] \in SlotType /\ op.pc # "idle"
  BY PcTypes DEF StopNothing, StopFilter, HaltFeed, Stopped, FilterSet, FilterFree
<1>2. CASE StopNothing
  <2>1. flt' \in [Filter -> SlotType]
    <3>1. Flushed(flt[f]) \in SlotType
      BY <1>1, SlotEdits
    <3> QED
      BY <1>2, <3>1, SlotUpdate DEF StopNothing, TypeOK
  <2>2. op' \in OpType /\ (op'.pc # "idle" => op'.f \in Filter)
    BY <1>1, <1>2, GotoType, PcTypes DEF StopNothing
  <2> QED
    BY <1>2, <2>1, <2>2 DEF StopNothing, TypeOK, Quiet
<1>3. CASE StopFilter
  <2>1. flt' \in [Filter -> SlotType]
    <3>1. [flt[f] EXCEPT !.state = "SET"] \in SlotType
      BY <1>1, SlotEdits
    <3> QED
      BY <1>3, <3>1, SlotUpdate DEF StopFilter
  <2>2. op' \in OpType /\ (op'.pc # "idle" => op'.f \in Filter)
    BY <1>1, <1>3, GotoType DEF StopFilter
  <2>3. timer' \in [Filter -> [armed : BOOLEAN, late : BOOLEAN]]
    BY <1>3 DEF StopFilter, TimerDeleted, TypeOK
  <2> QED
    BY <1>3, <2>1, <2>2, <2>3 DEF StopFilter, TypeOK, Quiet
<1>4. CASE HaltFeed
  <2>1. op' \in OpType /\ (op'.pc # "idle" => op'.f \in Filter)
    BY <1>1, <1>4, GotoType DEF HaltFeed
  <2>2. feed' \in [Feed -> FeedType]
    BY <1>4, FeedEdits DEF HaltFeed
  <2> QED
    BY <1>4, <2>1, <2>2 DEF HaltFeed, TypeOK, Quiet
<1>5. CASE Stopped
  <2>1. flt' \in [Filter -> SlotType]
    <3>1. Flushed(flt[f]) \in SlotType
      BY <1>1, SlotEdits
    <3>2. [Flushed(flt[f]) EXCEPT !.feed = None] \in SlotType
      BY <3>1, SlotEdits
    <3> QED
      BY <1>5, <3>2, SlotUpdate DEF Stopped
  <2>2. op' \in OpType /\ (op'.pc # "idle" => op'.f \in Filter)
    BY <1>1, <1>5, GotoType, PcTypes DEF Stopped
  <2> QED
    BY <1>5, <2>1, <2>2 DEF Stopped, TypeOK, Quiet
<1>6. CASE FilterSet
  <2>1. flt' \in [Filter -> SlotType]
    <3>1. op.ask \in Request \cup {NoRequest}
      BY DEF TypeOK, OpType
    <3>2. [flt[f] EXCEPT !.section = TRUE, !.par = op.ask] \in SlotType
      BY <1>1, <3>1 DEF SlotType
    <3>3. [[flt[f] EXCEPT !.section = TRUE, !.par = op.ask] EXCEPT !.state = "SET"] \in SlotType
      BY <3>2, SlotEdits
    <3> QED
      BY <1>6, <3>3 DEF FilterSet, TypeOK
  <2>2. op' \in OpType /\ (op'.pc # "idle" => op'.f \in Filter)
    BY <1>1, <1>6, GotoType DEF FilterSet
  <2> QED
    BY <1>6, <2>1, <2>2 DEF FilterSet, TypeOK, Quiet
<1>7. CASE FilterFree
  <2>1. flt' \in [Filter -> SlotType]
    <3>1. [flt[f] EXCEPT !.section = FALSE, !.par = NoRequest] \in SlotType
      BY <1>1 DEF SlotType
    <3>2. [[flt[f] EXCEPT !.section = FALSE, !.par = NoRequest] EXCEPT !.state = "FREE"] \in SlotType
      BY <3>1, SlotEdits
    <3> QED
      BY <1>7, <3>2 DEF FilterFree, TypeOK
  <2>2. op' \in OpType /\ (op'.pc # "idle" => op'.f \in Filter)
    BY <1>1, <1>7, GotoType DEF FilterFree
  <2> QED
    BY <1>7, <2>1, <2>2 DEF FilterFree, TypeOK, Quiet
<1> QED
  BY <1>2, <1>3, <1>4, <1>5, <1>6, <1>7

(* The places of a sequence of n that are left when place k is taken out. *)
LEMMA SkipPlaces ==
    ASSUME NEW n \in Nat, NEW k \in 1 .. n
    PROVE  /\ \A j \in 1 .. n - 1 :
                /\ (IF j < k THEN j ELSE j + 1) \in 1 .. n
                /\ (IF j < k THEN j ELSE j + 1) # k
           /\ \A i, j \in 1 .. n - 1 :
                i # j => (IF i < k THEN i ELSE i + 1) # (IF j < k THEN j ELSE j + 1)
OBVIOUS

(* A place taken out of a chain: what is left is a chain of the other places. *)
LEMMA RemoveAtFacts ==
    ASSUME NEW S, NEW c \in Seq(S), NEW i \in 1 .. Len(c)
    PROVE  /\ RemoveAt(c, i) \in Seq(S)
           /\ Len(RemoveAt(c, i)) = Len(c) - 1
           /\ \A j \in 1 .. Len(c) - 1 :
                RemoveAt(c, i)[j] = IF j < i THEN c[j] ELSE c[j + 1]
<1> DEFINE a == SubSeq(c, 1, i - 1)
           b == SubSeq(c, i + 1, Len(c))
<1>1. a \in Seq(S) /\ Len(a) = i - 1 /\ \A j \in 1 .. i - 1 : a[j] = c[j]
  BY SubSeqProperties
<1>2. b \in Seq(S) /\ Len(b) = Len(c) - i /\ \A j \in 1 .. Len(c) - i : b[j] = c[j + i]
  BY SubSeqProperties
<1>3. RemoveAt(c, i) = a \o b
  BY DEF RemoveAt
<1> HIDE DEF a, b
<1>4. a \o b \in Seq(S) /\ Len(a \o b) = Len(c) - 1
  BY <1>1, <1>2, ConcatProperties
<1>5. ASSUME NEW j \in 1 .. Len(c) - 1
      PROVE  (a \o b)[j] = IF j < i THEN c[j] ELSE c[j + 1]
  <2>1. (a \o b)[j] = IF j <= Len(a) THEN a[j] ELSE b[j - Len(a)]
    BY <1>1, <1>2, ConcatProperties
  <2>2. CASE j < i
    BY <1>1, <2>1, <2>2
  <2>3. CASE ~(j < i)
    <3>1. j - (i - 1) \in 1 .. Len(c) - i /\ (j - (i - 1)) + i = j + 1 /\ ~(j <= i - 1)
      BY <2>3, LenProperties
    <3>2. b[j - (i - 1)] = c[j + 1]
      BY <1>2, <3>1
    <3> QED
      BY <1>1, <2>1, <2>3, <3>1, <3>2
  <2> QED
    BY <2>2, <2>3
<1> QED
  BY <1>3, <1>4, <1>5

LEMMA RestartTypes ==
    ASSUME TypeOK, ReleaseFilter \/ RestartOther \/ RestartFeed \/ ReleaseFeed
    PROVE  TypeOK'
<1>1. op.f \in Filter /\ flt[op.f] \in SlotType /\ op.pc # "idle"
  BY PcTypes DEF ReleaseFilter, RestartOther, RestartFeed, ReleaseFeed
<1>2. CASE ReleaseFilter
  <2> DEFINE x == flt[op.f].sec
             d == flt[op.f].feed
  <2>1. op' \in OpType /\ (op'.pc # "idle" => op'.f \in Filter)
    <3>1. CASE op' = [op EXCEPT !.pc = "restart", !.back = "stopped"]
      BY <1>1, <3>1 DEF TypeOK, OpType
    <3>2. CASE Goto("oops")
      BY <1>1, <3>2, GotoType
    <3> QED
      BY <1>2, <3>1, <3>2 DEF ReleaseFilter
  <2>2. feed' \in [Feed -> FeedType]
    <3> SUFFICES ASSUME d \in Feed, NEW i \in 1 .. Len(feed[d].chain),
                        feed' = [feed EXCEPT ![d] = [feed[d] EXCEPT
                                    !.chain = RemoveAt(feed[d].chain, i), !.filtering = FALSE]]
                 PROVE  feed' \in [Feed -> FeedType]
      BY <1>2 DEF ReleaseFilter, TypeOK
    <3>1. feed[d] \in FeedType
      BY DEF TypeOK
    <3>2. feed[d].chain \in Seq(Sec)
      BY <3>1 DEF FeedType
    <3>3. RemoveAt(feed[d].chain, i) \in Seq(Sec)
      BY <3>2, RemoveAtFacts
    <3>4. [feed[d] EXCEPT !.chain = RemoveAt(feed[d].chain, i), !.filtering = FALSE] \in FeedType
      BY <3>1, <3>3 DEF FeedType
    <3> QED
      BY <3>4 DEF TypeOK
  <2>3. sec' \in [Sec -> SecType]
    <3>1. \A r \in SecType : [r EXCEPT !.state = "FREE"] \in SecType
      BY DEF SecType
    <3>2. sec' = sec \/ sec' = [sec EXCEPT ![x].state = "FREE"]
      BY <1>2 DEF ReleaseFilter
    <3> QED
      BY <3>1, <3>2 DEF TypeOK
  <2> QED
    BY <1>2, <2>1, <2>2, <2>3 DEF ReleaseFilter, TypeOK, Quiet
<1>3. CASE RestartOther
  <2> PICK g \in Filter :
         /\ flt' = [flt EXCEPT ![g].state = "GO"]
         /\ op' = [op EXCEPT !.pc = "restarting", !.g = g]
         /\ UNCHANGED <<timer, opened, feed, sec, disp, failed>>
    BY <1>3 DEF RestartOther
  <2>1. op' \in OpType /\ (op'.pc # "idle" => op'.f \in Filter)
    BY <1>1 DEF TypeOK, OpType
  <2>2. flt' \in [Filter -> SlotType]
    <3>1. flt[g] \in SlotType
      BY DEF TypeOK
    <3>2. [flt[g] EXCEPT !.state = "GO"] \in SlotType
      BY <3>1, SlotEdits
    <3> QED
      BY <3>2, SlotUpdate
  <2> QED
    BY <2>1, <2>2 DEF TypeOK, Quiet
<1>4. CASE RestartFeed
  <2>1. op' \in OpType /\ (op'.pc # "idle" => op'.f \in Filter)
    BY <1>1, <1>4, GotoType, PcTypes DEF RestartFeed
  <2>2. feed' \in [Feed -> FeedType]
    <3>1. CASE UNCHANGED feed
      BY <3>1 DEF TypeOK
    <3> QED
      BY <1>4, <3>1, FeedEdits DEF RestartFeed
  <2>3. failed' \in BOOLEAN
    BY <1>4, FailedType DEF RestartFeed, TypeOK
  <2> QED
    BY <1>4, <2>1, <2>2, <2>3 DEF RestartFeed, TypeOK, Quiet
<1>5. CASE ReleaseFeed
  <2> DEFINE d == flt[op.f].feed
  <2>1. op' \in OpType /\ (op'.pc # "idle" => op'.f \in Filter)
    BY <1>1, <1>5, GotoType, PcTypes DEF ReleaseFeed
  <2>2. feed' \in [Feed -> FeedType]
    <3>1. \A r \in FeedType :
            [r EXCEPT !.state = "FREE", !.listed = FALSE, !.pid = NoPid] \in FeedType
      BY DEF FeedType
    <3>2. feed' = [feed EXCEPT ![d] = IF feed[d].state = "FREE" THEN feed[d]
                     ELSE [feed[d] EXCEPT !.state = "FREE", !.listed = FALSE, !.pid = NoPid]]
      BY <1>5 DEF ReleaseFeed
    <3> QED
      BY <3>1, <3>2 DEF TypeOK
  <2> QED
    BY <1>5, <2>1, <2>2 DEF ReleaseFeed, TypeOK, Quiet
<1> QED
  BY <1>2, <1>3, <1>4, <1>5

LEMMA StartTypes ==
    ASSUME TypeOK, StartAlone \/ StartShared \/ PauseFeed
                     \/ RetryFeed \/ RunFeed \/ ArmTimer \/ Go
    PROVE  TypeOK'
<1> DEFINE f == op.f
<1>1. f \in Filter /\ flt[f] \in SlotType /\ op.pc # "idle"
  BY PcTypes DEF StartAlone, StartShared, PauseFeed, RetryFeed, RunFeed,
                 ArmTimer, Go
<1>2. Flushed(flt[f]) \in SlotType
  BY <1>1, SlotEdits
<1>4. CASE StartAlone
  <2>1. op' \in OpType /\ (op'.pc # "idle" => op'.f \in Filter)
    BY <1>1, <1>4, GotoType DEF StartAlone
  <2>2. [[Flushed(flt[f]) EXCEPT !.sec = None] EXCEPT !.feed = None] \in SlotType
    BY <1>2, SlotEdits
  <2>3. flt' \in [Filter -> SlotType]
    BY <1>2, <1>4, <2>2, SlotUpdate DEF StartAlone
  <2> QED
    BY <1>4, <2>1, <2>3 DEF StartAlone, TypeOK, Quiet
<1>5. CASE StartShared
  <2>1. op' \in OpType /\ (op'.pc # "idle" => op'.f \in Filter)
    BY <1>1, <1>5, GotoType DEF StartShared
  <2>2. timer' \in [Filter -> [armed : BOOLEAN, late : BOOLEAN]]
    BY <1>5 DEF StartShared, TimerDeleted, TypeOK
  <2> PICK g \in PeerOf(f) :
        flt' = [flt EXCEPT ![f] = [Flushed(flt[f]) EXCEPT !.sec = None, !.feed = flt[g].feed,
                                                          !.state = "SET"]]
    BY <1>5 DEF StartShared
  <2>3. flt[g].feed \in Feed \cup {None}
    BY DEF PeerOf, TypeOK, SlotType
  <2>4. [Flushed(flt[f]) EXCEPT !.sec = None] \in SlotType
    BY <1>2, SlotEdits
  <2>5. [[[Flushed(flt[f]) EXCEPT !.sec = None] EXCEPT !.feed = flt[g].feed]
            EXCEPT !.state = "SET"] \in SlotType
    BY <2>3, <2>4, SlotEdits
  <2>6. flt' \in [Filter -> SlotType]
    BY <2>5 DEF TypeOK
  <2> QED
    BY <1>5, <2>1, <2>2, <2>6 DEF StartShared, TypeOK, Quiet
<1>6. CASE PauseFeed
  <2>1. op' \in OpType /\ (op'.pc # "idle" => op'.f \in Filter)
    BY <1>1, <1>6, GotoType DEF PauseFeed
  <2>2. feed' \in [Feed -> FeedType]
    BY <1>6, FeedEdits DEF PauseFeed
  <2> QED
    BY <1>6, <2>1, <2>2 DEF PauseFeed, TypeOK, Quiet
<1>7. CASE RetryFeed \/ RunFeed
  <2>1. op' \in OpType /\ (op'.pc # "idle" => op'.f \in Filter)
    BY <1>1, <1>7, GotoType DEF RetryFeed, RunFeed
  <2>2. feed' \in [Feed -> FeedType]
    BY <1>7, FeedEdits DEF RetryFeed, RunFeed
  <2>3. failed' \in BOOLEAN
    BY <1>7, FailedType DEF RetryFeed, RunFeed
  <2> QED
    BY <1>7, <2>1, <2>2, <2>3 DEF RetryFeed, RunFeed, TypeOK, Quiet
<1>8. CASE ArmTimer
  <2>1. op' \in OpType /\ (op'.pc # "idle" => op'.f \in Filter)
    BY <1>1, <1>8, GotoType DEF ArmTimer
  <2>2. flt[f].par.timed \in BOOLEAN
    <3>1. ASSUME NEW r \in Request PROVE r.timed \in BOOLEAN
      <4>1. r.timed \in Timeouts
        BY DEF Request
      <4> QED
        BY <4>1, FiltersAssumption
    <3>2. NoRequest.timed \in BOOLEAN
      BY DEF NoRequest
    <3>3. flt[f].par \in Request \/ flt[f].par = NoRequest
      BY <1>1 DEF SlotType
    <3> QED
      BY <3>1, <3>2, <3>3
  <2>3. timer' \in [Filter -> [armed : BOOLEAN, late : BOOLEAN]]
    BY <1>8, <2>2 DEF ArmTimer, TypeOK
  <2> QED
    BY <1>8, <2>1, <2>3 DEF ArmTimer, TypeOK, Quiet
<1>9. CASE Go
  <2>1. op' \in OpType /\ (op'.pc # "idle" => op'.f \in Filter)
    BY <1>1, <1>9, GotoType DEF Go
  <2>2. [flt[f] EXCEPT !.state = "GO"] \in SlotType
    BY <1>1, SlotEdits
  <2>3. flt' \in [Filter -> SlotType]
    BY <1>9, <2>2, SlotUpdate DEF Go
  <2> QED
    BY <1>9, <2>1, <2>3 DEF Go, TypeOK, Quiet
<1> QED
  BY <1>4, <1>5, <1>6, <1>7, <1>8, <1>9

LEMMA AllocTypes ==
    ASSUME TypeOK, AllocFeed \/ LinkFilter
    PROVE  TypeOK'
<1> DEFINE f == op.f
           p == flt[f].par.pid
<1>1. f \in Filter /\ flt[f] \in SlotType /\ op.pc # "idle"
  BY PcTypes DEF AllocFeed, LinkFilter
<1>2. op' \in OpType /\ (op'.pc # "idle" => op'.f \in Filter)
  <2>1. \A v \in {"stopped", "retry", "end"} :
          op' = [op EXCEPT !.pc = "restart", !.back = v] =>
             op' \in OpType /\ op'.f \in Filter
    BY <1>1 DEF TypeOK, OpType
  <2>2. Goto("end") \/ Goto("link") \/ Goto("run")
          \/ \E v \in {"stopped", "retry", "end"} : op' = [op EXCEPT !.pc = "restart", !.back = v]
    BY DEF AllocFeed, LinkFilter
  <2> QED
    BY <1>1, <2>1, <2>2, GotoType
<1>3. CASE AllocFeed
  <2>1. p \in Pids \cup {NoPid}
    <3>1. \A r \in Request : r.pid \in Pids
      BY DEF Request
    <3>2. flt[f].par \in Request \cup {NoRequest}
      BY <1>1 DEF SlotType
    <3> QED
      BY <3>1, <3>2 DEF NoRequest
  <2>2. CASE UNCHANGED <<flt, feed>>
    BY <1>2, <1>3, <2>2 DEF AllocFeed, TypeOK, Quiet
  <2>3. ASSUME NEW d \in Feed, NEW r \in FeedType,
               flt' = [flt EXCEPT ![f].feed = d], feed' = [feed EXCEPT ![d] = r]
        PROVE  TypeOK'
    <3>1. [flt[f] EXCEPT !.feed = d] \in SlotType
      BY <1>1, SlotEdits
    <3>2. flt' \in [Filter -> SlotType]
      BY <2>3, <3>1, SlotUpdate
    <3>3. feed' \in [Feed -> FeedType]
      BY <2>3 DEF TypeOK
    <3> QED
      BY <1>2, <1>3, <3>2, <3>3 DEF AllocFeed, TypeOK, Quiet
  <2>4. FreeFeed \in FeedType
    BY DEF FreeFeed, FeedType
  <2>5. [FreeFeed EXCEPT !.state = "READY", !.pid = p, !.listed = TRUE] \in FeedType
    BY <2>1, <2>4 DEF FeedType
  <2>6. [FreeFeed EXCEPT !.state = "ALLOCATED"] \in FeedType
    BY <2>4 DEF FeedType
  <2> QED
    BY <1>3, <2>2, <2>3, <2>5, <2>6 DEF AllocFeed
<1>4. CASE LinkFilter
  <2> DEFINE d == flt[f].feed
  <2>1. CASE UNCHANGED <<flt, feed, sec>>
    BY <1>2, <1>4, <2>1 DEF LinkFilter, TypeOK, Quiet
  <2>2. ASSUME NEW x \in Sec,
               sec' = [sec EXCEPT ![x] = [state |-> "READY", feed |-> d, priv |-> f]],
               feed' = [feed EXCEPT ![d].chain = <<x>> \o feed[d].chain],
               flt' = [flt EXCEPT ![f].sec = x]
        PROVE  TypeOK'
    <3>1. flt' \in [Filter -> SlotType]
      <4>1. [flt[f] EXCEPT !.sec = x] \in SlotType
        BY <1>1, SlotEdits
      <4> QED
        BY <2>2, <4>1, SlotUpdate
    <3>2. feed' \in [Feed -> FeedType]
      <4>1. ASSUME d \in Feed PROVE [feed[d] EXCEPT !.chain = <<x>> \o feed[d].chain] \in FeedType
        <5>1. feed[d] \in FeedType /\ feed[d].chain \in Seq(Sec)
          BY <4>1 DEF TypeOK, FeedType
        <5>2. <<x>> \o feed[d].chain \in Seq(Sec)
          BY <5>1, ConcatProperties
        <5> QED
          BY <5>1, <5>2 DEF FeedType
      <4> QED
        BY <2>2, <4>1 DEF TypeOK
    <3>3. sec' \in [Sec -> SecType]
      <4>1. d \in Feed \cup {None}
        BY <1>1 DEF SlotType
      <4>2. [state |-> "READY", feed |-> d, priv |-> f] \in SecType
        BY <1>1, <4>1 DEF SecType
      <4> QED
        BY <2>2, <4>2 DEF TypeOK
    <3> QED
      BY <1>2, <1>4, <3>1, <3>2, <3>3 DEF LinkFilter, TypeOK, Quiet
  <2> QED
    BY <1>4, <2>1, <2>2 DEF LinkFilter
<1> QED
  BY <1>3, <1>4

LEMMA OtherTypes ==
    ASSUME TypeOK,
           \/ \E d \in Feed : SectionArrives(d)
           \/ SectionIgnored \/ SectionStored
           \/ \E f \in Filter : TimerExpires(f) \/ TimerEnds(f)
    PROVE  TypeOK'
<1>1. CASE \E d \in Feed : SectionArrives(d)
  <2> PICK d \in Feed : SectionArrives(d)
    BY <1>1
  <2>1. feed[d].chain \in Seq(Sec) /\ feed[d].chain # <<>>
    BY DEF SectionArrives, TypeOK, FeedType
  <2>2. disp' \in [feed : Feed, rest : Seq(Sec)] /\ disp'.rest # <<>>
    BY <2>1 DEF SectionArrives
  <2> QED
    BY <2>2 DEF SectionArrives, TypeOK
<1>2. ASSUME disp # Quiet, disp' = Rest
      PROVE  disp' = Quiet \/ (disp' \in [feed : Feed, rest : Seq(Sec)] /\ disp'.rest # <<>>)
  <2>1. disp \in [feed : Feed, rest : Seq(Sec)] /\ disp.rest # <<>>
    BY <1>2 DEF TypeOK
  <2>2. CASE Len(disp.rest) = 1
    BY <1>2, <2>2 DEF Rest
  <2>3. CASE Len(disp.rest) # 1
    <3>1. Tail(disp.rest) \in Seq(Sec) /\ Tail(disp.rest) # <<>>
      <4>1. Tail(disp.rest) \in Seq(Sec) /\ Len(Tail(disp.rest)) = Len(disp.rest) - 1
        BY <2>1, HeadTailProperties
      <4>2. Len(Tail(disp.rest)) # 0
        BY <2>1, <2>3, <4>1, LenProperties
      <4>3. Tail(disp.rest) # <<>>
        BY <4>2, EmptySeq
      <4> QED
        BY <4>1, <4>3
    <3>2. disp' = [disp EXCEPT !.rest = Tail(disp.rest)]
      BY <1>2, <2>3 DEF Rest
    <3> QED
      BY <2>1, <3>1, <3>2
  <2> QED
    BY <2>2, <2>3
<1>3. CASE SectionIgnored
  BY <1>2, <1>3 DEF SectionIgnored, TypeOK
<1>4. CASE SectionStored
  <2> DEFINE f == sec[Head(disp.rest)].priv
             fits == Len(flt[f].unread) < Room
             u == IF fits THEN Append(flt[f].unread, feed[disp.feed].pid) ELSE flt[f].unread
             e == IF fits THEN flt[f].err ELSE "EOVERFLOW"
             t == IF flt[f].par.oneshot THEN "DONE" ELSE flt[f].state
  <2>1. disp.feed \in Feed
    BY <1>4 DEF SectionStored, TypeOK
  <2>2. feed[disp.feed].pid \in Pids \cup {NoPid}
    BY <2>1 DEF TypeOK, FeedType
  <2>3. flt' \in [Filter -> SlotType]
    <3>1. ASSUME f \in Filter
          PROVE  [flt[f] EXCEPT !.unread = u, !.err = e, !.state = t] \in SlotType
      <4>1. flt[f] \in SlotType
        BY <3>1 DEF TypeOK
      <4>2. u \in Seq(Pids \cup {NoPid})
        <5>1. flt[f].unread \in Seq(Pids \cup {NoPid})
          BY <4>1 DEF SlotType
        <5> QED
          BY <2>2, <5>1
      <4>3. e \in {"none", "EOVERFLOW", "ETIMEDOUT"}
        BY <4>1 DEF SlotType
      <4>4. t \in {"FREE", "ALLOCATED", "SET", "GO", "DONE", "TIMEDOUT"}
        BY <4>1 DEF SlotType
      <4> HIDE DEF u, e, t
      <4> QED
        BY <4>1, <4>2, <4>3, <4>4 DEF SlotType
    <3>2. flt' = [flt EXCEPT ![f] = [flt[f] EXCEPT !.unread = u, !.err = e, !.state = t]]
      BY <1>4 DEF SectionStored
    <3> QED
      BY <3>1, <3>2 DEF TypeOK
  <2>4. timer' \in [Filter -> [armed : BOOLEAN, late : BOOLEAN]]
    BY <1>4 DEF SectionStored, TypeOK
  <2> QED
    BY <1>2, <1>4, <2>3, <2>4 DEF SectionStored, TypeOK
<1>5. ASSUME NEW f \in Filter, TimerExpires(f) \/ TimerEnds(f) PROVE TypeOK'
  <2>1. flt[f] \in SlotType
    BY DEF TypeOK
  <2>2. flt' \in [Filter -> SlotType]
    <3>1. [flt[f] EXCEPT !.err = "ETIMEDOUT"] \in SlotType
      BY <2>1 DEF SlotType
    <3>2. [flt[f] EXCEPT !.state = "TIMEDOUT"] \in SlotType
      BY <2>1 DEF SlotType
    <3>3. \E r \in SlotType : flt' = [flt EXCEPT ![f] = r]
      <4>1. CASE TimerExpires(f)
        BY <3>1, <4>1 DEF TimerExpires
      <4>2. CASE TimerEnds(f)
        BY <3>2, <4>2 DEF TimerEnds
      <4> QED
        BY <1>5, <4>1, <4>2
    <3> QED
      BY <3>3 DEF TypeOK
  <2>3. timer' \in [Filter -> [armed : BOOLEAN, late : BOOLEAN]]
    <3>1. timer[f] \in [armed : BOOLEAN, late : BOOLEAN]
      BY DEF TypeOK
    <3>2. [timer[f] EXCEPT !.late = FALSE] \in [armed : BOOLEAN, late : BOOLEAN]
      BY <3>1
    <3>3. [armed |-> FALSE, late |-> TRUE] \in [armed : BOOLEAN, late : BOOLEAN]
      OBVIOUS
    <3>4. \E r \in [armed : BOOLEAN, late : BOOLEAN] : timer' = [timer EXCEPT ![f] = r]
      BY <1>5, <3>2, <3>3 DEF TimerExpires, TimerEnds
    <3> QED
      BY <3>4 DEF TypeOK
  <2> QED
    BY <1>5, <2>2, <2>3 DEF TimerExpires, TimerEnds, TypeOK, Quiet
<1> QED
  BY <1>1, <1>3, <1>4, <1>5

LEMMA TypesPreserved ==
    ASSUME TypeOK, [Next]_vars
    PROVE  TypeOK'
<1>1. CASE UNCHANGED vars
  BY <1>1 DEF vars, TypeOK, Quiet
<1>2. CASE Open
  <2>1. 1 \in Filter
    BY FiltersAssumption DEF Filter
  <2> QED
    BY <1>2, <2>1, CallTypes
<1>3. CASE OpStep
  BY <1>3, StopTypes, RestartTypes, StartTypes, AllocTypes DEF OpStep
<1> QED
  BY <1>1, <1>2, <1>3, CallTypes, OtherTypes DEF Next

-----------------------------------------------------------------------------
(* What it takes for the chain of one feed to be sound. *)
Sound(d) ==
    LET c == feed[d].chain IN
    /\ \A i \in 1 .. Len(c) : sec[c[i]].state = "READY" /\ sec[c[i]].feed = d
    /\ \A i, j \in 1 .. Len(c) : i # j => c[i] # c[j]

LEMMA SoundChains == ChainsAreSound <=> \A d \in Feed : feed[d].listed => Sound(d)
BY DEF ChainsAreSound, Sound

(* A step that adds no feed to the list and touches neither a chain nor a
   section filter leaves the chains sound. *)
LEMMA ChainsUntouched ==
    ASSUME TypeOK, ChainsAreSound, UNCHANGED sec,
           feed' \in [Feed -> FeedType],
           \A d \in Feed : feed'[d].chain = feed[d].chain /\ (feed'[d].listed => feed[d].listed)
    PROVE  ChainsAreSound'
BY DEF ChainsAreSound

(* Stopping and starting a feed touches no chain. *)
LEMMA FilteringUntouched ==
    ASSUME TypeOK, NEW d, StopFiltering(d) \/ StartSucceeds(d) \/ StartFails(d)
    PROVE  \A e \in Feed : feed'[e].chain = feed[e].chain /\ feed'[e].listed = feed[e].listed
<1>1. feed \in [Feed -> FeedType]
  BY DEF TypeOK
<1>2. CASE StartFails(d)
  BY <1>2 DEF StartFails
<1>3. ASSUME NEW b, NEW v, feed' = [feed EXCEPT ![d].filtering = b, ![d].state = v]
      PROVE  \A e \in Feed : feed'[e].chain = feed[e].chain /\ feed'[e].listed = feed[e].listed
  <2> TAKE e \in Feed
  <2>1. feed[e] \in FeedType
    BY <1>1
  <2> QED
    BY <1>1, <1>3, <2>1 DEF FeedType
<1> QED
  BY <1>2, <1>3 DEF StopFiltering, StartSucceeds

(* A section filter that joins a chain was free, so it was in none. *)
LEMMA LinkKeepsChains ==
    ASSUME TypeOK, ChainsAreSound, LinkFilter
    PROVE  ChainsAreSound'
<1> DEFINE d == flt[op.f].feed
<1>1. CASE UNCHANGED <<flt, feed, sec>>
  BY <1>1 DEF ChainsAreSound
<1>2. ASSUME NEW x \in Sec, sec[x].state = "FREE",
             sec' = [sec EXCEPT ![x] = [state |-> "READY", feed |-> d, priv |-> op.f]],
             feed' = [feed EXCEPT ![d].chain = <<x>> \o feed[d].chain]
      PROVE  ChainsAreSound'
  <2> SUFFICES ASSUME NEW e \in Feed, feed'[e].listed PROVE Sound(e)'
    BY SoundChains DEF ChainsAreSound, Sound
  <2> DEFINE c == feed[e].chain
  <2>1. feed[e] \in FeedType /\ c \in Seq(Sec)
    BY DEF TypeOK, FeedType
  <2>2. feed[e].listed
    BY <1>2, <2>1 DEF TypeOK, FeedType
  <2>3. Sound(e)
    BY <2>2, SoundChains
  <2>4. \A i \in 1 .. Len(c) : c[i] \in Sec /\ c[i] # x /\ sec'[c[i]] = sec[c[i]]
    <3> TAKE i \in 1 .. Len(c)
    <3>1. c[i] \in Sec
      BY <2>1
    <3>2. c[i] # x
      BY <1>2, <2>3 DEF Sound
    <3> QED
      BY <1>2, <3>1, <3>2 DEF TypeOK
  <2>5. CASE e # d
    <3>1. feed'[e].chain = c
      BY <1>2, <2>5 DEF TypeOK
    <3> QED
      BY <2>3, <2>4, <3>1 DEF Sound
  <2>6. CASE e = d
    <3>1. feed'[e].chain = <<x>> \o c
      BY <1>2, <2>1, <2>6 DEF TypeOK, FeedType
    <3>2. /\ Len(<<x>> \o c) = Len(c) + 1
          /\ \A i \in 1 .. Len(c) + 1 : (<<x>> \o c)[i] = IF i = 1 THEN x ELSE c[i - 1]
      BY <2>1, ConcatProperties
    <3>3. sec'[x].state = "READY" /\ sec'[x].feed = e
      BY <1>2, <2>6 DEF TypeOK
    <3> HIDE DEF c
    <3>4. \A i \in 1 .. Len(c) + 1 :
            sec'[(<<x>> \o c)[i]].state = "READY" /\ sec'[(<<x>> \o c)[i]].feed = e
      <4> TAKE i \in 1 .. Len(c) + 1
      <4>1. CASE i = 1
        BY <3>2, <3>3, <4>1
      <4>2. CASE i # 1
        <5>1. i - 1 \in 1 .. Len(c)
          BY <2>1, <4>2, LenProperties
        <5> QED
          BY <2>3, <2>4, <3>2, <4>2, <5>1 DEF Sound, c
      <4> QED
        BY <4>1, <4>2
    <3>5. \A i, j \in 1 .. Len(c) + 1 : i # j => (<<x>> \o c)[i] # (<<x>> \o c)[j]
      <4> TAKE i, j \in 1 .. Len(c) + 1
      <4> HAVE i # j
      <4>1. Len(c) \in Nat
        BY <2>1, LenProperties
      <4>2. \A k \in 1 .. Len(c) + 1 : k # 1 => k - 1 \in 1 .. Len(c)
        BY <4>1
      <4>3. \A k, l \in 1 .. Len(c) : k # l => c[k] # c[l]
        BY <2>3 DEF Sound, c
      <4>4. CASE i = 1 \/ j = 1
        BY <2>4, <3>2, <4>2, <4>4
      <4>5. CASE i # 1 /\ j # 1
        <5>1. i - 1 # j - 1
          BY <4>1
        <5> QED
          BY <3>2, <4>2, <4>3, <4>5, <5>1
      <4> QED
        BY <4>4, <4>5
    <3> QED
      BY <3>1, <3>2, <3>4, <3>5 DEF Sound
  <2> QED
    BY <2>5, <2>6
<1> QED
  BY <1>1, <1>2 DEF LinkFilter, FreeSecs, First

(* A section filter that leaves a chain was in it once, and in no other. *)
LEMMA ReleaseKeepsChains ==
    ASSUME TypeOK, ChainsAreSound, ReleaseFilter
    PROVE  ChainsAreSound'
<1> DEFINE x == flt[op.f].sec
           d == flt[op.f].feed
<1>1. CASE UNCHANGED <<feed, sec>>
  BY <1>1 DEF ChainsAreSound
<1>2. ASSUME sec[x].feed = d, NEW k \in 1 .. Len(feed[d].chain), feed[d].chain[k] = x,
             feed' = [feed EXCEPT ![d].chain = RemoveAt(feed[d].chain, k), ![d].filtering = FALSE],
             sec' = [sec EXCEPT ![x].state = "FREE"]
      PROVE  ChainsAreSound'
  <2> SUFFICES ASSUME NEW e \in Feed, feed'[e].listed PROVE Sound(e)'
    BY SoundChains DEF ChainsAreSound, Sound
  <2> DEFINE c == feed[e].chain
  <2>1. feed[e] \in FeedType /\ c \in Seq(Sec) /\ Len(c) \in Nat
    BY LenProperties DEF TypeOK, FeedType
  <2>2. feed[e].listed
    BY <1>2, <2>1 DEF TypeOK, FeedType
  <2>3. Sound(e)
    BY <2>2, SoundChains
  <2>4. ASSUME NEW i \in 1 .. Len(c), c[i] # x PROVE sec'[c[i]] = sec[c[i]]
    <3>1. c[i] \in Sec
      BY <2>1
    <3> QED
      BY <1>2, <2>4, <3>1 DEF TypeOK
  <2>5. CASE e # d
    <3>1. feed'[e].chain = c
      BY <1>2, <2>5 DEF TypeOK
    <3>2. \A i \in 1 .. Len(c) : c[i] # x
      BY <1>2, <2>3, <2>5 DEF Sound
    <3> QED
      BY <2>3, <2>4, <3>1, <3>2 DEF Sound
  <2>6. CASE e = d
    <3> DEFINE r == RemoveAt(c, k)
    <3>0. k \in 1 .. Len(c)
      BY <1>2, <2>6
    <3>1. feed'[e].chain = r
      BY <1>2, <2>1, <2>6 DEF TypeOK, FeedType
    <3>2. Len(r) = Len(c) - 1 /\ \A j \in 1 .. Len(c) - 1 : r[j] = IF j < k THEN c[j] ELSE c[j + 1]
      <4> HIDE DEF c
      <4> QED
        BY <2>1, <3>0, RemoveAtFacts
    <3> HIDE DEF r
    <3>3. \A j \in 1 .. Len(c) - 1 :
             (IF j < k THEN j ELSE j + 1) \in 1 .. Len(c) /\ (IF j < k THEN j ELSE j + 1) # k
      BY <2>1, <3>0, SkipPlaces
    <3>4. \A i, j \in 1 .. Len(c) : i # j => c[i] # c[j]
      BY <2>3 DEF Sound
    <3>5. ASSUME NEW j \in 1 .. Len(c) - 1
          PROVE  sec'[r[j]].state = "READY" /\ sec'[r[j]].feed = e
      <4> DEFINE i == IF j < k THEN j ELSE j + 1
      <4>1. r[j] = c[i] /\ i \in 1 .. Len(c) /\ i # k
        BY <3>2, <3>3
      <4>2. sec[c[i]].state = "READY" /\ sec[c[i]].feed = e
        BY <2>3, <4>1 DEF Sound
      <4> HIDE DEF i
      <4>3. c[k] = x
        BY <1>2, <2>6
      <4>4. c[i] # x
        <5> HIDE DEF c, x
        <5> QED
          BY <3>0, <3>4, <4>1, <4>3
      <4>5. sec'[c[i]] = sec[c[i]]
        BY <2>4, <4>1, <4>4
      <4> QED
        BY <4>1, <4>2, <4>5
    <3>6. ASSUME NEW i \in 1 .. Len(c) - 1, NEW j \in 1 .. Len(c) - 1, i # j
          PROVE  r[i] # r[j]
      <4>1. (IF i < k THEN i ELSE i + 1) # (IF j < k THEN j ELSE j + 1)
        BY <2>1, <3>0, <3>6, SkipPlaces
      <4>2. r[i] = c[IF i < k THEN i ELSE i + 1] /\ r[j] = c[IF j < k THEN j ELSE j + 1]
        BY <3>2
      <4> HIDE DEF c
      <4> QED
        BY <3>3, <3>4, <4>1, <4>2
    <3> QED
      BY <3>1, <3>2, <3>5, <3>6 DEF Sound
  <2> QED
    BY <2>5, <2>6
<1> QED
  BY <1>1, <1>2 DEF ReleaseFilter

LEMMA ChainsPreserved ==
    ASSUME TypeOK, ChainsAreSound, [Next]_vars
    PROVE  ChainsAreSound'
<1>1. feed' \in [Feed -> FeedType]
  BY TypesPreserved DEF TypeOK
<1>2. CASE UNCHANGED <<feed, sec>>
  BY <1>2 DEF ChainsAreSound
<1>3. CASE HaltFeed \/ PauseFeed \/ RetryFeed \/ RunFeed \/ RestartFeed
  <2>1. UNCHANGED sec
    BY <1>3 DEF HaltFeed, PauseFeed, RetryFeed, RunFeed, RestartFeed
  <2>2. UNCHANGED feed \/ \E d : StopFiltering(d) \/ StartSucceeds(d) \/ StartFails(d)
    BY <1>3 DEF HaltFeed, PauseFeed, RetryFeed, RunFeed, RestartFeed
  <2> QED
    BY <1>1, <1>2, <2>1, <2>2, ChainsUntouched, FilteringUntouched
<1>4. CASE ReleaseFeed
  <2> DEFINE d == flt[op.f].feed
  <2>1. feed \in [Feed -> FeedType] /\ UNCHANGED sec
    BY <1>4 DEF ReleaseFeed, TypeOK
  <2>2. feed' = [feed EXCEPT ![d] = IF feed[d].state = "FREE" THEN feed[d]
                   ELSE [feed[d] EXCEPT !.state = "FREE", !.listed = FALSE, !.pid = NoPid]]
    BY <1>4 DEF ReleaseFeed
  <2>3. \A e \in Feed : feed'[e].chain = feed[e].chain /\ (feed'[e].listed => feed[e].listed)
    BY <2>1, <2>2 DEF FeedType
  <2> QED
    BY <1>1, <2>1, <2>3, ChainsUntouched
<1>5. CASE AllocFeed
  <2>1. CASE UNCHANGED feed
    BY <1>2, <1>5, <2>1 DEF AllocFeed
  <2>2. ASSUME NEW d \in Feed, NEW r, r.chain = <<>>, feed' = [feed EXCEPT ![d] = r]
        PROVE  ChainsAreSound'
    <3>1. UNCHANGED sec
      BY <1>5 DEF AllocFeed
    <3>2. feed'[d].chain = <<>> /\ \A e \in Feed \ {d} : feed'[e] = feed[e]
      BY <2>2 DEF TypeOK
    <3> QED
      BY <3>1, <3>2, EmptySeq DEF ChainsAreSound
  <2>3. \A p : [FreeFeed EXCEPT !.state = "READY", !.pid = p, !.listed = TRUE].chain = <<>>
    BY DEF FreeFeed
  <2>4. [FreeFeed EXCEPT !.state = "ALLOCATED"].chain = <<>>
    BY DEF FreeFeed
  <2> QED
    BY <1>5, <2>1, <2>2, <2>3, <2>4 DEF AllocFeed
<1>6. CASE LinkFilter \/ ReleaseFilter
  BY <1>6, LinkKeepsChains, ReleaseKeepsChains
<1>7. \/ UNCHANGED <<feed, sec>>
      \/ HaltFeed \/ PauseFeed \/ RetryFeed \/ RunFeed \/ RestartFeed \/ ReleaseFeed
      \/ AllocFeed \/ LinkFilter \/ ReleaseFilter
  <2>1. CASE UNCHANGED vars
    BY <2>1 DEF vars
  <2>2. CASE Open \/ \E f \in Filter : SetFilter(f) \/ Start(f) \/ Stop(f) \/ Close(f) \/ Read(f)
    BY <2>2 DEF Open, SetFilter, Start, Stop, Close, Read, Call
  <2>3. CASE OpStep
    BY <2>3 DEF OpStep, StopNothing, StopFilter, RestartOther, Stopped, FilterSet, FilterFree,
                StartAlone, StartShared, ArmTimer, Go
  <2>4. CASE \/ \E d \in Feed : SectionArrives(d)
             \/ SectionIgnored \/ SectionStored
             \/ \E f \in Filter : TimerExpires(f) \/ TimerEnds(f)
    BY <2>4 DEF SectionArrives, SectionIgnored, SectionStored, TimerExpires, TimerEnds
  <2> QED
    BY <2>1, <2>2, <2>3, <2>4 DEF Next
<1> QED
  BY <1>2, <1>3, <1>4, <1>5, <1>6, <1>7

-----------------------------------------------------------------------------
(* Every variable keeps its type, with any number of slots, feeds and section
   filters, and whatever fails or runs late in dmxdev.c and dvb_demux.c. *)
THEOREM TypeCorrect == Spec => []TypeOK
<1>1. Init => TypeOK
  BY InitTypes
<1>2. TypeOK /\ [Next]_vars => TypeOK'
  BY TypesPreserved
<1> QED
  BY <1>1, <1>2, PTL DEF Spec

(* allocate_filter and release_filter of dvb_demux.c keep every chain that a
   delivery may walk free of released, repeated and foreign section filters,
   although starts fail half-way and timers end late. *)
THEOREM ChainsStaySound == Spec => []ChainsAreSound
<1>1. Init => TypeOK /\ ChainsAreSound
  <2>1. ASSUME Init PROVE \A d \in Feed : feed[d].listed = FALSE
    BY <2>1 DEF Init, FreeFeed
  <2> QED
    BY <2>1, InitTypes DEF ChainsAreSound
<1>2. TypeOK /\ ChainsAreSound /\ [Next]_vars => TypeOK' /\ ChainsAreSound'
  BY TypesPreserved, ChainsPreserved
<1> QED
  BY <1>1, <1>2, PTL DEF Spec
================================================================================
