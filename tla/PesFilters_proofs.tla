--------------------------- MODULE PesFilters_proofs ---------------------------
(***************************************************************************)
(* Proofs about PesFilters for every number of slots and feeds, any PIDs,  *)
(* with calls that fail and lists that are edited.                         *)
(*                                                                         *)
(* First the types, and that the demux's feed list is sound whatever goes  *)
(* wrong above it.  FeedListSound is not inductive: that set_feed adds a   *)
(* feed that is not listed yet, and that start_filtering finds it READY,   *)
(* is known only from where the call is.  OpInv says so, step by step.     *)
(*                                                                         *)
(* Then what packets find: who gets them, how often, and that no feed is   *)
(* left over.  All of it follows from Owned, which pairs the feeds in use  *)
(* with the entries of the PID lists in every step of every call, and says *)
(* what such a feed is doing at that step.                                 *)
(***************************************************************************)
EXTENDS PesFilters, SequenceTheorems, FiniteSetTheorems, TLAPS

(* What the call in progress may rely on. *)
OpInv ==
    /\ op.pc # "idle" => op.f \in Filter
    /\ op.pc = "set" \/ op.then = "set" => op.ask \in Request
    /\ op.pc = "halt" =>
         \A j \in 1 .. Len(flt[op.f].pids) : j < op.i => flt[op.f].pids[j].ts # None
    /\ op.pc = "release" =>
         \A j \in 1 .. Len(flt[op.f].pids) : op.i <= j => flt[op.f].pids[j].ts # None
    /\ op.pc \in {"set_feed", "run", "drop"} => AtEntry /\ Entry.ts \in Feed
    /\ op.pc = "set_feed" => feed[Entry.ts].state = "ALLOCATED" /\ Places(Entry.ts) = {}
    /\ op.pc = "run" => feed[Entry.ts].state = "READY"

IInv == TypeOK /\ FeedListSound /\ OpInv

-----------------------------------------------------------------------------
(* Sequences. *)

(* The places of a sequence of n that are left when place k is taken out. *)
LEMMA SkipPlaces ==
    ASSUME NEW n \in Nat, NEW k \in 1 .. n
    PROVE  /\ \A j \in 1 .. n - 1 :
                /\ (IF j < k THEN j ELSE j + 1) \in 1 .. n
                /\ (IF j < k THEN j ELSE j + 1) # k
           /\ \A i, j \in 1 .. n - 1 :
                i # j => (IF i < k THEN i ELSE i + 1) # (IF j < k THEN j ELSE j + 1)
           /\ \A m \in 1 .. n : m # k =>
                \E j \in 1 .. n - 1 : m = IF j < k THEN j ELSE j + 1
<1>1. ASSUME NEW m \in 1 .. n, m # k
      PROVE  \E j \in 1 .. n - 1 : m = IF j < k THEN j ELSE j + 1
  <2>1. CASE m < k
    <3>1. m \in 1 .. n - 1
      BY <2>1
    <3> QED
      BY <2>1, <3>1
  <2>2. CASE k < m
    <3>1. m - 1 \in 1 .. n - 1 /\ ~(m - 1 < k) /\ m = (m - 1) + 1
      BY <2>2
    <3> QED
      BY <3>1
  <2> QED
    BY <1>1, <2>1, <2>2
<1> QED
  BY <1>1

(* A place taken out of a sequence: what is left are the other places. *)
LEMMA RemoveAtFacts ==
    ASSUME NEW S, NEW c \in Seq(S), NEW i \in 1 .. Len(c)
    PROVE  /\ RemoveAt(c, i) \in Seq(S)
           /\ Len(RemoveAt(c, i)) = Len(c) - 1
           /\ \A j \in 1 .. Len(c) - 1 :
                RemoveAt(c, i)[j] = IF j < i THEN c[j] ELSE c[j + 1]
<1> DEFINE a == SubSeq(c, 1, i - 1)
           b == SubSeq(c, i + 1, Len(c))
<1>1. a \in Seq(S) /\ Len(a) = i - 1 /\ \A j \in 1 .. i - 1 : a[j] = c[j]
  BY SubSeqProperties
<1>2. b \in Seq(S) /\ Len(b) = Len(c) - i /\ \A j \in 1 .. Len(c) - i : b[j] = c[j + i]
  BY SubSeqProperties
<1>3. RemoveAt(c, i) = a \o b
  BY DEF RemoveAt
<1> HIDE DEF a, b
<1>4. a \o b \in Seq(S) /\ Len(a \o b) = Len(c) - 1
  BY <1>1, <1>2, ConcatProperties
<1>5. ASSUME NEW j \in 1 .. Len(c) - 1
      PROVE  (a \o b)[j] = IF j < i THEN c[j] ELSE c[j + 1]
  <2>1. (a \o b)[j] = IF j <= Len(a) THEN a[j] ELSE b[j - Len(a)]
    BY <1>1, <1>2, ConcatProperties
  <2>2. CASE j < i
    BY <1>1, <2>1, <2>2
  <2>3. CASE ~(j < i)
    <3>1. j - (i - 1) \in 1 .. Len(c) - i /\ (j - (i - 1)) + i = j + 1 /\ ~(j <= i - 1)
      BY <2>3, LenProperties
    <3>2. b[j - (i - 1)] = c[j + 1]
      BY <1>2, <3>1
    <3> QED
      BY <1>1, <2>1, <2>3, <3>1, <3>2
  <2> QED
    BY <2>2, <2>3
<1> QED
  BY <1>3, <1>4, <1>5

(* An element put in front. *)
LEMMA PrependFacts ==
    ASSUME NEW S, NEW c \in Seq(S), NEW e \in S
    PROVE  /\ <<e>> \o c \in Seq(S)
           /\ Len(<<e>> \o c) = Len(c) + 1
           /\ (<<e>> \o c)[1] = e
           /\ \A j \in 2 .. Len(c) + 1 : (<<e>> \o c)[j] = c[j - 1]
<1>1. <<e>> \in Seq(S) /\ Len(<<e>>) = 1 /\ <<e>>[1] = e
  OBVIOUS
<1>2. \A j \in 1 .. 1 + Len(c) : (<<e>> \o c)[j] = IF j <= 1 THEN <<e>>[j] ELSE c[j - 1]
  BY <1>1, ConcatProperties
<1>3. <<e>> \o c \in Seq(S) /\ Len(<<e>> \o c) = 1 + Len(c)
  BY <1>1, ConcatProperties
<1>4. Len(c) \in Nat
  BY LenProperties
<1> QED
  BY <1>1, <1>2, <1>3, <1>4

-----------------------------------------------------------------------------
(* The feed list. *)

(* One feed is changed, the list is not. *)
LEMMA FeedUpdate ==
    ASSUME TypeOK, FeedListSound, NEW d \in Feed, NEW r \in FeedType,
           feed' = [feed EXCEPT ![d] = r], UNCHANGED feed_list,
           Places(d) # {} => r.state # "FREE",
           r.state \in {"READY", "GO"} => Places(d) # {}
    PROVE  feed' \in [Feed -> FeedType] /\ FeedListSound'
<1>1. feed' \in [Feed -> FeedType]
  BY DEF TypeOK
<1>2. \A e \in Feed : feed'[e] = IF e = d THEN r ELSE feed[e]
  BY DEF TypeOK
<1>3. \A i \in 1 .. Len(feed_list) : feed_list[i] \in Feed
  BY ElementOfSeq DEF TypeOK
<1>4. ASSUME NEW i \in 1 .. Len(feed_list) PROVE feed'[feed_list[i]].state # "FREE"
  <2>1. CASE feed_list[i] = d
    <3>1. Places(d) # {}
      BY <2>1 DEF Places
    <3> QED
      BY <1>2, <2>1, <3>1
  <2>2. CASE feed_list[i] # d
    BY <1>2, <1>3, <2>2 DEF FeedListSound
  <2> QED
    BY <2>1, <2>2
<1>5. ASSUME NEW e \in Feed, feed'[e].state \in {"READY", "GO"} PROVE Places(e)' # {}
  <2>1. Places(e) # {}
    BY <1>2, <1>5 DEF FeedListSound
  <2> QED
    BY <2>1 DEF Places
<1> QED
  BY <1>1, <1>4, <1>5 DEF FeedListSound

(* A feed is stopped: it stays on the list. *)
LEMMA StoppedFeed ==
    ASSUME TypeOK, FeedListSound, NEW d \in Feed, StopFeed(d), UNCHANGED feed_list
    PROVE  /\ feed' \in [Feed -> FeedType] /\ FeedListSound'
           /\ feed[d].state # "FREE" => feed'[d].state # "FREE"
<1>1. feed[d] \in FeedType
  BY DEF TypeOK
<1>2. CASE feed[d].state # "GO"
  <2>1. feed' = [feed EXCEPT ![d] = feed[d]]
    BY <1>2 DEF StopFeed
  <2>2. UNCHANGED feed
    BY <2>1 DEF TypeOK
  <2> QED
    BY <2>2 DEF TypeOK, FeedListSound, Places
<1>3. CASE feed[d].state = "GO"
  <2> DEFINE r == [feed[d] EXCEPT !.state = "ALLOCATED", !.filtering = FALSE]
  <2>1. feed' = [feed EXCEPT ![d] = r]
    BY <1>3 DEF StopFeed
  <2>2. r \in FeedType /\ r.state = "ALLOCATED"
    BY <1>1 DEF FeedType
  <2> HIDE DEF r
  <2>3. feed' \in [Feed -> FeedType] /\ FeedListSound'
    BY <2>1, <2>2, FeedUpdate
  <2> QED
    BY <2>1, <2>2, <2>3 DEF TypeOK
<1> QED
  BY <1>2, <1>3

(* A feed is released: it is free and off the list, the others stay. *)
LEMMA ReleaseFacts ==
    ASSUME TypeOK, FeedListSound, NEW d \in Feed, ReleaseFeed(d)
    PROVE  /\ feed' \in [Feed -> FeedType] /\ feed_list' \in Seq(Feed)
           /\ pesfilter' \in [Decoders -> Feed \cup {None}]
           /\ FeedListSound'
<1>1. CASE feed[d].state = "FREE"
  <2>1. UNCHANGED <<feed, feed_list, pesfilter>>
    BY <1>1 DEF ReleaseFeed
  <2> QED
    BY <2>1 DEF TypeOK, FeedListSound, Places
<1>2. CASE feed[d].state # "FREE"
  <2>1. /\ feed' = [feed EXCEPT ![d] = Released(d)]
        /\ FeedDel(d)
        /\ pesfilter' = [t \in Decoders |-> IF t = feed[d].type THEN None ELSE pesfilter[t]]
    BY <1>2 DEF ReleaseFeed
  <2>2. pesfilter' \in [Decoders -> Feed \cup {None}]
    BY <2>1 DEF TypeOK
  <2>3. Released(d) \in FeedType /\ Released(d).state = "FREE"
    <3>1. feed[d].type \in PesTypes \cup {"other"}
      BY DEF TypeOK, FeedType
    <3> QED
      BY <3>1 DEF Released, FreeFeed, FeedType
  <2>4. CASE Places(d) = {} /\ UNCHANGED feed_list
    <3>1. feed' \in [Feed -> FeedType] /\ FeedListSound'
      BY <2>1, <2>3, <2>4, FeedUpdate
    <3> QED
      BY <2>2, <2>4, <3>1 DEF TypeOK
  <2>5. ASSUME NEW k \in Places(d), feed_list' = RemoveAt(feed_list, k)
        PROVE  feed' \in [Feed -> FeedType] /\ feed_list' \in Seq(Feed) /\ FeedListSound'
    <3> DEFINE L == feed_list
               n == Len(feed_list)
               old(j) == IF j < k THEN j ELSE j + 1
    <3>1. L \in Seq(Feed) /\ n \in Nat /\ k \in 1 .. n /\ L[k] = d
      BY <2>5, LenProperties DEF TypeOK, Places
    <3>2. /\ feed_list' \in Seq(Feed) /\ Len(feed_list') = n - 1
          /\ \A j \in 1 .. n - 1 : feed_list'[j] = L[old(j)]
      <4>1. RemoveAt(L, k) \in Seq(Feed) /\ Len(RemoveAt(L, k)) = n - 1
        BY <3>1, RemoveAtFacts
      <4>2. \A j \in 1 .. n - 1 : RemoveAt(L, k)[j] = IF j < k THEN L[j] ELSE L[j + 1]
        BY <3>1, RemoveAtFacts
      <4> QED
        BY <2>5, <4>1, <4>2
    <3>3. /\ \A j \in 1 .. n - 1 : old(j) \in 1 .. n /\ old(j) # k
          /\ \A i, j \in 1 .. n - 1 : i # j => old(i) # old(j)
          /\ \A m \in 1 .. n : m # k => \E j \in 1 .. n - 1 : m = old(j)
      BY <3>1, SkipPlaces
    <3>4. /\ \A i, j \in 1 .. n : L[i] = L[j] => i = j
          /\ \A i \in 1 .. n : feed[L[i]].state # "FREE" /\ L[i] \in Feed
      BY <3>1, ElementOfSeq DEF FeedListSound
    <3>5. \A e \in Feed : feed'[e] = IF e = d THEN Released(d) ELSE feed[e]
      BY <2>1 DEF TypeOK
    <3>6. feed' \in [Feed -> FeedType]
      BY <2>1, <2>3 DEF TypeOK
    <3> HIDE DEF old, L, n
    <3>7. \A i, j \in 1 .. n - 1 : feed_list'[i] = feed_list'[j] => i = j
      BY <3>2, <3>3, <3>4
    <3>8. ASSUME NEW i \in 1 .. n - 1 PROVE feed'[feed_list'[i]].state # "FREE"
      <4>1. feed_list'[i] = L[old(i)] /\ old(i) \in 1 .. n /\ old(i) # k
        BY <3>2, <3>3
      <4>2. L[old(i)] # d /\ L[old(i)] \in Feed /\ feed[L[old(i)]].state # "FREE"
        BY <3>1, <3>4, <4>1
      <4> QED
        BY <3>5, <4>1, <4>2
    <3>9. ASSUME NEW e \in Feed, feed'[e].state \in {"READY", "GO"} PROVE Places(e)' # {}
      <4>1. e # d /\ feed[e].state \in {"READY", "GO"}
        BY <2>3, <3>5, <3>9
      <4>2. PICK m \in 1 .. n : L[m] = e
        BY <4>1 DEF FeedListSound, Places, L, n
      <4>3. m # k
        BY <3>1, <4>1, <4>2
      <4>4. PICK j \in 1 .. n - 1 : m = old(j)
        BY <3>3, <4>3
      <4>5. feed_list'[j] = e
        BY <3>2, <4>2, <4>4
      <4> QED
        BY <3>2, <4>5 DEF Places
    <3> QED
      BY <3>2, <3>6, <3>7, <3>8, <3>9 DEF FeedListSound
  <2> QED
    BY <2>1, <2>2, <2>4, <2>5 DEF FeedDel
<1> QED
  BY <1>1, <1>2

-----------------------------------------------------------------------------
(* What the steps do to op and to a slot. *)

LEMMA ListKept ==
    ASSUME FeedListSound, UNCHANGED <<feed, feed_list>> PROVE FeedListSound'
BY DEF FeedListSound, Places

LEMMA OneIsPositive == 1 \in Nat \ {0}
OBVIOUS

(* The call ends. *)
LEMMA Ended == ASSUME op' = NoOp PROVE op' \in OpType /\ OpInv'
BY OneIsPositive DEF NoOp, NoRequest, OpType, Steps, OpInv

(* The call goes on to a step that relies on nothing. *)
LEMMA Plain ==
    ASSUME op'.f \in Filter,
           op'.pc \in {"stop", "set", "free", "start", "alloc", "remove", "oops"},
           op'.pc = "set" \/ op'.then = "set" => op'.ask \in Request
    PROVE  OpInv'
BY DEF OpInv

LEMMA Moves ==
    ASSUME TypeOK, NEW pc \in Steps
    PROVE  /\ Goto(pc) => /\ op' \in OpType /\ op'.pc = pc /\ op'.f = op.f /\ op'.i = op.i
                          /\ op'.then = op.then /\ op'.ask = op.ask
           /\ Pass(pc) => /\ op' \in OpType /\ op'.pc = pc /\ op'.f = op.f /\ op'.i = 1
                          /\ op'.then = op.then /\ op'.ask = op.ask
           /\ Proceed => /\ op' \in OpType /\ op'.pc = op.pc /\ op'.f = op.f /\ op'.i = op.i + 1
                         /\ op'.then = op.then /\ op'.ask = op.ask
<1>1. op \in OpType /\ op.i \in Nat \ {0}
  BY DEF TypeOK, OpType
<1>2. ASSUME Goto(pc)
      PROVE  /\ op' \in OpType /\ op'.pc = pc /\ op'.f = op.f /\ op'.i = op.i
             /\ op'.then = op.then /\ op'.ask = op.ask
  BY <1>1, <1>2 DEF Goto, OpType
<1>3. ASSUME Pass(pc)
      PROVE  /\ op' \in OpType /\ op'.pc = pc /\ op'.f = op.f /\ op'.i = 1
             /\ op'.then = op.then /\ op'.ask = op.ask
  <2>1. op' = [op EXCEPT !.pc = pc, !.i = 1]
    BY <1>3 DEF Pass, Steps
  <2>2. op' \in OpType
    BY <1>1, <2>1, OneIsPositive DEF OpType
  <2>3. \A x \in OpType : [x EXCEPT !.pc = pc, !.i = 1].i = 1
    BY DEF OpType
  <2> QED
    BY <1>1, <2>1, <2>2, <2>3 DEF OpType
<1>4. ASSUME Proceed
      PROVE  /\ op' \in OpType /\ op'.pc = op.pc /\ op'.f = op.f /\ op'.i = op.i + 1
             /\ op'.then = op.then /\ op'.ask = op.ask
  <2>1. op' = [op EXCEPT !.i = op.i + 1] /\ op.i + 1 \in Nat \ {0}
    BY <1>1, <1>4 DEF Proceed
  <2> QED
    BY <1>1, <2>1 DEF OpType
<1> QED
  BY <1>2, <1>3, <1>4

(* A call begins. *)
LEMMA Begins ==
    ASSUME NEW pc \in Steps, NEW f \in Filter, NEW then \in {"end", "set", "start", "free"},
           NEW ask \in Request \cup [pid : Pids \cup {NoPid}, output : {"decoder"}, type : {"other"}],
           NEW now \in BOOLEAN,
           op' = [pc |-> pc, f |-> f, i |-> 1, then |-> then, ask |-> ask, now |-> now]
    PROVE  /\ op' \in OpType /\ op'.pc = pc /\ op'.f = f
           /\ op'.then = then /\ op'.ask = ask
BY OneIsPositive DEF OpType

LEMMA NoRequestType ==
    /\ NoRequest \in [pid : Pids \cup {NoPid}, output : {"decoder"}, type : {"other"}]
    /\ \A p \in Pids : [NoRequest EXCEPT !.pid = p]
                         \in [pid : Pids \cup {NoPid}, output : {"decoder"}, type : {"other"}]
BY DEF NoRequest

(* The step op.then that follows filter_stop. *)
LEMMA PassThen ==
    ASSUME TypeOK, OpInv, op.f \in Filter, Pass(op.then)
    PROVE  op' \in OpType /\ OpInv'
<1>1. op.then \in {"end", "set", "start", "free"}
  BY DEF TypeOK, OpType
<1>2. CASE op.then = "end"
  BY <1>2, Ended DEF Pass
<1>3. CASE op.then # "end"
  <2>1. op.then \in Steps /\ op.then \in {"set", "start", "free"}
    BY <1>1, <1>3 DEF Steps
  <2>2. /\ op' \in OpType /\ op'.pc = op.then /\ op'.f = op.f
        /\ op'.then = op.then /\ op'.ask = op.ask
    BY <2>1, Moves
  <2> QED
    BY <2>1, <2>2, Plain DEF OpInv
<1> QED
  BY <1>2, <1>3

(* A slot is replaced. *)
LEMMA SlotUpdate ==
    ASSUME TypeOK, NEW f \in Filter, NEW r \in SlotType, flt' = [flt EXCEPT ![f] = r]
    PROVE  flt' \in [Filter -> SlotType] /\ flt'[f] = r
BY DEF TypeOK

(* The present entry is pointed to a feed, the others stay. *)
LEMMA PointToFacts ==
    ASSUME TypeOK, op.f \in Filter, AtEntry, NEW d \in Feed \cup {None}, PointTo(d)
    PROVE  /\ flt' \in [Filter -> SlotType]
           /\ Len(flt'[op.f].pids) = Len(flt[op.f].pids)
           /\ flt'[op.f].pids[op.i].ts = d
           /\ \A j \in 1 .. Len(flt[op.f].pids) :
                j # op.i => flt'[op.f].pids[j] = flt[op.f].pids[j]
<1> DEFINE r == flt[op.f]
           e == [r.pids[op.i] EXCEPT !.ts = d]
           q == [r.pids EXCEPT ![op.i] = e]
<1>1. r \in SlotType /\ r.pids \in Seq(EntryType) /\ op.i \in 1 .. Len(r.pids)
  BY LenProperties DEF TypeOK, OpType, SlotType, AtEntry
<1>2. r.pids[op.i] \in EntryType
  BY <1>1, ElementOfSeq
<1>3. e \in EntryType /\ e.ts = d
  BY <1>2 DEF EntryType
<1>4. /\ q \in Seq(EntryType) /\ Len(q) = Len(r.pids) /\ q[op.i] = e
      /\ \A j \in 1 .. Len(r.pids) : j # op.i => q[j] = r.pids[j]
  BY <1>1, <1>3, ExceptSeq
<1>5. [r EXCEPT !.pids = q] \in SlotType
  BY <1>1, <1>4 DEF SlotType
<1>6. flt' = [flt EXCEPT ![op.f] = [r EXCEPT !.pids = q]]
  BY <1>1 DEF PointTo, TypeOK
<1>7. flt'[op.f].pids = q
  BY <1>1, <1>5, <1>6, SlotUpdate DEF SlotType
<1> QED
  BY <1>3, <1>4, <1>5, <1>6, <1>7, SlotUpdate

-----------------------------------------------------------------------------
(* The steps. *)

(* The system calls: only a slot and op. *)
LEMMA CallSteps ==
    ASSUME IInv, NEW f \in Filter,
           \/ Open \/ SetPesFilter(f) \/ Start(f) \/ Stop(f) \/ Close(f)
           \/ \E p \in Pids : AddPid(f, p) \/ RemovePid(f, p)
    PROVE  IInv'
<1>0. TypeOK /\ FeedListSound /\ OpInv
  BY DEF IInv
<1>1. CASE Open
  <2>1. PICK g \in Filter : flt' = [flt EXCEPT ![g].state = "ALLOCATED"]
    BY <1>1 DEF Open
  <2>2. op.pc = "idle" /\ UNCHANGED <<feed, feed_list, pesfilter, op>>
    BY <1>1 DEF Open
  <2>3. flt' \in [Filter -> SlotType]
    <3>1. [flt[g] EXCEPT !.state = "ALLOCATED"] \in SlotType
      BY <1>0 DEF TypeOK, SlotType
    <3> QED
      BY <1>0, <2>1, <3>1, SlotUpdate
  <2>4. OpInv'
    BY <1>0, <2>2 DEF OpInv
  <2> QED
    BY <1>0, <2>2, <2>3, <2>4, ListKept DEF IInv, TypeOK
<1>2. ASSUME NEW then \in {"end", "set", "start", "free"}, NEW ask \in Request \cup {NoRequest},
             NEW now \in BOOLEAN, Call(f, then, ask, now), then = "set" => ask \in Request
      PROVE  IInv'
  <2>1. /\ op' = [NoOp EXCEPT !.pc = "stop", !.f = f, !.then = then, !.ask = ask, !.now = now]
        /\ UNCHANGED <<flt, feed, feed_list, pesfilter>>
    BY <1>2 DEF Call
  <2>2. /\ op' \in OpType /\ op'.f = f /\ op'.pc = "stop" /\ op'.then = then
        /\ op'.ask = ask
    <3>1. op' = [pc |-> "stop", f |-> f, i |-> 1, then |-> then, ask |-> ask, now |-> now]
      BY <2>1 DEF NoOp
    <3>2. ask \in Request \cup [pid : Pids \cup {NoPid}, output : {"decoder"}, type : {"other"}]
      BY NoRequestType
    <3>3. "stop" \in Steps
      BY DEF Steps
    <3> QED
      BY <3>1, <3>2, <3>3, Begins
  <2>3. OpInv'
    BY <1>2, <2>2, Plain
  <2> QED
    BY <1>0, <2>1, <2>2, <2>3, ListKept DEF IInv, TypeOK
<1>3. CASE SetPesFilter(f) \/ Start(f) \/ Stop(f) \/ Close(f)
  BY <1>2, <1>3 DEF SetPesFilter, Start, Stop, Close
<1>4. ASSUME NEW p \in Pids, AddPid(f, p) PROVE IInv'
  <2> DEFINE e == [pid |-> p, ts |-> None]
             q == <<e>> \o flt[f].pids
  <2>1. /\ flt' = [flt EXCEPT ![f] = [flt[f] EXCEPT !.pids = q]]
        /\ op.pc = "idle" /\ UNCHANGED <<feed, feed_list, pesfilter>>
    BY <1>4 DEF AddPid
  <2>2. flt' \in [Filter -> SlotType]
    <3>1. flt[f] \in SlotType /\ flt[f].pids \in Seq(EntryType)
      BY <1>0 DEF TypeOK, SlotType
    <3>2. e \in EntryType
      BY DEF EntryType
    <3>3. q \in Seq(EntryType)
      BY <3>1, <3>2, PrependFacts
    <3>4. [flt[f] EXCEPT !.pids = q] \in SlotType
      BY <3>1, <3>3 DEF SlotType
    <3> QED
      BY <1>0, <2>1, <3>4, SlotUpdate
  <2>3. op' \in OpType /\ OpInv'
    <3>1. CASE op' = [NoOp EXCEPT !.pc = "alloc", !.f = f]
      <4>1. op' \in OpType /\ op'.f = f /\ op'.pc = "alloc" /\ op'.then = "end"
        <5>1. op' = [pc |-> "alloc", f |-> f, i |-> 1, then |-> "end", ask |-> NoRequest,
                     now |-> FALSE]
          BY <3>1 DEF NoOp
        <5>2. "alloc" \in Steps
          BY DEF Steps
        <5> QED
          BY <5>1, <5>2, Begins, NoRequestType
      <4> QED
        BY <4>1, Plain
    <3>2. CASE op' = op
      BY <1>0, <2>1, <3>2 DEF OpInv, TypeOK
    <3> QED
      BY <1>4, <3>1, <3>2 DEF AddPid
  <2> QED
    BY <1>0, <2>1, <2>2, <2>3, ListKept DEF IInv, TypeOK
<1>5. ASSUME NEW p \in Pids, RemovePid(f, p) PROVE IInv'
  <2>1. /\ op' = [NoOp EXCEPT !.pc = "remove", !.f = f, !.ask = [NoRequest EXCEPT !.pid = p]]
        /\ UNCHANGED <<flt, feed, feed_list, pesfilter>>
    BY <1>5 DEF RemovePid
  <2>2. op' \in OpType /\ op'.f = f /\ op'.pc = "remove" /\ op'.then = "end"
    <3> DEFINE ask == [NoRequest EXCEPT !.pid = p]
    <3>1. op' = [pc |-> "remove", f |-> f, i |-> 1, then |-> "end", ask |-> ask, now |-> FALSE]
      BY <2>1 DEF NoOp
    <3>2. ask \in Request \cup [pid : Pids \cup {NoPid}, output : {"decoder"}, type : {"other"}]
      BY NoRequestType
    <3>3. "remove" \in Steps
      BY DEF Steps
    <3> HIDE DEF ask
    <3> QED
      BY <3>1, <3>2, <3>3, Begins
  <2> QED
    BY <1>0, <2>1, <2>2, Plain, ListKept DEF IInv, TypeOK
<1> QED
  BY <1>1, <1>3, <1>4, <1>5

(* filter_stop: every feed is halted, then every feed is released. *)
LEMMA StopSteps ==
    ASSUME IInv, StopNothing \/ StopFilter \/ HaltFeed \/ FeedsHalted \/ ReleaseEntry \/ FeedsReleased
    PROVE  IInv'
<1>0. TypeOK /\ FeedListSound /\ OpInv
  BY DEF IInv
<1> DEFINE pids == flt[op.f].pids
<1>1. op.f \in Filter /\ op.i \in Nat \ {0} /\ Len(pids) \in Nat /\ pids \in Seq(EntryType)
  <2>1. op.f \in Filter
    BY <1>0 DEF OpInv, StopNothing, StopFilter, HaltFeed, FeedsHalted, ReleaseEntry, FeedsReleased
  <2>2. pids \in Seq(EntryType) /\ op.i \in Nat \ {0}
    BY <1>0, <2>1 DEF TypeOK, SlotType, OpType
  <2> QED
    BY <2>1, <2>2, LenProperties
<1>2. CASE StopNothing
  <2>1. op' \in OpType /\ OpInv'
    BY <1>0, <1>1, <1>2, PassThen DEF StopNothing
  <2> QED
    BY <1>0, <1>2, <2>1, ListKept DEF StopNothing, IInv, TypeOK
<1>3. CASE StopFilter
  <2>1. flt' = [flt EXCEPT ![op.f] = [flt[op.f] EXCEPT !.state = "SET"]]
    BY <1>3 DEF StopFilter
  <2>2. [flt[op.f] EXCEPT !.state = "SET"] \in SlotType
    BY <1>0, <1>1 DEF TypeOK, SlotType
  <2>3. flt' \in [Filter -> SlotType]
    BY <1>0, <1>1, <2>1, <2>2, SlotUpdate
  <2>4. /\ op' \in OpType /\ op'.pc = "halt" /\ op'.f = op.f /\ op'.i = 1
        /\ op'.then = op.then /\ op'.ask = op.ask
    BY <1>0, <1>3, Moves DEF StopFilter, Steps
  <2>5. flt'[op.f].pids = pids
    BY <1>0, <1>1, <2>1 DEF TypeOK, SlotType
  <2>6. OpInv'
    BY <1>0, <1>1, <2>4, <2>5 DEF OpInv
  <2> QED
    BY <1>0, <1>3, <2>3, <2>4, <2>6, ListKept DEF StopFilter, IInv, TypeOK
<1>4. CASE HaltFeed
  <2>1. CASE Entry.ts # None /\ StopFeed(Entry.ts) /\ Proceed
    <3> DEFINE d == Entry.ts
    <3>1. d \in Feed
      <4>1. pids[op.i] \in EntryType
        BY <1>1, <1>4, ElementOfSeq DEF HaltFeed, AtEntry
      <4> QED
        BY <2>1, <4>1 DEF Entry, EntryType
    <3>2. feed' \in [Feed -> FeedType] /\ FeedListSound'
      BY <1>0, <1>4, <2>1, <3>1, StoppedFeed DEF HaltFeed
    <3>3. /\ op' \in OpType /\ op'.pc = "halt" /\ op'.f = op.f /\ op'.i = op.i + 1
          /\ op'.then = op.then /\ op'.ask = op.ask
      BY <1>0, <1>4, <2>1, Moves DEF HaltFeed, Steps
    <3>4. ASSUME NEW j \in 1 .. Len(pids), j < op.i + 1 PROVE pids[j].ts # None
      <4>1. CASE j = op.i
        BY <2>1, <4>1 DEF Entry
      <4>2. CASE j # op.i
        <5>1. j < op.i
          BY <1>1, <3>4, <4>2
        <5> QED
          BY <1>0, <1>4, <5>1 DEF HaltFeed, OpInv
      <4> QED
        BY <4>1, <4>2
    <3>5. OpInv'
      BY <1>0, <1>1, <1>4, <3>3, <3>4 DEF OpInv, HaltFeed
    <3> QED
      BY <1>0, <1>4, <3>2, <3>3, <3>5 DEF HaltFeed, IInv, TypeOK
  <2>2. CASE Entry.ts = None /\ Goto("oops") /\ UNCHANGED feed
    <3>1. /\ op' \in OpType /\ op'.pc = "oops" /\ op'.f = op.f
          /\ op'.then = op.then /\ op'.ask = op.ask
      BY <1>0, <2>2, Moves DEF Steps
    <3>2. OpInv'
      BY <1>0, <1>1, <3>1, Plain DEF OpInv
    <3> QED
      BY <1>0, <1>4, <2>2, <3>1, <3>2, ListKept DEF HaltFeed, IInv, TypeOK
  <2> QED
    BY <1>4, <2>1, <2>2 DEF HaltFeed
<1>5. CASE FeedsHalted
  <2>1. /\ op' \in OpType /\ op'.pc = "release" /\ op'.f = op.f /\ op'.i = 1
        /\ op'.then = op.then /\ op'.ask = op.ask
    BY <1>0, <1>5, Moves DEF FeedsHalted, Steps
  <2>2. \A j \in 1 .. Len(pids) : pids[j].ts # None
    <3>1. \A j \in 1 .. Len(pids) : j < op.i
      BY <1>1, <1>5 DEF FeedsHalted, AtEntry
    <3> QED
      BY <1>0, <1>5, <3>1 DEF FeedsHalted, OpInv
  <2>3. OpInv'
    BY <1>0, <1>1, <1>5, <2>1, <2>2 DEF OpInv, FeedsHalted
  <2> QED
    BY <1>0, <1>5, <2>1, <2>3, ListKept DEF FeedsHalted, IInv, TypeOK
<1>6. CASE ReleaseEntry
  <2>1. AtEntry /\ Entry.ts \in Feed
    <3>1. op.i \in 1 .. Len(pids)
      BY <1>1, <1>6 DEF ReleaseEntry, AtEntry
    <3>2. pids[op.i] \in EntryType
      BY <1>1, <3>1, ElementOfSeq
    <3>3. pids[op.i].ts # None
      BY <1>0, <1>6, <3>1 DEF ReleaseEntry, OpInv
    <3> QED
      BY <1>6, <3>2, <3>3 DEF ReleaseEntry, Entry, EntryType
  <2>2. /\ feed' \in [Feed -> FeedType] /\ feed_list' \in Seq(Feed)
        /\ pesfilter' \in [Decoders -> Feed \cup {None}] /\ FeedListSound'
    BY <1>0, <1>6, <2>1, ReleaseFacts DEF ReleaseEntry
  <2>3. /\ flt' \in [Filter -> SlotType] /\ Len(flt'[op.f].pids) = Len(pids)
        /\ \A j \in 1 .. Len(pids) : j # op.i => flt'[op.f].pids[j] = pids[j]
    BY <1>0, <1>1, <1>6, <2>1, PointToFacts DEF ReleaseEntry
  <2>4. /\ op' \in OpType /\ op'.pc = "release" /\ op'.f = op.f /\ op'.i = op.i + 1
        /\ op'.then = op.then /\ op'.ask = op.ask
    BY <1>0, <1>6, Moves DEF ReleaseEntry, Steps
  <2>5. ASSUME NEW j \in 1 .. Len(pids), op.i + 1 <= j PROVE flt'[op.f].pids[j].ts # None
    <3>1. op.i <= j /\ j # op.i
      BY <1>1, <2>5
    <3>2. pids[j].ts # None
      BY <1>0, <1>6, <3>1 DEF ReleaseEntry, OpInv
    <3> QED
      BY <2>3, <3>1, <3>2
  <2>6. OpInv'
    BY <1>0, <1>1, <1>6, <2>3, <2>4, <2>5 DEF OpInv, ReleaseEntry
  <2> QED
    BY <2>2, <2>3, <2>4, <2>6 DEF IInv, TypeOK
<1>7. CASE FeedsReleased
  <2>1. op' \in OpType /\ OpInv'
    BY <1>0, <1>1, <1>7, PassThen DEF FeedsReleased
  <2> QED
    BY <1>0, <1>7, <2>1, ListKept DEF FeedsReleased, IInv, TypeOK
<1> QED
  BY <1>2, <1>3, <1>4, <1>5, <1>6, <1>7

(* SET_PES_FILTER and close, once the filter is stopped. *)
LEMMA SetSteps ==
    ASSUME IInv, PesFilterRefused \/ PesFilterSet \/ FilterFree
    PROVE  IInv'
<1>0. TypeOK /\ FeedListSound /\ OpInv
  BY DEF IInv
<1> DEFINE r == flt[op.f]
<1>1. op.f \in Filter /\ r \in SlotType /\ <<>> \in Seq(EntryType)
  BY <1>0 DEF OpInv, TypeOK, PesFilterRefused, PesFilterSet, FilterFree
<1>2. ASSUME NEW v \in {"FREE", "ALLOCATED"} PROVE [r EXCEPT !.state = v, !.pids = <<>>] \in SlotType
  BY <1>1 DEF SlotType
<1>3. CASE PesFilterRefused \/ FilterFree
  <2>1. PICK v \in {"FREE", "ALLOCATED"} : flt' = [flt EXCEPT ![op.f] = [r EXCEPT !.state = v, !.pids = <<>>]]
    <3>1. CASE PesFilterRefused
      <4>1. flt' = [flt EXCEPT ![op.f] = [r EXCEPT !.state = "ALLOCATED", !.pids = <<>>]]
        BY <1>0, <1>1, <3>1 DEF PesFilterRefused, TypeOK, SlotType
      <4> QED
        BY <4>1
    <3>2. CASE FilterFree
      <4>1. flt' = [flt EXCEPT ![op.f] = [r EXCEPT !.state = "FREE", !.pids = <<>>]]
        BY <1>0, <1>1, <3>2 DEF FilterFree, TypeOK, SlotType
      <4> QED
        BY <4>1
    <3> QED
      BY <1>3, <3>1, <3>2
  <2>2. flt' \in [Filter -> SlotType]
    BY <1>0, <1>1, <1>2, <2>1, SlotUpdate
  <2> QED
    BY <1>0, <1>3, <2>2, Ended, ListKept DEF PesFilterRefused, FilterFree, IInv, TypeOK
<1>4. CASE PesFilterSet
  <2> DEFINE e == [pid |-> op.ask.pid, ts |-> None]
  <2>1. op.ask \in Request
    BY <1>0, <1>4 DEF OpInv, PesFilterSet
  <2>2. <<e>> \in Seq(EntryType)
    <3>1. e \in EntryType
      BY <2>1 DEF EntryType, Request
    <3> QED
      BY <3>1
  <2>3. ASSUME NEW q \in Seq(EntryType)
        PROVE  [state |-> "SET", par |-> op.ask, pids |-> q] \in SlotType
    BY <2>1, <2>3 DEF SlotType
  <2>4. flt' \in [Filter -> SlotType]
    <3>1. PICK q \in Seq(EntryType) :
            flt' = [flt EXCEPT ![op.f] = [state |-> "SET", par |-> op.ask, pids |-> q]]
      BY <1>1, <1>4, <2>2 DEF PesFilterSet
    <3> QED
      BY <1>0, <1>1, <2>3, <3>1, SlotUpdate
  <2>5. op' \in OpType /\ OpInv'
    <3>1. CASE op' = [NoOp EXCEPT !.pc = "start", !.f = op.f]
      <4>1. op' = [pc |-> "start", f |-> op.f, i |-> 1, then |-> "end", ask |-> NoRequest,
                   now |-> FALSE]
        BY <3>1 DEF NoOp
      <4>2. "start" \in Steps
        BY DEF Steps
      <4>3. op' \in OpType /\ op'.f = op.f /\ op'.pc = "start" /\ op'.then = "end"
        BY <1>1, <4>1, <4>2, Begins, NoRequestType
      <4> QED
        BY <1>1, <4>3, Plain
    <3>2. CASE op' = NoOp
      BY <3>2, Ended
    <3> QED
      BY <1>4, <3>1, <3>2 DEF PesFilterSet
  <2> QED
    BY <1>0, <1>4, <2>4, <2>5, ListKept DEF PesFilterSet, IInv, TypeOK
<1> QED
  BY <1>3, <1>4

(* A free feed is taken, or written to and left free. *)
LEMMA TakeFeed ==
    ASSUME TypeOK, FeedListSound, NEW d \in FreeFeeds, NEW state \in {"FREE", "ALLOCATED"},
           NEW priv \in Filter \cup {None},
           feed' = [feed EXCEPT ![d] = Prepared(d, state, priv)], UNCHANGED feed_list
    PROVE  /\ feed' \in [Feed -> FeedType] /\ FeedListSound'
           /\ feed'[d].state = state /\ Places(d) = {}
<1>1. d \in Feed /\ feed[d].state = "FREE" /\ feed[d] \in FeedType
  BY DEF FreeFeeds, TypeOK
<1>2. Prepared(d, state, priv) \in FeedType /\ Prepared(d, state, priv).state = state
  BY <1>1 DEF Prepared, Released, FreeFeed, FeedType
<1>3. Places(d) = {}
  BY <1>1 DEF FeedListSound, Places
<1>4. feed' \in [Feed -> FeedType] /\ FeedListSound'
  BY <1>1, <1>2, <1>3, FeedUpdate
<1> QED
  BY <1>1, <1>2, <1>3, <1>4 DEF TypeOK

(* A feed that was set is put in front of the list. *)
LEMMA ListFeed ==
    ASSUME TypeOK, FeedListSound, NEW d \in Feed, Places(d) = {}, FeedAdd(d),
           NEW r \in FeedType, r.state = "READY", feed' = [feed EXCEPT ![d] = r]
    PROVE  /\ feed' \in [Feed -> FeedType] /\ feed_list' \in Seq(Feed) /\ FeedListSound'
           /\ feed'[d].state = "READY"
<1> DEFINE L == feed_list
           n == Len(feed_list)
<1>1. L \in Seq(Feed) /\ n \in Nat
  BY LenProperties DEF TypeOK
<1>2. /\ feed_list' \in Seq(Feed) /\ Len(feed_list') = n + 1 /\ feed_list'[1] = d
      /\ \A j \in 2 .. n + 1 : feed_list'[j] = L[j - 1]
  <2>1. feed_list' = <<d>> \o L
    BY DEF FeedAdd
  <2> QED
    BY <1>1, <2>1, PrependFacts
<1>3. /\ \A i, j \in 1 .. n : L[i] = L[j] => i = j
      /\ \A i \in 1 .. n : feed[L[i]].state # "FREE" /\ L[i] \in Feed /\ L[i] # d
  BY <1>1, ElementOfSeq DEF FeedListSound, Places
<1>4. \A e \in Feed : feed'[e] = IF e = d THEN r ELSE feed[e]
  BY DEF TypeOK
<1>5. feed' \in [Feed -> FeedType]
  BY DEF TypeOK
<1>6. \A e \in Feed \ {d} : feed[e].state \in {"READY", "GO"} => \E i \in 1 .. n : L[i] = e
  BY DEF FeedListSound, Places
<1> HIDE DEF L, n
<1>7. \A j \in 1 .. n + 1 : j = 1 \/ (j \in 2 .. n + 1 /\ j - 1 \in 1 .. n)
  BY <1>1
<1>8. \A i, j \in 1 .. n + 1 : feed_list'[i] = feed_list'[j] => i = j
  <2> SUFFICES ASSUME NEW i \in 1 .. n + 1, NEW j \in 1 .. n + 1,
                      feed_list'[i] = feed_list'[j]
               PROVE  i = j
    OBVIOUS
  <2>1. CASE i = 1 \/ j = 1
    BY <1>2, <1>3, <1>7, <2>1
  <2>2. CASE i # 1 /\ j # 1
    <3>1. i - 1 = j - 1
      BY <1>2, <1>3, <1>7, <2>2
    <3> QED
      BY <3>1
  <2> QED
    BY <2>1, <2>2
<1>9. \A i \in 1 .. n + 1 : feed'[feed_list'[i]].state # "FREE"
  BY <1>2, <1>3, <1>4, <1>7
<1>10. ASSUME NEW e \in Feed, feed'[e].state \in {"READY", "GO"} PROVE Places(e)' # {}
  <2>1. CASE e = d
    <3>1. 1 \in 1 .. Len(feed_list') /\ feed_list'[1] = e
      BY <1>1, <1>2, <2>1
    <3> QED
      BY <3>1 DEF Places
  <2>2. CASE e # d
    <3>1. PICK i \in 1 .. n : L[i] = e
      BY <1>4, <1>6, <1>10, <2>2
    <3>2. i + 1 \in 2 .. n + 1 /\ (i + 1) - 1 = i
      BY <1>1
    <3>3. i + 1 \in 1 .. Len(feed_list') /\ feed_list'[i + 1] = e
      BY <1>1, <1>2, <3>1, <3>2
    <3> QED
      BY <3>3 DEF Places
  <2> QED
    BY <2>1, <2>2
<1> QED
  BY <1>2, <1>4, <1>5, <1>8, <1>9, <1>10 DEF FeedListSound

(* filter_start and start_feed. *)
LEMMA StartSteps ==
    ASSUME IInv, StartFilter \/ AllocFeed \/ AllocFails \/ SetFeed \/ SetFails
                   \/ RunFeed \/ RunFails \/ Go
    PROVE  IInv'
<1>0. TypeOK /\ FeedListSound /\ OpInv
  BY DEF IInv
<1>1. op.f \in Filter /\ flt[op.f] \in SlotType /\ op \in OpType /\ op.i \in Nat \ {0}
  BY <1>0 DEF OpInv, TypeOK, OpType, StartFilter, AllocFeed, AllocFails, SetFeed, SetFails,
              RunFeed, RunFails, Go
<1>2. CASE StartFilter
  <2>1. op' \in OpType /\ OpInv'
    <3>1. CASE op' = [op EXCEPT !.pc = "alloc", !.then = "start"]
      <4>1. op' \in OpType /\ op'.f = op.f /\ op'.pc = "alloc" /\ op'.then = "start"
        BY <1>1, <3>1 DEF OpType, Steps
      <4> QED
        BY <1>1, <4>1, Plain
    <3>2. CASE op' = NoOp
      BY <3>2, Ended
    <3> QED
      BY <1>2, <3>1, <3>2 DEF StartFilter
  <2> QED
    BY <1>0, <1>2, <2>1, ListKept DEF StartFilter, IInv, TypeOK
<1>3. CASE AllocFeed
  <2>1. PICK d \in FreeFeeds : /\ feed' = [feed EXCEPT ![d] = Prepared(d, "ALLOCATED", op.f)]
                               /\ PointTo(d)
    BY <1>3 DEF AllocFeed, First
  <2>2. AtEntry /\ Goto("set_feed") /\ UNCHANGED <<feed_list, pesfilter>> /\ d \in Feed
    BY <1>3 DEF AllocFeed, FreeFeeds
  <2>3. /\ feed' \in [Feed -> FeedType] /\ FeedListSound'
        /\ feed'[d].state = "ALLOCATED" /\ Places(d) = {}
    BY <1>0, <1>1, <2>1, <2>2, TakeFeed
  <2>4. /\ flt' \in [Filter -> SlotType] /\ Len(flt'[op.f].pids) = Len(flt[op.f].pids)
        /\ flt'[op.f].pids[op.i].ts = d
    BY <1>0, <1>1, <2>1, <2>2, PointToFacts
  <2>5. /\ op' \in OpType /\ op'.pc = "set_feed" /\ op'.f = op.f /\ op'.i = op.i
        /\ op'.then = op.then /\ op'.ask = op.ask
    BY <1>0, <2>2, Moves DEF Steps
  <2>6. AtEntry' /\ Entry'.ts = d /\ Places(Entry.ts)' = {}
    <3>1. AtEntry' /\ Entry'.ts = d
      BY <2>2, <2>4, <2>5 DEF AtEntry, Entry
    <3> QED
      BY <2>2, <2>3, <3>1 DEF Places
  <2>7. OpInv'
    BY <1>0, <1>1, <2>2, <2>3, <2>5, <2>6 DEF OpInv
  <2> QED
    BY <1>0, <2>2, <2>3, <2>4, <2>5, <2>7 DEF IInv, TypeOK
<1>4. CASE AllocFails
  <2>1. AtEntry /\ op' = NoOp /\ UNCHANGED <<feed_list, pesfilter>>
    BY <1>4 DEF AllocFails
  <2>2. CASE PointTo(None) /\ UNCHANGED feed
    <3>1. flt' \in [Filter -> SlotType]
      BY <1>0, <1>1, <2>1, <2>2, PointToFacts
    <3> QED
      BY <1>0, <2>1, <2>2, <3>1, Ended, ListKept DEF IInv, TypeOK
  <2>3. ASSUME NEW d \in FreeFeeds, feed' = [feed EXCEPT ![d] = Prepared(d, "FREE", None)],
               PointTo(d)
        PROVE  IInv'
    <3>1. feed' \in [Feed -> FeedType] /\ FeedListSound'
      BY <1>0, <2>1, <2>3, TakeFeed
    <3>2. d \in Feed
      BY DEF FreeFeeds
    <3>3. flt' \in [Filter -> SlotType]
      BY <1>0, <1>1, <2>1, <2>3, <3>2, PointToFacts
    <3> QED
      BY <1>0, <2>1, <3>1, <3>3, Ended DEF IInv, TypeOK
  <2> QED
    BY <1>4, <2>2, <2>3 DEF AllocFails, First
<1>5. CASE SetFeed
  <2> DEFINE d == Entry.ts
             par == flt[op.f].par
             r == [feed[d] EXCEPT !.state = "READY", !.pid = Entry.pid, !.output = par.output,
                                  !.type = par.type]
  <2>1. AtEntry /\ d \in Feed /\ Places(d) = {} /\ op.pc = "set_feed"
    BY <1>0, <1>5 DEF OpInv, SetFeed
  <2>2. Entry.pid \in Pids
    <3>1. flt[op.f].pids \in Seq(EntryType) /\ op.i \in 1 .. Len(flt[op.f].pids)
      BY <1>1, <2>1, LenProperties DEF SlotType, AtEntry
    <3>2. Entry \in EntryType
      BY <3>1, ElementOfSeq DEF Entry
    <3> QED
      BY <3>2 DEF EntryType
  <2>3. par.output \in Outputs \cup {"decoder"} /\ par.type \in PesTypes \cup {"other"}
    <3>1. par \in Request \cup {NoRequest}
      BY <1>1 DEF SlotType
    <3> QED
      BY <3>1 DEF Request, NoRequest
  <2>4. feed[d] \in FeedType
    BY <1>0, <2>1 DEF TypeOK
  <2>5. r \in FeedType /\ r.state = "READY"
    BY <2>2, <2>3, <2>4 DEF FeedType
  <2>6. feed' = [feed EXCEPT ![d] = r] /\ FeedAdd(d) /\ Goto("run") /\ UNCHANGED flt
    BY <1>0, <1>5, <2>1, <2>4 DEF SetFeed, TypeOK, FeedType
  <2>7. pesfilter' \in [Decoders -> Feed \cup {None}]
    BY <1>0, <1>5, <2>1 DEF SetFeed, TypeOK
  <2> HIDE DEF r
  <2>8. /\ feed' \in [Feed -> FeedType] /\ feed_list' \in Seq(Feed) /\ FeedListSound'
        /\ feed'[d].state = "READY"
    BY <1>0, <2>1, <2>5, <2>6, ListFeed
  <2>9. /\ op' \in OpType /\ op'.pc = "run" /\ op'.f = op.f /\ op'.i = op.i
        /\ op'.then = op.then /\ op'.ask = op.ask
    BY <1>0, <2>6, Moves DEF Steps
  <2>10. AtEntry' /\ Entry'.ts = d
    BY <2>1, <2>6, <2>9 DEF AtEntry, Entry
  <2>11. OpInv'
    BY <1>0, <1>1, <2>1, <2>8, <2>9, <2>10 DEF OpInv
  <2> QED
    BY <1>0, <2>6, <2>7, <2>8, <2>9, <2>11 DEF IInv, TypeOK
<1>6. CASE SetFails \/ RunFails
  <2>1. Entry.ts \in Feed
    BY <1>0, <1>6 DEF OpInv, SetFails, RunFails
  <2>2. /\ feed' \in [Feed -> FeedType] /\ feed_list' \in Seq(Feed)
        /\ pesfilter' \in [Decoders -> Feed \cup {None}] /\ FeedListSound'
    BY <1>0, <1>6, <2>1, ReleaseFacts DEF SetFails, RunFails
  <2> QED
    BY <1>0, <1>6, <2>2, Ended DEF SetFails, RunFails, IInv, TypeOK
<1>7. CASE RunFeed
  <2> DEFINE d == Entry.ts
             r == [feed[d] EXCEPT !.state = "GO", !.filtering = TRUE]
  <2>1. d \in Feed /\ feed[d].state = "READY"
    BY <1>0, <1>7 DEF OpInv, RunFeed
  <2>2. Places(d) # {}
    BY <1>0, <2>1 DEF FeedListSound
  <2>3. feed[d] \in FeedType
    BY <1>0, <2>1 DEF TypeOK
  <2>4. r \in FeedType /\ r.state = "GO"
    BY <2>3 DEF FeedType
  <2>5. feed' = [feed EXCEPT ![d] = r] /\ UNCHANGED <<flt, feed_list, pesfilter>>
    BY <1>0, <1>7, <2>1, <2>3 DEF RunFeed, TypeOK, FeedType
  <2> HIDE DEF r
  <2>6. feed' \in [Feed -> FeedType] /\ FeedListSound'
    BY <1>0, <2>1, <2>2, <2>4, <2>5, FeedUpdate
  <2>7. op' \in OpType /\ OpInv'
    <3>1. CASE op.then = "start" /\ op' = [op EXCEPT !.pc = "alloc", !.i = op.i + 1]
      <4>1. op.i + 1 \in Nat \ {0}
        BY <1>1
      <4>2. op' \in OpType /\ op'.f = op.f /\ op'.pc = "alloc" /\ op'.then = "start"
        BY <1>1, <3>1, <4>1 DEF OpType, Steps
      <4> QED
        BY <1>1, <4>2, Plain
    <3>2. CASE op' = NoOp
      BY <3>2, Ended
    <3> QED
      BY <1>7, <3>1, <3>2 DEF RunFeed
  <2> QED
    BY <1>0, <2>5, <2>6, <2>7 DEF IInv, TypeOK
<1>8. CASE Go
  <2>1. flt' = [flt EXCEPT ![op.f] = [flt[op.f] EXCEPT !.state = "GO"]]
    BY <1>8 DEF Go
  <2>2. [flt[op.f] EXCEPT !.state = "GO"] \in SlotType
    BY <1>1 DEF SlotType
  <2>3. flt' \in [Filter -> SlotType]
    BY <1>0, <1>1, <2>1, <2>2, SlotUpdate
  <2> QED
    BY <1>0, <1>8, <2>3, Ended, ListKept DEF Go, IInv, TypeOK
<1> QED
  BY <1>2, <1>3, <1>4, <1>5, <1>6, <1>7, <1>8

(* REMOVE_PID. *)
LEMMA RemoveSteps ==
    ASSUME IInv, KeepEntry \/ HaltEntry \/ DropEntry \/ RemoveEnds
    PROVE  IInv'
<1>0. TypeOK /\ FeedListSound /\ OpInv
  BY DEF IInv
<1> DEFINE pids == flt[op.f].pids
<1>1. op.f \in Filter /\ flt[op.f] \in SlotType /\ pids \in Seq(EntryType) /\ Len(pids) \in Nat
      /\ op.i \in Nat \ {0}
  <2>1. op.f \in Filter /\ op.i \in Nat \ {0}
    BY <1>0 DEF OpInv, TypeOK, OpType, KeepEntry, HaltEntry, DropEntry, RemoveEnds
  <2>2. flt[op.f] \in SlotType /\ pids \in Seq(EntryType)
    BY <1>0, <2>1 DEF TypeOK, SlotType
  <2> QED
    BY <2>1, <2>2, LenProperties
<1>2. CASE KeepEntry
  <2>1. /\ op' \in OpType /\ op'.pc = "remove" /\ op'.f = op.f
        /\ op'.then = op.then /\ op'.ask = op.ask
    BY <1>0, <1>2, Moves DEF KeepEntry, Steps
  <2>2. OpInv'
    BY <1>0, <1>1, <2>1, Plain DEF OpInv
  <2> QED
    BY <1>0, <1>2, <2>1, <2>2, ListKept DEF KeepEntry, IInv, TypeOK
<1>3. CASE HaltEntry
  <2>1. AtEntry /\ Entry.ts \in Feed
    <3>1. op.i \in 1 .. Len(pids) /\ Entry.ts # None
      BY <1>1, <1>3 DEF HaltEntry, AtEntry, Removes
    <3>2. Entry \in EntryType
      BY <1>1, <3>1, ElementOfSeq DEF Entry
    <3> QED
      BY <1>3, <3>1, <3>2 DEF HaltEntry, EntryType
  <2>2. feed' \in [Feed -> FeedType] /\ FeedListSound'
    BY <1>0, <1>3, <2>1, StoppedFeed DEF HaltEntry
  <2>3. /\ op' \in OpType /\ op'.pc = "drop" /\ op'.f = op.f /\ op'.i = op.i
        /\ op'.then = op.then /\ op'.ask = op.ask
    BY <1>0, <1>3, Moves DEF HaltEntry, Steps
  <2>4. AtEntry' /\ Entry'.ts \in Feed
    BY <1>3, <2>1, <2>3 DEF HaltEntry, AtEntry, Entry
  <2>5. OpInv'
    BY <1>0, <1>1, <2>3, <2>4 DEF OpInv
  <2> QED
    BY <1>0, <1>3, <2>2, <2>3, <2>5 DEF HaltEntry, IInv, TypeOK
<1>4. CASE DropEntry
  <2>1. op.i \in 1 .. Len(pids) /\ Entry.ts \in Feed
    <3>1. AtEntry /\ Entry.ts \in Feed
      BY <1>0, <1>4 DEF OpInv, DropEntry
    <3> QED
      BY <1>1, <3>1 DEF AtEntry
  <2>2. /\ feed' \in [Feed -> FeedType] /\ feed_list' \in Seq(Feed)
        /\ pesfilter' \in [Decoders -> Feed \cup {None}] /\ FeedListSound'
    BY <1>0, <1>4, <2>1, ReleaseFacts DEF DropEntry
  <2>3. flt' \in [Filter -> SlotType]
    <3>1. RemoveAt(pids, op.i) \in Seq(EntryType)
      BY <1>1, <2>1, RemoveAtFacts
    <3>2. [flt[op.f] EXCEPT !.pids = RemoveAt(pids, op.i)] \in SlotType
      BY <1>1, <3>1 DEF SlotType
    <3>3. flt' = [flt EXCEPT ![op.f] = [flt[op.f] EXCEPT !.pids = RemoveAt(pids, op.i)]]
      BY <1>4 DEF DropEntry
    <3> QED
      BY <1>0, <1>1, <3>2, <3>3, SlotUpdate
  <2>4. /\ op' \in OpType /\ op'.pc = "remove" /\ op'.f = op.f
        /\ op'.then = op.then /\ op'.ask = op.ask
    BY <1>0, <1>4, Moves DEF DropEntry, Steps
  <2>5. OpInv'
    BY <1>0, <1>1, <2>4, Plain DEF OpInv
  <2> QED
    BY <2>2, <2>3, <2>4, <2>5 DEF IInv, TypeOK
<1>5. CASE RemoveEnds
  BY <1>0, <1>5, Ended, ListKept DEF RemoveEnds, IInv, TypeOK
<1> QED
  BY <1>2, <1>3, <1>4, <1>5

-----------------------------------------------------------------------------
LEMMA InitIInv == ASSUME Init PROVE IInv
<1>1. flt \in [Filter -> SlotType]
  <2>1. <<>> \in Seq(EntryType)
    OBVIOUS
  <2> QED
    BY <2>1 DEF Init, FreeSlot, SlotType
<1>2. feed \in [Feed -> FeedType] /\ \A d \in Feed : feed[d].state = "FREE"
  <2> DEFINE T == (PesTypes \cap Decoders) \cup {"other"}
             S == {[FreeFeed EXCEPT !.type = t] : t \in T}
  <2>1. ASSUME NEW t \in T
        PROVE  [FreeFeed EXCEPT !.type = t] \in FeedType /\ [FreeFeed EXCEPT !.type = t].state = "FREE"
    BY DEF FreeFeed, FeedType
  <2>2. \A r \in S : r \in FeedType /\ r.state = "FREE"
    BY <2>1
  <2>3. feed \in [Feed -> S]
    BY DEF Init
  <2> HIDE DEF S
  <2> QED
    BY <2>2, <2>3
<1>3. feed_list = <<>> /\ feed_list \in Seq(Feed) /\ Len(feed_list) = 0
  BY DEF Init
<1>4. pesfilter \in [Decoders -> Feed \cup {None}]
  BY DEF Init
<1>5. op \in OpType /\ OpInv
  <2>1. op = NoOp
    BY DEF Init
  <2>2. op \in OpType
    BY <2>1, OneIsPositive, NoRequestType DEF NoOp, OpType, Steps
  <2> QED
    BY <2>1, <2>2 DEF NoOp, OpInv
<1>6. FeedListSound
  BY <1>2, <1>3 DEF FeedListSound
<1> QED
  BY <1>1, <1>2, <1>3, <1>4, <1>5, <1>6 DEF IInv, TypeOK

LEMMA StepIInv == ASSUME IInv, [Next]_vars PROVE IInv'
<1>1. CASE UNCHANGED vars
  BY <1>1 DEF vars, IInv, TypeOK, FeedListSound, OpInv, Places, AtEntry, Entry
<1>2. CASE OpStep
  BY <1>2, StopSteps, SetSteps, StartSteps, RemoveSteps DEF OpStep
<1>3. CASE Open
  BY <1>3, CallSteps DEF Open
<1>4. ASSUME NEW f \in Filter, SetPesFilter(f) \/ Start(f) \/ Stop(f) \/ Close(f)
                                 \/ \E p \in Pids : AddPid(f, p) \/ RemovePid(f, p)
      PROVE  IInv'
  BY <1>4, CallSteps
<1> QED
  BY <1>1, <1>2, <1>3, <1>4 DEF Next

(* The types are kept, whatever fails. *)
THEOREM TypeCorrect == Spec => []TypeOK
<1>1. Init => IInv
  BY InitIInv
<1>2. IInv /\ [Next]_vars => IInv'
  BY StepIInv
<1>3. IInv => TypeOK
  BY DEF IInv
<1> QED
  BY <1>1, <1>2, <1>3, PTL DEF Spec

(* No feed is on the demux's list twice, none that is free, and none that was set
   is missing, whatever fails above dvb_demux.c and in whatever order descriptors
   are set, started, edited and closed. *)
THEOREM FeedListStaysSound == Spec => []FeedListSound
<1>1. Init => IInv
  BY InitIInv
<1>2. IInv /\ [Next]_vars => IInv'
  BY StepIInv
<1>3. IInv => FeedListSound
  BY DEF IInv
<1> QED
  BY <1>1, <1>2, <1>3, PTL DEF Spec

-----------------------------------------------------------------------------
(* Who owns the feeds in use. *)

At(f, pcs) == op.f = f /\ op.pc \in pcs

(* The i-th entry of f holds a feed: those of a running filter do, and of one
   that is being stopped or started those not yet released or already started. *)
Holds(f, i) ==
    \/ At(f, {"halt"})
    \/ At(f, {"release"}) /\ op.i <= i
    \/ At(f, {"alloc"}) /\ i < op.i
    \/ At(f, {"set_feed", "run"}) /\ i <= op.i
    \/ Running(f) /\ ~(At(f, {"alloc"}) /\ i = op.i)

(* Its feed is not filtering, not yet or no longer. *)
Idles(f, i) ==
    \/ At(f, {"halt"}) /\ i < op.i
    \/ At(f, {"release"})
    \/ At(f, {"set_feed", "run", "drop"}) /\ i = op.i

(* The feed the entry holds is the filter's and does what the entry asks for. *)
Fits(f, i) ==
    LET e == flt[f].pids[i]  d == feed[e.ts] IN
    /\ e.ts \in Feed /\ d.state # "FREE" /\ d.priv = f
    /\ d.filtering <=> ~Idles(f, i)
    /\ ~Idles(f, i) => d.state = "GO"
    /\ \/ At(f, {"set_feed"}) /\ i = op.i
       \/ d.pid = e.pid /\ d.output = flt[f].par.output

Mine(f) ==
    /\ \A i \in 1 .. Len(flt[f].pids) : Holds(f, i) => Fits(f, i)
    /\ \A i, j \in 1 .. Len(flt[f].pids) :
         Holds(f, i) /\ Holds(f, j) /\ flt[f].pids[i].ts = flt[f].pids[j].ts => i = j
    /\ Edits => \A i \in 1 .. Len(flt[f].pids) : Holds(f, i) \/ flt[f].pids[i].ts = None
    /\ ~Edits => Len(flt[f].pids) <= 1

(* A feed in use is held by an entry of the filter it calls back to. *)
Claimed(d) ==
    feed[d].state # "FREE" =>
        \E f \in Filter : /\ feed[d].priv = f
                         /\ \E i \in 1 .. Len(flt[f].pids) : Holds(f, i) /\ flt[f].pids[i].ts = d

(* What the call in progress finds its filter in. *)
CallInv ==
    /\ op.pc = "idle" <=> op.f = None
    /\ op.pc # "oops"
    /\ op.pc \in {"halt", "release", "set", "free", "start"} => ~Running(op.f)
    /\ op.pc = "start" => op.i = 1
    /\ op.pc \in {"alloc", "set_feed", "run"} =>
         \/ ~Running(op.f) /\ op.then = "start"
         \/ Running(op.f) /\ op.then = "end" /\ Edits /\ op.i = 1 /\ AtEntry
    /\ op.pc \in {"remove", "drop"} => Edits

Owned == (\A f \in Filter : Mine(f)) /\ (\A d \in Feed : Claimed(d)) /\ CallInv

(* A feed could not be allocated, set or started. *)
FeedFails == AllocFails \/ SetFails \/ RunFails

LEMMA NotNone == \A f \in Filter : f # None
BY DEF Filter, None

(* What a call on g does to g's entries and feeds does not touch the others'. *)
LEMMA Frame ==
    ASSUME Owned, NEW g \in Filter, op.f \in {g, None}, op'.f \in {g, None},
           \A f \in Filter : f # g => flt'[f] = flt[f],
           \A e \in Feed : \/ feed'[e] = feed[e]
                           \/ /\ feed[e].state = "FREE" \/ feed[e].priv = g
                              /\ feed'[e].state = "FREE" \/ feed'[e].priv = g,
           Mine(g)',
           \A e \in Feed : feed'[e].state # "FREE" /\ feed'[e].priv = g =>
               \E i \in 1 .. Len(flt'[g].pids) : Holds(g, i)' /\ flt'[g].pids[i].ts = e
    PROVE  (\A f \in Filter : Mine(f)') /\ (\A d \in Feed : Claimed(d)')
<1>1. ASSUME NEW f \in Filter, f # g, NEW i
      PROVE  /\ Holds(f, i)' <=> Running(f)
             /\ Holds(f, i) <=> Running(f)
             /\ ~Idles(f, i) /\ ~Idles(f, i)'
             /\ ~At(f, {"set_feed"}) /\ ~At(f, {"set_feed"})'
  <2>1. op.f # f /\ op'.f # f
    BY <1>1, NotNone
  <2>2. flt'[f] = flt[f]
    BY <1>1
  <2> QED
    BY <2>1, <2>2 DEF Holds, Idles, At, Running
<1>2. ASSUME NEW f \in Filter, f # g
      PROVE  Mine(f)'
  <2>1. flt'[f] = flt[f] /\ Mine(f)
    BY <1>2 DEF Owned
  <2>2. ASSUME NEW i \in 1 .. Len(flt[f].pids), Running(f)
        PROVE  Fits(f, i)'
    <3>1. Fits(f, i)
      BY <1>1, <1>2, <2>1, <2>2 DEF Mine
    <3>2. feed'[flt[f].pids[i].ts] = feed[flt[f].pids[i].ts]
      BY <1>2, <3>1 DEF Fits
    <3> QED
      BY <1>1, <1>2, <2>1, <3>1, <3>2 DEF Fits
  <2>3. \A i \in 1 .. Len(flt'[f].pids) : Holds(f, i)' => Fits(f, i)'
    BY <1>1, <1>2, <2>1, <2>2
  <2>4. \A i, j \in 1 .. Len(flt'[f].pids) :
          Holds(f, i)' /\ Holds(f, j)' /\ flt'[f].pids[i].ts = flt'[f].pids[j].ts => i = j
    BY <1>1, <1>2, <2>1 DEF Mine
  <2>5. Edits => \A i \in 1 .. Len(flt'[f].pids) : Holds(f, i)' \/ flt'[f].pids[i].ts = None
    BY <1>1, <1>2, <2>1 DEF Mine
  <2> QED
    BY <2>1, <2>3, <2>4, <2>5 DEF Mine
<1>3. ASSUME NEW e \in Feed, feed'[e].state # "FREE", feed'[e].priv # g
      PROVE  Claimed(e)'
  <2>1. feed'[e] = feed[e] /\ Claimed(e)
    BY <1>3 DEF Owned
  <2>2. feed[e].priv \in Filter /\ feed[e].priv # g
    BY <1>3, <2>1 DEF Claimed
  <2>3. flt'[feed[e].priv] = flt[feed[e].priv]
    BY <2>2
  <2> QED
    BY <1>1, <1>3, <2>1, <2>2, <2>3 DEF Claimed
<1>4. ASSUME NEW e \in Feed PROVE Claimed(e)'
  <2>1. CASE feed'[e].state = "FREE"
    BY <2>1 DEF Claimed
  <2>2. CASE feed'[e].state # "FREE" /\ feed'[e].priv = g
    BY <2>2 DEF Claimed
  <2>3. CASE feed'[e].state # "FREE" /\ feed'[e].priv # g
    BY <1>3, <2>3
  <2> QED
    BY <2>1, <2>2, <2>3
<1> QED
  BY <1>2, <1>4

(* The entries of g's list that hold feeds are some that held them, at other
   places perhaps, and their feeds are as they were; the others are free. *)
LEMMA Transfer ==
    ASSUME Owned, NEW g \in Filter, op.f \in {g, None}, op'.f \in {g, None},
           \A f \in Filter : f # g => flt'[f] = flt[f],
           NEW m,
           \A i, j \in 1 .. Len(flt'[g].pids) : m[i] = m[j] => i = j,
           \A j \in 1 .. Len(flt'[g].pids) : Holds(g, j)' =>
               /\ m[j] \in 1 .. Len(flt[g].pids) /\ Holds(g, m[j])
               /\ flt'[g].pids[j] = flt[g].pids[m[j]] /\ flt'[g].par = flt[g].par
               /\ feed'[flt'[g].pids[j].ts].state # "FREE"
               /\ Idles(g, j)' <=> Idles(g, m[j])
               /\ ~At(g, {"set_feed"}) /\ ~At(g, {"set_feed"})',
           \A i \in 1 .. Len(flt[g].pids) : Holds(g, i) =>
               \/ feed'[flt[g].pids[i].ts].state = "FREE"
               \/ \E j \in 1 .. Len(flt'[g].pids) : Holds(g, j)' /\ m[j] = i,
           \A e \in Feed : \/ feed'[e] = feed[e]
                           \/ /\ feed[e].state = "FREE" \/ feed[e].priv = g
                              /\ feed'[e].state = "FREE",
           Edits => \A j \in 1 .. Len(flt'[g].pids) : Holds(g, j)' \/ flt'[g].pids[j].ts = None,
           ~Edits => Len(flt'[g].pids) <= 1
    PROVE  (\A f \in Filter : Mine(f)') /\ (\A d \in Feed : Claimed(d)')
<1>0. Mine(g) /\ \A d \in Feed : Claimed(d)
  BY DEF Owned
<1>1. ASSUME NEW j \in 1 .. Len(flt'[g].pids), Holds(g, j)' PROVE Fits(g, j)'
  <2>1. Fits(g, m[j])
    BY <1>0, <1>1 DEF Mine
  <2>2. feed'[flt'[g].pids[j].ts] = feed[flt[g].pids[m[j]].ts]
    <3>1. flt[g].pids[m[j]].ts \in Feed
      BY ONLY <2>1 DEF Fits
    <3>2. flt'[g].pids[j] = flt[g].pids[m[j]] /\ feed'[flt'[g].pids[j].ts].state # "FREE"
      BY <1>1
    <3>3. \A e \in Feed : feed'[e] = feed[e] \/ feed'[e].state = "FREE"
      OBVIOUS
    <3> QED
      BY ONLY <3>1, <3>2, <3>3
  <2> QED
    BY <1>1, <2>1, <2>2 DEF Fits
<1>2. ASSUME NEW i \in 1 .. Len(flt'[g].pids), NEW j \in 1 .. Len(flt'[g].pids),
             Holds(g, i)', Holds(g, j)', flt'[g].pids[i].ts = flt'[g].pids[j].ts
      PROVE  i = j
  <2>1. /\ m[i] \in 1 .. Len(flt[g].pids) /\ Holds(g, m[i]) /\ flt'[g].pids[i] = flt[g].pids[m[i]]
        /\ m[j] \in 1 .. Len(flt[g].pids) /\ Holds(g, m[j]) /\ flt'[g].pids[j] = flt[g].pids[m[j]]
    BY <1>2 DEF Holds
  <2>2. \A a, b \in 1 .. Len(flt[g].pids) :
          Holds(g, a) /\ Holds(g, b) /\ flt[g].pids[a].ts = flt[g].pids[b].ts => a = b
    BY <1>0 DEF Mine
  <2>3. flt[g].pids[m[i]].ts = flt[g].pids[m[j]].ts
    BY <1>2, <2>1
  <2>4. m[i] = m[j]
    BY <2>1, <2>2, <2>3
  <2> QED
    BY <2>4
<1>3. Mine(g)'
  BY <1>1, <1>2 DEF Mine
<1>4. ASSUME NEW e \in Feed, feed'[e].state # "FREE", feed'[e].priv = g
      PROVE  \E i \in 1 .. Len(flt'[g].pids) : Holds(g, i)' /\ flt'[g].pids[i].ts = e
  <2>1. feed'[e] = feed[e] /\ Claimed(e)
    BY <1>0, <1>4
  <2>2. PICK i \in 1 .. Len(flt[g].pids) : Holds(g, i) /\ flt[g].pids[i].ts = e
    BY <1>4, <2>1 DEF Claimed
  <2>3. PICK j \in 1 .. Len(flt'[g].pids) : Holds(g, j)' /\ m[j] = i
    BY <1>4, <2>2
  <2>4. flt'[g].pids[j].ts = e
    BY <2>2, <2>3
  <2> QED
    BY <2>3, <2>4
<1>5. \A e \in Feed : \/ feed'[e] = feed[e]
                      \/ /\ feed[e].state = "FREE" \/ feed[e].priv = g
                         /\ feed'[e].state = "FREE" \/ feed'[e].priv = g
  OBVIOUS
<1> QED
  BY <1>3, <1>4, <1>5, Frame

(* Only the state of g or of the call changes. *)
LEMMA Still ==
    ASSUME Owned, NEW g \in Filter, op.f \in {g, None}, op'.f \in {g, None},
           \A f \in Filter : f # g => flt'[f] = flt[f],
           flt'[g].pids = flt[g].pids, flt'[g].par = flt[g].par,
           \A e \in Feed : feed'[e] = feed[e],
           ~At(g, {"set_feed"}), ~At(g, {"set_feed"})',
           \A i \in 1 .. Len(flt[g].pids) : Holds(g, i)' <=> Holds(g, i),
           \A i \in 1 .. Len(flt[g].pids) : Holds(g, i)' => (Idles(g, i)' <=> Idles(g, i))
    PROVE  (\A f \in Filter : Mine(f)') /\ (\A d \in Feed : Claimed(d)')
<1> DEFINE m == [i \in 1 .. Len(flt[g].pids) |-> i]
<1>1. Mine(g)
  BY DEF Owned
<1>2. \A i \in 1 .. Len(flt[g].pids) : m[i] = i
  OBVIOUS
<1> HIDE DEF m
<1>3. \A i \in 1 .. Len(flt[g].pids) : Holds(g, i) => feed'[flt[g].pids[i].ts].state # "FREE"
  BY <1>1 DEF Mine, Fits
<1>4. Edits => \A i \in 1 .. Len(flt[g].pids) : Holds(g, i)' \/ flt[g].pids[i].ts = None
  BY <1>1 DEF Mine
<1>5. ~Edits => Len(flt'[g].pids) <= 1
  BY <1>1 DEF Mine
<1>6. \A j \in 1 .. Len(flt'[g].pids) : Holds(g, j)' =>
               /\ m[j] \in 1 .. Len(flt[g].pids) /\ Holds(g, m[j])
               /\ flt'[g].pids[j] = flt[g].pids[m[j]] /\ flt'[g].par = flt[g].par
               /\ feed'[flt'[g].pids[j].ts].state # "FREE"
               /\ Idles(g, j)' <=> Idles(g, m[j])
               /\ ~At(g, {"set_feed"}) /\ ~At(g, {"set_feed"})'
  BY <1>2, <1>3
<1>7. \A i \in 1 .. Len(flt[g].pids) : Holds(g, i) =>
               \/ feed'[flt[g].pids[i].ts].state = "FREE"
               \/ \E j \in 1 .. Len(flt'[g].pids) : Holds(g, j)' /\ m[j] = i
  BY <1>2
<1>8. \A i, j \in 1 .. Len(flt'[g].pids) : m[i] = m[j] => i = j
  BY <1>2
<1>9. \A e \in Feed : \/ feed'[e] = feed[e]
                      \/ /\ feed[e].state = "FREE" \/ feed[e].priv = g
                         /\ feed'[e].state = "FREE"
  OBVIOUS
<1>10. Edits => \A j \in 1 .. Len(flt'[g].pids) : Holds(g, j)' \/ flt'[g].pids[j].ts = None
  BY <1>4
<1> QED
  BY <1>5, <1>6, <1>7, <1>8, <1>9, <1>10, Transfer

(* No entry of g holds a feed any more. *)
LEMMA LetsGo ==
    ASSUME Owned, NEW g \in Filter, op.f \in {g, None}, op'.f \in {g, None},
           \A f \in Filter : f # g => flt'[f] = flt[f],
           \A j \in 1 .. Len(flt'[g].pids) : ~Holds(g, j)',
           \A i \in 1 .. Len(flt[g].pids) : Holds(g, i) => feed'[flt[g].pids[i].ts].state = "FREE",
           \A e \in Feed : \/ feed'[e] = feed[e]
                           \/ /\ feed[e].state = "FREE" \/ feed[e].priv = g
                              /\ feed'[e].state = "FREE",
           Edits => \A j \in 1 .. Len(flt'[g].pids) : flt'[g].pids[j].ts = None,
           ~Edits => Len(flt'[g].pids) <= 1
    PROVE  (\A f \in Filter : Mine(f)') /\ (\A d \in Feed : Claimed(d)')
<1> DEFINE m == [i \in 1 .. Len(flt'[g].pids) |-> i]
<1>1. \A i \in 1 .. Len(flt'[g].pids) : m[i] = i
  OBVIOUS
<1> HIDE DEF m
<1>2. \A j \in 1 .. Len(flt'[g].pids) : Holds(g, j)' =>
               /\ m[j] \in 1 .. Len(flt[g].pids) /\ Holds(g, m[j])
               /\ flt'[g].pids[j] = flt[g].pids[m[j]] /\ flt'[g].par = flt[g].par
               /\ feed'[flt'[g].pids[j].ts].state # "FREE"
               /\ Idles(g, j)' <=> Idles(g, m[j])
               /\ ~At(g, {"set_feed"}) /\ ~At(g, {"set_feed"})'
  OBVIOUS
<1>3. \A i, j \in 1 .. Len(flt'[g].pids) : m[i] = m[j] => i = j
  BY <1>1
<1>4. \A i \in 1 .. Len(flt[g].pids) : Holds(g, i) =>
               \/ feed'[flt[g].pids[i].ts].state = "FREE"
               \/ \E j \in 1 .. Len(flt'[g].pids) : Holds(g, j)' /\ m[j] = i
  OBVIOUS
<1> QED
  BY <1>1, <1>2, <1>3, <1>4, Transfer

(* A step on the feed d of g's k-th entry, which g holds or takes. *)
LEMMA Touch ==
    ASSUME Owned, NEW g \in Filter, op.f = g, op'.f \in {g, None},
           \A f \in Filter : f # g => flt'[f] = flt[f],
           Len(flt'[g].pids) = Len(flt[g].pids), flt'[g].par = flt[g].par,
           NEW k \in 1 .. Len(flt[g].pids), NEW d \in Feed,
           \A j \in 1 .. Len(flt[g].pids) : j # k =>
               /\ flt'[g].pids[j] = flt[g].pids[j]
               /\ Holds(g, j)' <=> Holds(g, j)
               /\ Idles(g, j)' <=> Idles(g, j),
           flt'[g].pids[k].ts = d, Holds(g, k)', Fits(g, k)',
           \/ Holds(g, k) /\ flt[g].pids[k].ts = d
           \/ ~Holds(g, k) /\ feed[d].state = "FREE",
           \A e \in Feed : e # d => feed'[e] = feed[e],
           At(g, {"set_feed"}) => op.i = k
    PROVE  (\A f \in Filter : Mine(f)') /\ (\A e \in Feed : Claimed(e)')
<1>0. Mine(g) /\ \A e \in Feed : Claimed(e)
  BY DEF Owned
<1>1. feed'[d].state # "FREE" /\ feed'[d].priv = g
  BY DEF Fits
<1>2. feed[d].state = "FREE" \/ feed[d].priv = g
  BY <1>0 DEF Mine, Fits
<1>3. ASSUME NEW j \in 1 .. Len(flt[g].pids), j # k, Holds(g, j)
      PROVE  flt[g].pids[j].ts # d /\ Fits(g, j) /\ Fits(g, j)'
  <2>1. Fits(g, j)
    BY <1>0, <1>3 DEF Mine
  <2>2. flt[g].pids[j].ts # d
    <3>1. CASE Holds(g, k) /\ flt[g].pids[k].ts = d
      <4>1. flt[g].pids[j].ts = flt[g].pids[k].ts => j = k
        BY ONLY <1>0, <1>3, <3>1, k \in 1 .. Len(flt[g].pids) DEF Mine
      <4> QED
        BY ONLY <1>3, <3>1, <4>1
    <3>2. CASE feed[d].state = "FREE"
      BY ONLY <2>1, <3>2 DEF Fits
    <3> QED
      BY <3>1, <3>2
  <2>3. feed'[flt'[g].pids[j].ts] = feed[flt[g].pids[j].ts]
    BY <1>3, <2>1, <2>2 DEF Fits
  <2>4. ~(At(g, {"set_feed"}) /\ j = op.i)
    BY <1>3
  <2> QED
    BY <1>3, <2>1, <2>2, <2>3, <2>4 DEF Fits
<1>4. \A j \in 1 .. Len(flt'[g].pids) : Holds(g, j)' => Fits(g, j)'
  BY <1>3
<1>5. ASSUME NEW i \in 1 .. Len(flt'[g].pids), NEW j \in 1 .. Len(flt'[g].pids),
             Holds(g, i)', Holds(g, j)', flt'[g].pids[i].ts = flt'[g].pids[j].ts
      PROVE  i = j
  <2>1. CASE i = k \/ j = k
    BY <1>3, <1>5, <2>1
  <2>2. CASE i # k /\ j # k
    BY <1>0, <1>5, <2>2 DEF Mine
  <2> QED
    BY <2>1, <2>2
<1>6. Edits => \A j \in 1 .. Len(flt'[g].pids) : Holds(g, j)' \/ flt'[g].pids[j].ts = None
  BY <1>0 DEF Mine
<1>7. Mine(g)'
  BY <1>0, <1>4, <1>5, <1>6 DEF Mine
<1>8. ASSUME NEW e \in Feed, feed'[e].state # "FREE", feed'[e].priv = g
      PROVE  \E i \in 1 .. Len(flt'[g].pids) : Holds(g, i)' /\ flt'[g].pids[i].ts = e
  <2>1. CASE e = d
    BY <2>1
  <2>2. CASE e # d
    <3>1. feed'[e] = feed[e] /\ Claimed(e)
      BY <1>0, <2>2
    <3>2. PICK i \in 1 .. Len(flt[g].pids) : Holds(g, i) /\ flt[g].pids[i].ts = e
      BY <1>8, <3>1 DEF Claimed
    <3>3. i # k
      BY <1>8, <2>2, <3>1, <3>2
    <3> QED
      BY <3>2, <3>3
  <2> QED
    BY <2>1, <2>2
<1>9. \A e \in Feed : \/ feed'[e] = feed[e]
                      \/ /\ feed[e].state = "FREE" \/ feed[e].priv = g
                         /\ feed'[e].state = "FREE" \/ feed'[e].priv = g
  BY <1>1, <1>2
<1> QED
  BY <1>7, <1>8, <1>9, Frame

-----------------------------------------------------------------------------
(* The steps. *)

LEMMA InCall ==
    ASSUME IInv, op.pc # "idle"
    PROVE  /\ op.f \in Filter /\ op.f # None /\ op.i \in Nat \ {0} /\ op \in OpType
           /\ flt[op.f] \in SlotType /\ flt[op.f].pids \in Seq(EntryType)
           /\ Len(flt[op.f].pids) \in Nat
           /\ AtEntry <=> op.i \in 1 .. Len(flt[op.f].pids)
<1>1. op.f \in Filter /\ op.f # None
  BY NotNone DEF IInv, OpInv
<1>2. op.i \in Nat \ {0} /\ op \in OpType
  BY DEF IInv, TypeOK, OpType
<1>3. flt[op.f] \in SlotType /\ flt[op.f].pids \in Seq(EntryType)
  BY <1>1 DEF IInv, TypeOK, SlotType
<1>4. Len(flt[op.f].pids) \in Nat
  BY <1>3, LenProperties
<1> QED
  BY <1>1, <1>2, <1>3, <1>4 DEF AtEntry

LEMMA AtRest ==
    ASSUME op' = NoOp
    PROVE  op'.pc = "idle" /\ op'.f = None /\ op'.i = 1 /\ op'.then = "end" /\ CallInv'
<1>1. op'.pc = "idle" /\ op'.f = None /\ op'.i = 1 /\ op'.then = "end"
  BY DEF NoOp
<1> QED
  BY <1>1 DEF CallInv

(* The beginning of a call touches no feed. *)
LEMMA CallsOwn ==
    ASSUME IInv, Owned, NEW f \in Filter,
           \/ Open \/ SetPesFilter(f) \/ Start(f) \/ Stop(f) \/ Close(f)
           \/ \E p \in Pids : RemovePid(f, p)
    PROVE  Owned'
<1>1. op.pc = "idle" /\ op.f = None /\ f # None
  <2>1. op.pc = "idle"
    BY DEF Open, SetPesFilter, Start, Stop, Close, Call, RemovePid
  <2> QED
    BY <2>1, NotNone DEF Owned, CallInv
<1>2. \A h \in Filter : \A i : Holds(h, i) <=> Running(h)
  BY <1>1, NotNone DEF Holds, At
<1>3. CASE Open
  <2>1. PICK g \in Filter : flt[g].state = "FREE" /\ flt' = [flt EXCEPT ![g].state = "ALLOCATED"]
    BY <1>3 DEF Open, First
  <2>2. op' = op /\ feed' = feed
    BY <1>3 DEF Open
  <2>3. flt'[g].pids = flt[g].pids /\ flt'[g].par = flt[g].par /\ ~Running(g) /\ ~Running(g)'
        /\ \A h \in Filter : h # g => flt'[h] = flt[h]
    BY <2>1 DEF IInv, TypeOK, SlotType, Running
  <2>4. /\ \A i \in 1 .. Len(flt[g].pids) : Holds(g, i)' <=> Holds(g, i)
        /\ \A i \in 1 .. Len(flt[g].pids) : Holds(g, i)' => (Idles(g, i)' <=> Idles(g, i))
        /\ ~At(g, {"set_feed"}) /\ ~At(g, {"set_feed"})'
    BY <1>1, <2>2, <2>3, NotNone DEF Holds, Idles, At
  <2>5. (\A h \in Filter : Mine(h)') /\ (\A d \in Feed : Claimed(d)')
    BY <1>1, <2>2, <2>3, <2>4, Still
  <2>6. CallInv'
    BY <1>1, <2>2 DEF Owned, CallInv
  <2> QED
    BY <2>5, <2>6 DEF Owned
<1>4. CASE op'.f = f /\ op'.pc \in {"stop", "remove"} /\ (op'.pc = "remove" => Edits)
           /\ UNCHANGED <<flt, feed>>
  <2>1. /\ \A i \in 1 .. Len(flt[f].pids) : Holds(f, i)' <=> Holds(f, i)
        /\ \A i \in 1 .. Len(flt[f].pids) : Holds(f, i)' => (Idles(f, i)' <=> Idles(f, i))
        /\ ~At(f, {"set_feed"}) /\ ~At(f, {"set_feed"})'
    BY <1>1, <1>4 DEF Holds, Idles, At, Running
  <2>2. (\A h \in Filter : Mine(h)') /\ (\A d \in Feed : Claimed(d)')
    BY <1>1, <1>4, <2>1, Still
  <2>3. CallInv'
    BY <1>1, <1>4 DEF CallInv
  <2> QED
    BY <2>2, <2>3 DEF Owned
<1>5. CASE SetPesFilter(f) \/ Start(f) \/ Stop(f) \/ Close(f)
  BY <1>4, <1>5 DEF SetPesFilter, Start, Stop, Close, Call, NoOp
<1>6. CASE \E p \in Pids : RemovePid(f, p)
  BY <1>4, <1>6 DEF RemovePid, NoOp
<1> QED
  BY <1>3, <1>5, <1>6

(* The steps of a call between its feeds. *)
LEMMA BetweenOwn ==
    ASSUME IInv, Owned,
           StopNothing \/ StopFilter \/ FeedsHalted \/ FeedsReleased \/ StartFilter \/ Go
             \/ KeepEntry \/ RemoveEnds
    PROVE  Owned'
<1>1. op.pc # "idle"
  BY DEF StopNothing, StopFilter, FeedsHalted, FeedsReleased, StartFilter, Go, KeepEntry, RemoveEnds
<1>0. PICK g \in Filter : op.f = g
  BY <1>1, InCall
<1> DEFINE n == Len(flt[g].pids)
<1>2. /\ op.f = g /\ g \in Filter /\ g # None /\ op.i \in Nat \ {0} /\ op \in OpType /\ flt[g] \in SlotType
      /\ n \in Nat /\ (AtEntry <=> op.i \in 1 .. n)
  BY <1>0, <1>1, InCall
<1>3. TypeOK /\ CallInv
  BY DEF IInv, Owned
<1>4. UNCHANGED feed
  BY DEF StopNothing, StopFilter, FeedsHalted, FeedsReleased, StartFilter, Go, KeepEntry, RemoveEnds
<1>5. \A pc \in {"set", "free", "start", "end"} : Pass(pc) =>
        /\ op'.pc = IF pc = "end" THEN "idle" ELSE pc
        /\ op'.f = IF pc = "end" THEN None ELSE g
        /\ op'.i = 1
  BY <1>2, <1>3, Moves, AtRest DEF Pass, Steps
<1>6. op.then \in {"end", "set", "start", "free"}
  BY <1>2 DEF OpType
<1>7. ASSUME op'.f \in {g, None}, CallInv',
             \A f \in Filter : f # g => flt'[f] = flt[f],
             flt'[g].pids = flt[g].pids, flt'[g].par = flt[g].par,
             ~At(g, {"set_feed"}), ~At(g, {"set_feed"})',
             \A i \in 1 .. n : Holds(g, i)' <=> Holds(g, i),
             \A i \in 1 .. n : Holds(g, i)' => (Idles(g, i)' <=> Idles(g, i))
      PROVE  Owned'
  <2>1. \A e \in Feed : feed'[e] = feed[e]
    BY <1>4
  <2>2. (\A f \in Filter : Mine(f)') /\ (\A d \in Feed : Claimed(d)')
    BY <1>2, <1>7, <2>1, Still
  <2> QED
    BY <1>7, <2>2 DEF Owned
<1> HIDE DEF n
<1>8. CASE StopNothing
  <2>1. op.pc = "stop" /\ ~Running(g) /\ UNCHANGED flt /\ Pass(op.then)
    BY <1>2, <1>8 DEF StopNothing, Running
  <2>2. op'.f \in {g, None} /\ op'.pc \in {"idle", "set", "free", "start"}
        /\ (op'.pc = "idle" <=> op'.f = None) /\ op'.i = 1
    BY <1>2, <1>5, <1>6, <2>1
  <2>3. CallInv' /\ ~At(g, {"set_feed"}) /\ ~At(g, {"set_feed"})'
    BY <1>2, <2>1, <2>2 DEF CallInv, At, Running
  <2>4. \A i \in 1 .. n : ~Holds(g, i)' /\ ~Holds(g, i)
    BY <1>2, <2>1, <2>2 DEF Holds, At, Running
  <2> QED
    BY <1>7, <2>1, <2>2, <2>3, <2>4
<1>9. CASE StopFilter
  <2>1. op.pc = "stop" /\ Running(g) /\ flt' = [flt EXCEPT ![g].state = "SET"]
    BY <1>2, <1>9 DEF StopFilter, Running
  <2>2. op'.pc = "halt" /\ op'.f = g /\ op'.i = 1
    BY <1>2, <1>3, <1>9, Moves DEF StopFilter, Steps
  <2>3. /\ flt'[g].pids = flt[g].pids /\ flt'[g].par = flt[g].par /\ ~Running(g)'
        /\ \A f \in Filter : f # g => flt'[f] = flt[f]
    BY <1>2, <1>3, <2>1 DEF TypeOK, SlotType, Running
  <2>4. CallInv' /\ ~At(g, {"set_feed"}) /\ ~At(g, {"set_feed"})'
    BY <1>2, <2>1, <2>2, <2>3 DEF CallInv, At
  <2>5. \A i \in 1 .. n : Holds(g, i)' /\ Holds(g, i) /\ ~Idles(g, i)' /\ ~Idles(g, i)
    BY <1>2, <2>1, <2>2 DEF Holds, Idles, At
  <2> QED
    BY <1>7, <2>2, <2>3, <2>4, <2>5
<1>10. CASE FeedsHalted
  <2>1. op.pc = "halt" /\ ~Running(g) /\ UNCHANGED flt /\ \A i \in 1 .. n : i < op.i
    BY <1>2, <1>3, <1>10 DEF FeedsHalted, CallInv
  <2>2. op'.pc = "release" /\ op'.f = g /\ op'.i = 1
    BY <1>2, <1>3, <1>10, Moves DEF FeedsHalted, Steps
  <2>3. CallInv' /\ ~At(g, {"set_feed"}) /\ ~At(g, {"set_feed"})'
    BY <1>2, <2>1, <2>2 DEF CallInv, At, Running
  <2>4. \A i \in 1 .. n : Holds(g, i)' /\ Holds(g, i) /\ Idles(g, i)' /\ Idles(g, i)
    BY <1>2, <2>1, <2>2 DEF Holds, Idles, At
  <2> QED
    BY <1>7, <2>1, <2>2, <2>3, <2>4
<1>11. CASE FeedsReleased
  <2>1. op.pc = "release" /\ ~Running(g) /\ UNCHANGED flt /\ Pass(op.then)
        /\ \A i \in 1 .. n : ~(op.i <= i)
    BY <1>2, <1>3, <1>11 DEF FeedsReleased, CallInv
  <2>2. op'.f \in {g, None} /\ op'.pc \in {"idle", "set", "free", "start"}
        /\ (op'.pc = "idle" <=> op'.f = None) /\ op'.i = 1
    BY <1>2, <1>5, <1>6, <2>1
  <2>3. CallInv' /\ ~At(g, {"set_feed"}) /\ ~At(g, {"set_feed"})'
    BY <1>2, <2>1, <2>2 DEF CallInv, At, Running
  <2>4. \A i \in 1 .. n : ~Holds(g, i)' /\ ~Holds(g, i)
    BY <1>2, <2>1, <2>2 DEF Holds, At, Running
  <2> QED
    BY <1>7, <2>1, <2>2, <2>3, <2>4
<1>12. CASE StartFilter
  <2>1. op.pc = "start" /\ ~Running(g) /\ op.i = 1 /\ UNCHANGED flt
    BY <1>2, <1>3, <1>12 DEF StartFilter, CallInv
  <2>2. \/ op'.pc = "alloc" /\ op'.f = g /\ op'.i = 1 /\ op'.then = "start"
        \/ op'.pc = "idle" /\ op'.f = None
    BY <1>2, <1>12, <2>1, AtRest DEF StartFilter, OpType
  <2>3. CallInv' /\ ~At(g, {"set_feed"}) /\ ~At(g, {"set_feed"})'
    BY <1>2, <2>1, <2>2 DEF CallInv, At, Running
  <2>4. \A i \in 1 .. n : ~Holds(g, i)' /\ ~Holds(g, i)
    BY <1>2, <2>1, <2>2 DEF Holds, At, Running
  <2> QED
    BY <1>7, <2>1, <2>2, <2>3, <2>4
<1>13. CASE Go
  <2>1. op.pc = "alloc" /\ flt' = [flt EXCEPT ![g].state = "GO"] /\ ~Running(g)
        /\ \A i \in 1 .. n : i < op.i
    BY <1>2, <1>3, <1>13 DEF Go, CallInv
  <2>2. op'.pc = "idle" /\ op'.f = None /\ CallInv'
    BY <1>13, AtRest DEF Go
  <2>3. /\ flt'[g].pids = flt[g].pids /\ flt'[g].par = flt[g].par /\ Running(g)'
        /\ \A f \in Filter : f # g => flt'[f] = flt[f]
    BY <1>2, <1>3, <2>1 DEF TypeOK, SlotType, Running
  <2>4. /\ \A i \in 1 .. n : Holds(g, i)' /\ Holds(g, i) /\ ~Idles(g, i)' /\ ~Idles(g, i)
        /\ ~At(g, {"set_feed"}) /\ ~At(g, {"set_feed"})'
    BY <1>2, <2>1, <2>2, <2>3 DEF Holds, Idles, At
  <2> QED
    BY <1>7, <2>2, <2>3, <2>4
<1>14. CASE KeepEntry \/ RemoveEnds
  <2>1. op.pc = "remove" /\ UNCHANGED flt /\ Edits
    BY <1>3, <1>14 DEF KeepEntry, RemoveEnds, CallInv
  <2>2. \/ op'.pc = "remove" /\ op'.f = g
        \/ op'.pc = "idle" /\ op'.f = None
    <3>1. CASE KeepEntry
      BY <1>2, <1>3, <2>1, <3>1, Moves DEF KeepEntry, Steps
    <3>2. CASE RemoveEnds
      BY <3>2, AtRest DEF RemoveEnds
    <3> QED
      BY <1>14, <3>1, <3>2
  <2>3. CallInv' /\ ~At(g, {"set_feed"}) /\ ~At(g, {"set_feed"})'
    BY <1>2, <2>1, <2>2 DEF CallInv, At
  <2>4. \A i \in 1 .. n : (Holds(g, i)' <=> Holds(g, i)) /\ ~Idles(g, i)' /\ ~Idles(g, i)
    BY <1>2, <2>1, <2>2 DEF Holds, Idles, At, Running
  <2> QED
    BY <1>7, <2>1, <2>2, <2>3, <2>4
<1> QED
  BY <1>8, <1>9, <1>10, <1>11, <1>12, <1>13, <1>14

LEMMA ReleaseChanges ==
    ASSUME TypeOK, NEW d \in Feed, ReleaseFeed(d)
    PROVE  feed'[d].state = "FREE" /\ \A e \in Feed : e # d => feed'[e] = feed[e]
<1>1. Released(d).state = "FREE"
  BY DEF Released, FreeFeed
<1> QED
  BY <1>1 DEF ReleaseFeed, TypeOK

LEMMA StopChanges ==
    ASSUME TypeOK, NEW d \in Feed, StopFeed(d), feed[d].state = "GO"
    PROVE  /\ feed'[d].state = "ALLOCATED" /\ ~feed'[d].filtering
           /\ feed'[d].pid = feed[d].pid /\ feed'[d].output = feed[d].output
           /\ feed'[d].priv = feed[d].priv
           /\ \A e \in Feed : e # d => feed'[e] = feed[e]
BY DEF StopFeed, TypeOK, FeedType

(* The list of PIDs is replaced once nothing runs; a call of a filter with one
   PID fails at whatever step. *)
LEMMA LetsGoOwn ==
    ASSUME IInv, Owned,
           \/ PesFilterRefused \/ PesFilterSet \/ FilterFree
           \/ ~Edits /\ FeedFails
    PROVE  Owned'
<1>1. op.pc # "idle"
  BY DEF PesFilterRefused, PesFilterSet, FilterFree, FeedFails, AllocFails, SetFails, RunFails
<1>2. PICK g \in Filter : op.f = g
  BY <1>1, InCall
<1>3. /\ g # None /\ op.i \in Nat \ {0} /\ op \in OpType /\ flt[g] \in SlotType
      /\ flt[g].pids \in Seq(EntryType)
      /\ Len(flt[g].pids) \in Nat /\ (AtEntry <=> op.i \in 1 .. Len(flt[g].pids))
  BY <1>1, <1>2, InCall
<1>4. TypeOK /\ OpInv /\ CallInv /\ Mine(g)
  BY <1>2 DEF IInv, Owned
<1>5. CASE PesFilterRefused \/ PesFilterSet \/ FilterFree
  <2>1. UNCHANGED feed /\ op.pc \in {"set", "free"}
    BY <1>5 DEF PesFilterRefused, PesFilterSet, FilterFree
  <2>2. \A i \in 1 .. Len(flt[g].pids) : ~Holds(g, i)
    BY <1>2, <1>4, <2>1 DEF CallInv, Holds, At
  <2>3. /\ \A f \in Filter : f # g => flt'[f] = flt[f]
        /\ ~Running(g)'
        /\ Len(flt'[g].pids) <= 1 /\ \A j \in 1 .. Len(flt'[g].pids) : flt'[g].pids[j].ts = None
    <3>1. CASE PesFilterSet
      <4>1. PICK q \in {<<>>, <<[pid |-> op.ask.pid, ts |-> None]>>} :
              flt' = [flt EXCEPT ![g] = [state |-> "SET", par |-> op.ask, pids |-> q]]
        BY <1>2, <3>1 DEF PesFilterSet
      <4>2. flt'[g].pids = q /\ flt'[g].state = "SET" /\ \A f \in Filter : f # g => flt'[f] = flt[f]
        BY <1>4, <4>1 DEF TypeOK
      <4> QED
        <5>1. Len(q) <= 1 /\ \A j \in 1 .. Len(q) : q[j].ts = None
          <6>1. CASE q = <<>>
            BY <6>1
          <6>2. CASE q = <<[pid |-> op.ask.pid, ts |-> None]>>
            BY <6>2
          <6> QED
            BY <6>1, <6>2
        <5> QED
          BY <4>2, <5>1 DEF Running
    <3>2. CASE PesFilterRefused \/ FilterFree
      <4>1. flt'[g].pids = <<>> /\ flt'[g].state # "GO" /\ \A f \in Filter : f # g => flt'[f] = flt[f]
        BY <1>2, <1>3, <1>4, <3>2 DEF PesFilterRefused, FilterFree, TypeOK, SlotType
      <4> QED
        BY <4>1 DEF Running
    <3> QED
      BY <1>5, <3>1, <3>2
  <2>4. \/ op'.pc = "idle" /\ op'.f = None
        \/ op'.pc = "start" /\ op'.f = g /\ op'.i = 1
    BY <1>2, <1>5, AtRest DEF PesFilterRefused, PesFilterSet, FilterFree, NoOp
  <2>5. \A j \in 1 .. Len(flt'[g].pids) : ~Holds(g, j)'
    BY <1>3, <2>3, <2>4 DEF Holds, At
  <2>6. CallInv'
    BY <1>3, <2>3, <2>4 DEF CallInv
  <2>7. (\A f \in Filter : Mine(f)') /\ (\A d \in Feed : Claimed(d)')
    <3>1. \A e \in Feed : feed'[e] = feed[e]
      BY <2>1
    <3> QED
      BY <1>2, <2>2, <2>3, <2>4, <2>5, <3>1, LetsGo
  <2> QED
    BY <2>6, <2>7 DEF Owned
<1>6. CASE ~Edits /\ FeedFails
  <2>1. op.pc \in {"alloc", "set_feed", "run"} /\ op' = NoOp
    BY <1>6 DEF FeedFails, AllocFails, SetFails, RunFails
  <2>2. AtEntry /\ Len(flt[g].pids) <= 1 /\ ~Running(g)
    BY <1>2, <1>4, <1>6, <2>1 DEF FeedFails, AllocFails, SetFails, RunFails, OpInv, CallInv, Mine
  <2>3. op.i = 1 /\ Len(flt[g].pids) = 1
    <3>1. PICK n \in Nat : Len(flt[g].pids) = n
      BY <1>3
    <3>2. PICK i \in 1 .. n : op.i = i
      BY <1>2, <1>3, <2>2, <3>1
    <3> QED
      BY <2>2, <3>1, <3>2
  <2>4. op'.pc = "idle" /\ op'.f = None /\ CallInv'
    BY <2>1, AtRest
  <2>5. CASE AllocFails
    <3>1. PICK d \in Feed \cup {None} : PointTo(d)
      BY <2>5 DEF AllocFails
    <3>2. /\ Len(flt'[g].pids) = 1 /\ ~Running(g)'
          /\ \A f \in Filter : f # g => flt'[f] = flt[f]
      <4>1. Len(flt'[g].pids) = 1
        BY <1>2, <1>4, <2>2, <2>3, <3>1, PointToFacts
      <4>2. flt'[g].state = flt[g].state /\ \A f \in Filter : f # g => flt'[f] = flt[f]
        BY <1>2, <1>3, <1>4, <3>1 DEF PointTo, TypeOK, SlotType
      <4> QED
        BY <2>2, <4>1, <4>2 DEF Running
    <3>3. \A i \in 1 .. Len(flt[g].pids) : ~Holds(g, i)
      BY <1>2, <2>2, <2>3, <2>5 DEF AllocFails, Holds, At
    <3>4. \A e \in Feed : \/ feed'[e] = feed[e]
                          \/ feed[e].state = "FREE" /\ feed'[e].state = "FREE"
      <4>1. CASE UNCHANGED feed
        BY <4>1
      <4>2. ASSUME NEW e \in Feed, First(e, FreeFeeds),
                   feed' = [feed EXCEPT ![e] = Prepared(e, "FREE", None)]
            PROVE  feed[e].state = "FREE" /\ feed'[e].state = "FREE"
                     /\ \A h \in Feed : h # e => feed'[h] = feed[h]
        BY <1>4, <4>2 DEF First, FreeFeeds, Prepared, Released, FreeFeed, TypeOK
      <4> QED
        BY <2>5, <4>1, <4>2 DEF AllocFails
    <3>5. \A j \in 1 .. Len(flt'[g].pids) : ~Holds(g, j)'
      BY <1>3, <2>4, <3>2 DEF Holds, At
    <3>6. (\A f \in Filter : Mine(f)') /\ (\A e \in Feed : Claimed(e)')
      <4>1. Len(flt'[g].pids) <= 1
        BY <3>2
      <4>2. \A e \in Feed : \/ feed'[e] = feed[e]
                            \/ /\ feed[e].state = "FREE" \/ feed[e].priv = g
                               /\ feed'[e].state = "FREE"
        BY <3>4
      <4> QED
        BY <1>2, <1>6, <2>4, <3>2, <3>3, <3>5, <4>1, <4>2, LetsGo
    <3> QED
      BY <2>4, <3>6 DEF Owned
  <2>6. CASE SetFails \/ RunFails
    <3>1. flt' = flt /\ ReleaseFeed(Entry.ts) /\ op.pc \in {"set_feed", "run"}
      BY <2>6 DEF SetFails, RunFails
    <3>2. PICK d \in Feed : d = flt[g].pids[1].ts
      BY <1>2, <1>4, <2>3, <3>1 DEF OpInv, Entry
    <3>3. feed'[d].state = "FREE" /\ \A e \in Feed : e # d => feed'[e] = feed[e]
      BY <1>2, <1>4, <2>3, <3>1, <3>2, ReleaseChanges DEF Entry
    <3>4. Holds(g, 1)
      BY <1>2, <2>3, <3>1 DEF Holds, At
    <3>5. feed[d].priv = g
      BY <1>4, <2>3, <3>2, <3>4 DEF Mine, Fits
    <3>6. \A e \in Feed : \/ feed'[e] = feed[e]
                          \/ /\ feed[e].state = "FREE" \/ feed[e].priv = g
                             /\ feed'[e].state = "FREE"
      BY <3>3, <3>5
    <3>7. \A i \in 1 .. Len(flt[g].pids) : feed'[flt[g].pids[i].ts].state = "FREE"
      BY <2>3, <3>2, <3>3
    <3>8. \A j \in 1 .. Len(flt'[g].pids) : ~Holds(g, j)'
      BY <1>3, <2>2, <2>4, <3>1 DEF Holds, At, Running
    <3>9. Len(flt'[g].pids) <= 1 /\ \A f \in Filter : f # g => flt'[f] = flt[f]
      BY <2>2, <3>1
    <3>10. (\A f \in Filter : Mine(f)') /\ (\A e \in Feed : Claimed(e)')
      BY <1>2, <1>6, <2>4, <3>6, <3>7, <3>8, <3>9, LetsGo
    <3> QED
      BY <2>4, <3>10 DEF Owned
  <2> QED
    BY <1>6, <2>5, <2>6 DEF FeedFails
<1> QED
  BY <1>5, <1>6

(* A feed in use is allocated, set, started or halted. *)
LEMMA TouchOwn ==
    ASSUME IInv, Owned, HaltFeed \/ AllocFeed \/ SetFeed \/ RunFeed \/ HaltEntry
    PROVE  Owned'
<1>1. op.pc # "idle"
  BY DEF HaltFeed, AllocFeed, SetFeed, RunFeed, HaltEntry
<1>2. PICK g \in Filter : op.f = g
  BY <1>1, InCall
<1>3. /\ g # None /\ op.i \in Nat \ {0} /\ op \in OpType /\ flt[g] \in SlotType
      /\ flt[g].pids \in Seq(EntryType)
      /\ Len(flt[g].pids) \in Nat /\ (AtEntry <=> op.i \in 1 .. Len(flt[g].pids))
  BY <1>1, <1>2, InCall
<1>4. TypeOK /\ OpInv /\ CallInv /\ Mine(g)
  BY <1>2 DEF IInv, Owned
<1>5. AtEntry
  BY <1>4 DEF HaltFeed, AllocFeed, SetFeed, RunFeed, HaltEntry, OpInv
<1>6. PICK k \in 1 .. Len(flt[g].pids) : op.i = k
  BY <1>3, <1>5
<1>7. k \in Nat \ {0} /\ \A j \in 1 .. Len(flt[g].pids) : j \in Nat \ {0}
  BY <1>3
<1>8. Entry = flt[g].pids[k]
  BY <1>2, <1>6 DEF Entry
<1>9. CASE HaltFeed
  <2>1. op.pc = "halt" /\ flt' = flt /\ Holds(g, k) /\ ~Idles(g, k)
    BY <1>2, <1>3, <1>6, <1>9 DEF HaltFeed, Holds, Idles, At
  <2>2. PICK d \in Feed : d = flt[g].pids[k].ts /\ Fits(g, k)
    BY <1>4, <2>1 DEF Mine, Fits
  <2>3. StopFeed(d) /\ Proceed
    BY <1>8, <1>9, <2>2 DEF HaltFeed, Feed, None
  <2>4. op'.pc = "halt" /\ op'.f = g /\ op'.i = k + 1
    BY <1>2, <1>4, <1>6, <2>1, <2>3, Moves DEF Steps
  <2>5. /\ feed'[d].state = "ALLOCATED" /\ ~feed'[d].filtering
        /\ feed'[d].pid = feed[d].pid /\ feed'[d].output = feed[d].output
        /\ feed'[d].priv = feed[d].priv
        /\ \A e \in Feed : e # d => feed'[e] = feed[e]
    <3>1. feed[d].state = "GO"
      BY <2>1, <2>2 DEF Fits
    <3> QED
      BY <1>4, <2>3, <3>1, StopChanges
  <2>6. \A j \in 1 .. Len(flt[g].pids) :
          /\ Holds(g, j) /\ Holds(g, j)'
          /\ j # k => (Idles(g, j)' <=> Idles(g, j))
    BY <1>2, <1>6, <1>7, <2>1, <2>4 DEF Holds, Idles, At
  <2>7. Fits(g, k)'
    <3>1. Idles(g, k)'
      BY <1>7, <2>4 DEF Idles, At
    <3>2. ~At(g, {"set_feed"})
      BY <2>1 DEF At
    <3> QED
      BY <2>1, <2>2, <2>5, <3>1, <3>2 DEF Fits
  <2>8. CallInv'
    BY <1>2, <1>3, <1>4, <2>1, <2>4 DEF CallInv, Running
  <2>9. ~At(g, {"set_feed"})
    BY <2>1 DEF At
  <2>10. (\A f \in Filter : Mine(f)') /\ (\A e \in Feed : Claimed(e)')
    BY <1>2, <2>1, <2>2, <2>4, <2>5, <2>6, <2>7, <2>9, Touch
  <2> QED
    BY <2>8, <2>10 DEF Owned
<1>10. CASE HaltEntry
  <2>1. op.pc = "remove" /\ flt' = flt /\ Edits /\ flt[g].pids[k].ts # None
    BY <1>4, <1>8, <1>10 DEF HaltEntry, Removes, CallInv
  <2>2. Holds(g, k) /\ Running(g) /\ ~Idles(g, k)
    BY <1>2, <1>4, <2>1 DEF Mine, Holds, Idles, At
  <2>3. PICK d \in Feed : d = flt[g].pids[k].ts /\ Fits(g, k)
    BY <1>4, <2>2 DEF Mine, Fits
  <2>4. StopFeed(d) /\ Goto("drop")
    BY <1>8, <1>10, <2>3 DEF HaltEntry
  <2>5. op'.pc = "drop" /\ op'.f = g /\ op'.i = k
    BY <1>2, <1>4, <1>6, <2>1, <2>4, Moves DEF Steps
  <2>6. /\ feed'[d].state = "ALLOCATED" /\ ~feed'[d].filtering
        /\ feed'[d].pid = feed[d].pid /\ feed'[d].output = feed[d].output
        /\ feed'[d].priv = feed[d].priv
        /\ \A e \in Feed : e # d => feed'[e] = feed[e]
    <3>1. feed[d].state = "GO"
      BY <2>2, <2>3 DEF Fits
    <3> QED
      BY <1>4, <2>4, <3>1, StopChanges
  <2>7. \A j \in 1 .. Len(flt[g].pids) :
          /\ Holds(g, j) /\ Holds(g, j)'
          /\ j # k => (Idles(g, j)' <=> Idles(g, j))
    BY <1>2, <1>6, <1>7, <2>1, <2>2, <2>5 DEF Holds, Idles, At, Running
  <2>8. Fits(g, k)'
    <3>1. Idles(g, k)'
      BY <1>7, <2>5 DEF Idles, At
    <3>2. ~At(g, {"set_feed"})
      BY <2>1 DEF At
    <3> QED
      BY <2>1, <2>3, <2>6, <3>1, <3>2 DEF Fits
  <2>9. CallInv'
    BY <1>2, <1>3, <1>4, <2>1, <2>5 DEF CallInv, Running
  <2>10. ~At(g, {"set_feed"})
    BY <2>1 DEF At
  <2>11. (\A f \in Filter : Mine(f)') /\ (\A e \in Feed : Claimed(e)')
    BY <1>2, <2>1, <2>2, <2>3, <2>5, <2>6, <2>7, <2>8, <2>10, Touch
  <2> QED
    BY <2>9, <2>11 DEF Owned
<1>11. CASE AllocFeed
  <2>1. PICK d \in FreeFeeds : /\ feed' = [feed EXCEPT ![d] = Prepared(d, "ALLOCATED", g)]
                               /\ PointTo(d)
    BY <1>2, <1>11 DEF AllocFeed, First
  <2>2. op.pc = "alloc" /\ Goto("set_feed") /\ d \in Feed /\ feed[d].state = "FREE"
    BY <1>11 DEF AllocFeed, FreeFeeds
  <2>3. op'.pc = "set_feed" /\ op'.f = g /\ op'.i = k /\ op'.then = op.then
    BY <1>2, <1>4, <1>6, <2>2, Moves DEF Steps
  <2>4. /\ feed'[d].state = "ALLOCATED" /\ ~feed'[d].filtering /\ feed'[d].priv = g
        /\ \A e \in Feed : e # d => feed'[e] = feed[e]
    BY <1>4, <2>1, <2>2 DEF TypeOK, Prepared, Released, FreeFeed
  <2>5. /\ Len(flt'[g].pids) = Len(flt[g].pids) /\ flt'[g].pids[k].ts = d
        /\ \A j \in 1 .. Len(flt[g].pids) : j # k => flt'[g].pids[j] = flt[g].pids[j]
    BY <1>2, <1>4, <1>5, <1>6, <2>1, <2>2, PointToFacts
  <2>6. /\ flt'[g].par = flt[g].par /\ flt'[g].state = flt[g].state
        /\ \A f \in Filter : f # g => flt'[f] = flt[f]
    BY <1>2, <1>3, <1>4, <2>1 DEF PointTo, TypeOK, SlotType
  <2>7. \/ ~Running(g) /\ op.then = "start"
        \/ Running(g) /\ op.then = "end" /\ Edits /\ k = 1
    BY <1>2, <1>4, <1>6, <2>2 DEF CallInv
  <2>8. Running(g)' <=> Running(g)
    BY <2>6 DEF Running
  <2>9. \A j \in 1 .. Len(flt[g].pids) : j # k =>
          /\ Holds(g, j)' <=> Holds(g, j)
          /\ ~Idles(g, j)' /\ ~Idles(g, j)
    BY <1>2, <1>6, <1>7, <2>2, <2>3, <2>7, <2>8 DEF Holds, Idles, At
  <2>10. ~Holds(g, k) /\ Holds(g, k)' /\ Idles(g, k)' /\ ~At(g, {"set_feed"})
         /\ At(g, {"set_feed"})'
    BY <1>2, <1>6, <1>7, <2>2, <2>3, <2>7 DEF Holds, Idles, At
  <2>11. Fits(g, k)'
    BY <2>2, <2>3, <2>4, <2>5, <2>10 DEF Fits
  <2>12. CallInv'
    <3>1. AtEntry'
      BY <1>2, <1>3, <1>5, <1>6, <2>3, <2>5 DEF AtEntry
    <3> QED
      BY <1>3, <2>3, <2>7, <2>8, <3>1 DEF CallInv
  <2>13. (\A f \in Filter : Mine(f)') /\ (\A e \in Feed : Claimed(e)')
    BY <1>2, <2>2, <2>3, <2>4, <2>5, <2>6, <2>9, <2>10, <2>11, Touch
  <2> QED
    BY <2>12, <2>13 DEF Owned
<1>12. CASE SetFeed
  <2>1. op.pc = "set_feed" /\ flt' = flt /\ Goto("run")
    BY <1>12 DEF SetFeed
  <2>2. /\ Holds(g, k) /\ Idles(g, k)
        /\ \/ ~Running(g) /\ op.then = "start"
           \/ Running(g) /\ op.then = "end" /\ Edits /\ k = 1
    BY <1>2, <1>4, <1>6, <1>7, <2>1 DEF Holds, Idles, At, CallInv
  <2>3. PICK d \in Feed : d = flt[g].pids[k].ts /\ Fits(g, k)
    BY <1>4, <2>2 DEF Mine, Fits
  <2>4. op'.pc = "run" /\ op'.f = g /\ op'.i = k /\ op'.then = op.then
    BY <1>2, <1>4, <1>6, <2>1, Moves DEF Steps
  <2>5. /\ feed'[d].state = "READY" /\ feed'[d].filtering = feed[d].filtering
        /\ feed'[d].priv = feed[d].priv /\ feed'[d].pid = flt[g].pids[k].pid
        /\ feed'[d].output = flt[g].par.output
        /\ \A e \in Feed : e # d => feed'[e] = feed[e]
    <3>1. feed[d] \in FeedType
      BY <1>4 DEF TypeOK
    <3>2. feed' = [feed EXCEPT ![d] =
                     [feed[d] EXCEPT !.state = "READY", !.pid = flt[g].pids[k].pid,
                                     !.output = flt[g].par.output, !.type = flt[g].par.type]]
      BY <1>2, <1>4, <1>8, <1>12, <2>3, <3>1 DEF SetFeed, TypeOK, FeedType
    <3> QED
      BY <1>4, <3>1, <3>2 DEF TypeOK, FeedType
  <2>6. \A j \in 1 .. Len(flt[g].pids) :
          /\ Holds(g, j)' <=> Holds(g, j)
          /\ Idles(g, j)' <=> Idles(g, j)
    BY <1>2, <1>6, <1>7, <2>1, <2>4 DEF Holds, Idles, At, Running
  <2>7. ~At(g, {"set_feed"})'
    BY <2>4 DEF At
  <2>8. Fits(g, k)'
    BY <2>1, <2>2, <2>3, <2>5, <2>6, <2>7 DEF Fits
  <2>9. CallInv'
    <3>1. AtEntry'
      BY <1>2, <1>3, <1>5, <1>6, <2>1, <2>4 DEF AtEntry
    <3> QED
      BY <1>3, <2>1, <2>2, <2>4, <3>1 DEF CallInv, Running
  <2>10. (\A f \in Filter : Mine(f)') /\ (\A e \in Feed : Claimed(e)')
    BY <1>2, <1>6, <2>1, <2>2, <2>3, <2>4, <2>5, <2>6, <2>8, Touch
  <2> QED
    BY <2>9, <2>10 DEF Owned
<1>13. CASE RunFeed
  <2>1. op.pc = "run" /\ flt' = flt /\ ~At(g, {"set_feed"})
    BY <1>13 DEF RunFeed, At
  <2>2. /\ Holds(g, k)
        /\ \/ ~Running(g) /\ op.then = "start"
           \/ Running(g) /\ op.then = "end" /\ Edits /\ k = 1
    BY <1>2, <1>4, <1>6, <1>7, <2>1 DEF Holds, At, CallInv
  <2>3. PICK d \in Feed : d = flt[g].pids[k].ts /\ Fits(g, k)
    BY <1>4, <2>2 DEF Mine, Fits
  <2>4. /\ feed'[d].state = "GO" /\ feed'[d].filtering
        /\ feed'[d].pid = feed[d].pid /\ feed'[d].output = feed[d].output
        /\ feed'[d].priv = feed[d].priv
        /\ \A e \in Feed : e # d => feed'[e] = feed[e]
    BY <1>4, <1>8, <1>13, <2>3 DEF RunFeed, TypeOK, FeedType
  <2>5. \/ ~Running(g) /\ op'.pc = "alloc" /\ op'.f = g /\ op'.i = k + 1 /\ op'.then = "start"
        \/ Running(g) /\ op'.pc = "idle" /\ op'.f = None
    <3>1. CASE ~Running(g) /\ op.then = "start"
      <4>1. op' = [op EXCEPT !.pc = "alloc", !.i = k + 1]
        BY <1>6, <1>13, <3>1 DEF RunFeed
      <4> QED
        BY <1>2, <1>3, <3>1, <4>1 DEF OpType
    <3>2. CASE Running(g) /\ op.then = "end"
      BY <1>13, <3>2, AtRest DEF RunFeed
    <3> QED
      BY <2>2, <3>1, <3>2
  <2>6. Running(g)' <=> Running(g)
    BY <2>1 DEF Running
  <2>7. \A j \in 1 .. Len(flt[g].pids) :
          /\ Holds(g, j)' <=> Holds(g, j)
          /\ ~Idles(g, j)' /\ (j # k => ~Idles(g, j))
    BY <1>2, <1>3, <1>6, <1>7, <2>1, <2>5, <2>6 DEF Holds, Idles, At
  <2>8. Fits(g, k)'
    BY <2>1, <2>3, <2>4, <2>7 DEF Fits
  <2>9. CallInv'
    BY <1>3, <2>5, <2>6 DEF CallInv
  <2>10. (\A f \in Filter : Mine(f)') /\ (\A e \in Feed : Claimed(e)')
    BY <1>2, <2>1, <2>2, <2>3, <2>4, <2>5, <2>7, <2>8, Touch
  <2> QED
    BY <2>9, <2>10 DEF Owned
<1> QED
  BY <1>9, <1>10, <1>11, <1>12, <1>13

(* A feed is given back by filter_stop. *)
LEMMA ReleaseOwn == ASSUME IInv, Owned, ReleaseEntry PROVE Owned'
<1>1. op.pc = "release" /\ AtEntry /\ ReleaseFeed(Entry.ts) /\ PointTo(None) /\ Proceed
  BY DEF ReleaseEntry
<1>2. PICK g \in Filter : op.f = g
  BY <1>1, InCall
<1>3. /\ g # None /\ op.i \in Nat \ {0} /\ op \in OpType /\ flt[g] \in SlotType
      /\ Len(flt[g].pids) \in Nat /\ (AtEntry <=> op.i \in 1 .. Len(flt[g].pids))
  BY <1>1, <1>2, InCall
<1>4. TypeOK /\ OpInv /\ CallInv /\ Mine(g)
  BY <1>2 DEF IInv, Owned
<1>5. PICK k \in 1 .. Len(flt[g].pids) : op.i = k
  BY <1>1, <1>3
<1>6. k \in Nat \ {0} /\ \A j \in 1 .. Len(flt[g].pids) : j \in Nat \ {0}
  BY <1>3
<1>7. Holds(g, k) /\ ~Running(g)
  BY <1>1, <1>2, <1>4, <1>5, <1>6 DEF Holds, At, CallInv
<1>8. PICK d \in Feed : d = flt[g].pids[k].ts /\ Fits(g, k)
  BY <1>4, <1>7 DEF Mine, Fits
<1>9. feed'[d].state = "FREE" /\ \A e \in Feed : e # d => feed'[e] = feed[e]
  BY <1>1, <1>2, <1>4, <1>5, <1>8, ReleaseChanges DEF Entry
<1>10. /\ Len(flt'[g].pids) = Len(flt[g].pids) /\ flt'[g].pids[k].ts = None
       /\ \A j \in 1 .. Len(flt[g].pids) : j # k => flt'[g].pids[j] = flt[g].pids[j]
  BY <1>1, <1>2, <1>4, <1>5, PointToFacts
<1>11. /\ flt'[g].par = flt[g].par /\ flt'[g].state = flt[g].state
       /\ \A f \in Filter : f # g => flt'[f] = flt[f]
  BY <1>1, <1>2, <1>3, <1>4 DEF PointTo, TypeOK, SlotType
<1>12. op'.pc = "release" /\ op'.f = g /\ op'.i = k + 1
  BY <1>1, <1>2, <1>4, <1>5, Moves DEF Steps
<1>13. ~Running(g)'
  BY <1>7, <1>11 DEF Running
<1>14. \A j \in 1 .. Len(flt[g].pids) :
         /\ Holds(g, j)' <=> Holds(g, j) /\ j # k
         /\ Idles(g, j)' /\ Idles(g, j)
  BY <1>1, <1>2, <1>3, <1>5, <1>6, <1>7, <1>12, <1>13 DEF Holds, Idles, At
<1>15. ~At(g, {"set_feed"}) /\ ~At(g, {"set_feed"})'
  BY <1>1, <1>12 DEF At
<1> DEFINE m == [i \in 1 .. Len(flt[g].pids) |-> i]
<1>16. \A i \in 1 .. Len(flt[g].pids) : m[i] = i
  OBVIOUS
<1> HIDE DEF m
<1>17. ASSUME NEW j \in 1 .. Len(flt[g].pids), j # k, Holds(g, j)
       PROVE  feed'[flt[g].pids[j].ts].state # "FREE"
  <2>1. Fits(g, j) /\ flt[g].pids[j].ts # d
    BY <1>4, <1>7, <1>8, <1>17 DEF Mine
  <2> QED
    BY <1>9, <2>1 DEF Fits
<1>18. \A j \in 1 .. Len(flt'[g].pids) : Holds(g, j)' =>
         /\ m[j] \in 1 .. Len(flt[g].pids) /\ Holds(g, m[j])
         /\ flt'[g].pids[j] = flt[g].pids[m[j]] /\ flt'[g].par = flt[g].par
         /\ feed'[flt'[g].pids[j].ts].state # "FREE"
         /\ Idles(g, j)' <=> Idles(g, m[j])
         /\ ~At(g, {"set_feed"}) /\ ~At(g, {"set_feed"})'
  BY <1>10, <1>11, <1>14, <1>15, <1>16, <1>17
<1>19. \A i \in 1 .. Len(flt[g].pids) : Holds(g, i) =>
         \/ feed'[flt[g].pids[i].ts].state = "FREE"
         \/ \E j \in 1 .. Len(flt'[g].pids) : Holds(g, j)' /\ m[j] = i
  BY <1>8, <1>9, <1>10, <1>14, <1>16
<1>20. \A i, j \in 1 .. Len(flt'[g].pids) : m[i] = m[j] => i = j
  BY <1>10, <1>16
<1>21. \A e \in Feed : \/ feed'[e] = feed[e]
                      \/ /\ feed[e].state = "FREE" \/ feed[e].priv = g
                         /\ feed'[e].state = "FREE"
  BY <1>8, <1>9 DEF Fits
<1>22. Edits => \A j \in 1 .. Len(flt'[g].pids) : Holds(g, j)' \/ flt'[g].pids[j].ts = None
  BY <1>4, <1>10, <1>14 DEF Mine
<1>23. ~Edits => Len(flt'[g].pids) <= 1
  BY <1>4, <1>10 DEF Mine
<1>24. (\A f \in Filter : Mine(f)') /\ (\A e \in Feed : Claimed(e)')
  BY ONLY Owned, g \in Filter, <1>2, <1>11, <1>12, <1>18, <1>19, <1>20, <1>21, <1>22, <1>23, Transfer
<1>25. CallInv'
  BY <1>3, <1>12, <1>13 DEF CallInv
<1> QED
  BY <1>24, <1>25 DEF Owned

(* Where the entries that stay were. *)
LEMMA SkipMap ==
    ASSUME NEW n \in Nat, NEW k \in 1 .. n
    PROVE  \E m : /\ \A j \in 1 .. n - 1 : m[j] = IF j < k THEN j ELSE j + 1
                  /\ \A j \in 1 .. n - 1 : m[j] \in 1 .. n /\ m[j] # k
                  /\ \A i, j \in 1 .. n - 1 : m[i] = m[j] => i = j
                  /\ \A i \in 1 .. n : i # k => \E j \in 1 .. n - 1 : m[j] = i
<1> DEFINE m == [j \in 1 .. n - 1 |-> IF j < k THEN j ELSE j + 1]
<1>1. \A j \in 1 .. n - 1 : m[j] = IF j < k THEN j ELSE j + 1
  OBVIOUS
<1> HIDE DEF m
<1>2. \A j \in 1 .. n - 1 : m[j] \in 1 .. n /\ m[j] # k
  BY <1>1, SkipPlaces
<1>3. \A i, j \in 1 .. n - 1 : m[i] = m[j] => i = j
  BY <1>1, SkipPlaces
<1>4. \A i \in 1 .. n : i # k => \E j \in 1 .. n - 1 : m[j] = i
  BY <1>1, SkipPlaces
<1> QED
  BY <1>1, <1>2, <1>3, <1>4

(* An entry is dropped with its feed: those after it move up. *)
LEMMA DropOwn == ASSUME IInv, Owned, DropEntry PROVE Owned'
<1>1. op.pc = "drop" /\ ReleaseFeed(Entry.ts) /\ Goto("remove")
      /\ flt' = [flt EXCEPT ![op.f].pids = RemoveAt(@, op.i)]
  BY DEF DropEntry
<1>2. PICK g \in Filter : op.f = g
  BY <1>1, InCall
<1>3. /\ g # None /\ op.i \in Nat \ {0} /\ op \in OpType /\ flt[g] \in SlotType
      /\ flt[g].pids \in Seq(EntryType)
      /\ Len(flt[g].pids) \in Nat /\ (AtEntry <=> op.i \in 1 .. Len(flt[g].pids))
  BY <1>1, <1>2, InCall
<1>4. TypeOK /\ OpInv /\ CallInv /\ Mine(g)
  BY <1>2 DEF IInv, Owned
<1> DEFINE n == Len(flt[g].pids)
<1>5. PICK k \in 1 .. n : op.i = k
  BY <1>1, <1>3, <1>4 DEF OpInv
<1>6. Edits /\ flt[g].pids[k].ts # None
  <2>1. Entry.ts \in Feed
    BY <1>1, <1>4 DEF OpInv
  <2> QED
    BY <1>1, <1>2, <1>4, <1>5, <2>1 DEF CallInv, Entry, Feed, None
<1>7. Running(g) /\ \A j \in 1 .. n : Holds(g, j) /\ (Idles(g, j) <=> j = k)
  <2>1. Holds(g, k)
    BY <1>4, <1>6 DEF Mine
  <2> QED
    BY <1>1, <1>2, <1>5, <2>1 DEF Holds, Idles, At
<1>8. PICK d \in Feed : d = flt[g].pids[k].ts /\ Fits(g, k)
  BY <1>4, <1>7 DEF Mine, Fits
<1>9. feed'[d].state = "FREE" /\ \A e \in Feed : e # d => feed'[e] = feed[e]
  BY <1>1, <1>2, <1>4, <1>5, <1>8, ReleaseChanges DEF Entry
<1>10. /\ flt'[g].par = flt[g].par /\ flt'[g].state = flt[g].state
       /\ flt'[g].pids = RemoveAt(flt[g].pids, k)
       /\ \A f \in Filter : f # g => flt'[f] = flt[f]
  BY <1>1, <1>2, <1>3, <1>4, <1>5 DEF TypeOK, SlotType
<1>11. op'.pc = "remove" /\ op'.f = g
  BY <1>1, <1>2, <1>4, Moves DEF Steps
<1>12. Running(g)'
  BY <1>7, <1>10 DEF Running
<1>13. \A j : Holds(g, j)' /\ ~Idles(g, j)'
  BY <1>11, <1>12 DEF Holds, Idles, At
<1>14. ~At(g, {"set_feed"}) /\ ~At(g, {"set_feed"})'
  BY <1>1, <1>11 DEF At
<1>15. PICK m : /\ \A j \in 1 .. n - 1 : m[j] = IF j < k THEN j ELSE j + 1
                /\ \A j \in 1 .. n - 1 : m[j] \in 1 .. n /\ m[j] # k
                /\ \A i, j \in 1 .. n - 1 : m[i] = m[j] => i = j
                /\ \A i \in 1 .. n : i # k => \E j \in 1 .. n - 1 : m[j] = i
  BY <1>3, SkipMap
<1>16. Len(flt'[g].pids) = n - 1 /\ \A j \in 1 .. n - 1 : flt'[g].pids[j] = flt[g].pids[m[j]]
  <2>1. /\ Len(RemoveAt(flt[g].pids, k)) = n - 1
        /\ \A j \in 1 .. n - 1 :
             RemoveAt(flt[g].pids, k)[j] = IF j < k THEN flt[g].pids[j] ELSE flt[g].pids[j + 1]
    BY <1>3, RemoveAtFacts
  <2>2. ASSUME NEW j \in 1 .. n - 1 PROVE flt'[g].pids[j] = flt[g].pids[m[j]]
    <3>1. CASE j < k
      BY <1>10, <1>15, <2>1, <3>1
    <3>2. CASE ~(j < k)
      BY <1>10, <1>15, <2>1, <3>2
    <3> QED
      BY <3>1, <3>2
  <2> QED
    BY <1>10, <2>1, <2>2
<1>17. ASSUME NEW j \in 1 .. n, j # k PROVE feed'[flt[g].pids[j].ts].state # "FREE"
  <2>1. Fits(g, j) /\ flt[g].pids[j].ts # d
    BY <1>4, <1>7, <1>8, <1>17 DEF Mine
  <2> QED
    BY <1>9, <2>1 DEF Fits
<1>18. \A j \in 1 .. Len(flt'[g].pids) : Holds(g, j)' =>
         /\ m[j] \in 1 .. Len(flt[g].pids) /\ Holds(g, m[j])
         /\ flt'[g].pids[j] = flt[g].pids[m[j]] /\ flt'[g].par = flt[g].par
         /\ feed'[flt'[g].pids[j].ts].state # "FREE"
         /\ Idles(g, j)' <=> Idles(g, m[j])
         /\ ~At(g, {"set_feed"}) /\ ~At(g, {"set_feed"})'
  <2> SUFFICES ASSUME NEW j \in 1 .. n - 1
               PROVE  /\ m[j] \in 1 .. n /\ Holds(g, m[j])
                      /\ flt'[g].pids[j] = flt[g].pids[m[j]]
                      /\ feed'[flt'[g].pids[j].ts].state # "FREE"
                      /\ Idles(g, j)' <=> Idles(g, m[j])
    BY <1>10, <1>14, <1>16
  <2>1. m[j] \in 1 .. n /\ m[j] # k /\ flt'[g].pids[j] = flt[g].pids[m[j]]
    BY <1>15, <1>16
  <2>2. Holds(g, m[j]) /\ ~Idles(g, m[j]) /\ feed'[flt[g].pids[m[j]].ts].state # "FREE"
    BY <1>7, <1>17, <2>1
  <2> QED
    BY <1>13, <2>1, <2>2
<1>19. \A i \in 1 .. Len(flt[g].pids) : Holds(g, i) =>
         \/ feed'[flt[g].pids[i].ts].state = "FREE"
         \/ \E j \in 1 .. Len(flt'[g].pids) : Holds(g, j)' /\ m[j] = i
  BY <1>8, <1>9, <1>13, <1>15, <1>16
<1>20. \A i, j \in 1 .. Len(flt'[g].pids) : m[i] = m[j] => i = j
  BY <1>15, <1>16
<1>21. \A e \in Feed : \/ feed'[e] = feed[e]
                      \/ /\ feed[e].state = "FREE" \/ feed[e].priv = g
                         /\ feed'[e].state = "FREE"
  BY <1>8, <1>9 DEF Fits
<1>22. Edits => \A j \in 1 .. Len(flt'[g].pids) : Holds(g, j)' \/ flt'[g].pids[j].ts = None
  BY <1>13
<1>23. ~Edits => Len(flt'[g].pids) <= 1
  BY <1>6
<1>24. (\A f \in Filter : Mine(f)') /\ (\A e \in Feed : Claimed(e)')
  <2>1. \A f \in Filter : f # g => flt'[f] = flt[f]
    BY <1>10
  <2> QED
    BY ONLY Owned, g \in Filter, <1>2, <1>11, <2>1, <1>18, <1>19, <1>20, <1>21, <1>22, <1>23, Transfer
<1>25. CallInv'
  BY <1>3, <1>6, <1>11 DEF CallInv
<1> QED
  BY <1>24, <1>25 DEF Owned

(* A PID is put in front: the others move down. *)
LEMMA AddOwn ==
    ASSUME IInv, Owned, NEW g \in Filter, NEW p \in Pids, AddPid(g, p)
    PROVE  Owned'
<1> DEFINE e == [pid |-> p, ts |-> None]
           n == Len(flt[g].pids)
<1>1. /\ op.pc = "idle" /\ Edits /\ flt' = [flt EXCEPT ![g].pids = <<e>> \o flt[g].pids]
      /\ op' = IF flt[g].state = "GO" THEN [NoOp EXCEPT !.pc = "alloc", !.f = g] ELSE op
  BY DEF AddPid
<1>2. op.f = None /\ g # None
  BY <1>1, NotNone DEF Owned, CallInv
<1>3. TypeOK /\ CallInv /\ Mine(g)
  BY DEF IInv, Owned
<1>4. flt[g] \in SlotType /\ flt[g].pids \in Seq(EntryType) /\ n \in Nat /\ e \in EntryType
  <2>1. flt[g] \in SlotType /\ flt[g].pids \in Seq(EntryType)
    BY <1>3 DEF TypeOK, SlotType
  <2> QED
    BY <2>1, LenProperties DEF EntryType
<1>5. \A e_ \in Feed : feed'[e_] = feed[e_]
  BY DEF AddPid
<1>6. /\ flt'[g].par = flt[g].par /\ flt'[g].state = flt[g].state
      /\ flt'[g].pids = <<e>> \o flt[g].pids
  BY <1>1, <1>3, <1>4 DEF TypeOK, SlotType
<1>7. \A f \in Filter : f # g => flt'[f] = flt[f]
  BY <1>1, <1>3 DEF TypeOK
<1>8. PICK m : /\ \A j \in 1 .. n + 1 : m[j] = j - 1
               /\ \A j \in 1 .. n + 1 : j # 1 => m[j] \in 1 .. n
               /\ \A i, j \in 1 .. n + 1 : m[i] = m[j] => i = j
               /\ \A i \in 1 .. n : \E j \in 1 .. n + 1 : j # 1 /\ m[j] = i
  <2> DEFINE m == [j \in 1 .. n + 1 |-> j - 1]
  <2>1. \A j \in 1 .. n + 1 : m[j] = j - 1
    OBVIOUS
  <2> HIDE DEF m
  <2>2. \A j \in 1 .. n + 1 : j # 1 => m[j] \in 1 .. n
    BY <1>4, <2>1
  <2>3. ASSUME NEW i \in 1 .. n + 1, NEW j \in 1 .. n + 1, m[i] = m[j] PROVE i = j
    <3>1. i - 1 = j - 1
      BY <2>1, <2>3
    <3> QED
      BY <1>4, <3>1
  <2>4. ASSUME NEW i \in 1 .. n PROVE \E j \in 1 .. n + 1 : j # 1 /\ m[j] = i
    <3>1. i + 1 \in 1 .. n + 1 /\ i + 1 # 1 /\ (i + 1) - 1 = i
      BY <1>4
    <3> QED
      BY <2>1, <3>1
  <2> QED
    BY <2>1, <2>2, <2>3, <2>4
<1>9. /\ Len(flt'[g].pids) = n + 1 /\ flt'[g].pids[1].ts = None
      /\ \A j \in 1 .. n + 1 : j # 1 => flt'[g].pids[j] = flt[g].pids[m[j]]
  <2>1. /\ Len(<<e>> \o flt[g].pids) = n + 1 /\ (<<e>> \o flt[g].pids)[1] = e
        /\ \A j \in 2 .. n + 1 : (<<e>> \o flt[g].pids)[j] = flt[g].pids[j - 1]
    BY <1>4, PrependFacts
  <2>2. ASSUME NEW j \in 1 .. n + 1, j # 1 PROVE flt'[g].pids[j] = flt[g].pids[m[j]]
    <3>1. j \in 2 .. n + 1
      BY <1>4, <2>2
    <3> QED
      BY <1>6, <1>8, <2>1, <3>1
  <2> QED
    BY <1>6, <2>1, <2>2
<1>10. Running(g)' <=> Running(g)
  BY <1>6 DEF Running
<1>11. \/ Running(g) /\ op'.pc = "alloc" /\ op'.f = g /\ op'.i = 1 /\ op'.then = "end"
       \/ ~Running(g) /\ op' = op
  BY <1>1 DEF Running, NoOp
<1>12. /\ \A j \in 1 .. n + 1 : Holds(g, j)' <=> Running(g) /\ j # 1
       /\ \A i \in 1 .. n : Holds(g, i) <=> Running(g)
       /\ \A i : ~Idles(g, i) /\ ~Idles(g, i)'
       /\ ~At(g, {"set_feed"}) /\ ~At(g, {"set_feed"})'
  <2>1. CASE Running(g) /\ op'.pc = "alloc" /\ op'.f = g /\ op'.i = 1
    <3>1. \A j \in 1 .. n + 1 : ~(j < 1)
      BY <1>4
    <3> QED
      BY <1>1, <1>2, <1>10, <2>1, <3>1 DEF Holds, Idles, At
  <2>2. CASE ~Running(g) /\ op' = op
    BY <1>1, <1>2, <1>10, <2>2 DEF Holds, Idles, At
  <2> QED
    BY <1>11, <2>1, <2>2
<1>13. \A j \in 1 .. Len(flt'[g].pids) : Holds(g, j)' =>
         /\ m[j] \in 1 .. Len(flt[g].pids) /\ Holds(g, m[j])
         /\ flt'[g].pids[j] = flt[g].pids[m[j]] /\ flt'[g].par = flt[g].par
         /\ feed'[flt'[g].pids[j].ts].state # "FREE"
         /\ Idles(g, j)' <=> Idles(g, m[j])
         /\ ~At(g, {"set_feed"}) /\ ~At(g, {"set_feed"})'
  <2> SUFFICES ASSUME NEW j \in 1 .. n + 1, Running(g), j # 1
               PROVE  /\ m[j] \in 1 .. n /\ Holds(g, m[j])
                      /\ flt'[g].pids[j] = flt[g].pids[m[j]]
                      /\ feed'[flt'[g].pids[j].ts].state # "FREE"
                      /\ Idles(g, j)' <=> Idles(g, m[j])
    BY <1>6, <1>9, <1>12
  <2>1. m[j] \in 1 .. n /\ flt'[g].pids[j] = flt[g].pids[m[j]]
    BY <1>8, <1>9
  <2>2. Holds(g, m[j]) /\ Fits(g, m[j])
    BY <1>3, <1>12, <2>1 DEF Mine
  <2> QED
    BY <1>5, <1>12, <2>1, <2>2 DEF Fits
<1>14. \A i \in 1 .. Len(flt[g].pids) : Holds(g, i) =>
         \/ feed'[flt[g].pids[i].ts].state = "FREE"
         \/ \E j \in 1 .. Len(flt'[g].pids) : Holds(g, j)' /\ m[j] = i
  BY <1>8, <1>9, <1>12
<1>15. \A i, j \in 1 .. Len(flt'[g].pids) : m[i] = m[j] => i = j
  BY <1>8, <1>9
<1>16. \A d \in Feed : \/ feed'[d] = feed[d]
                      \/ /\ feed[d].state = "FREE" \/ feed[d].priv = g
                         /\ feed'[d].state = "FREE"
  BY <1>5
<1>17. ASSUME NEW j \in 1 .. n + 1 PROVE Holds(g, j)' \/ flt'[g].pids[j].ts = None
  <2>1. CASE j = 1
    BY <1>9, <2>1
  <2>2. CASE j # 1 /\ Running(g)
    BY <1>12, <2>2
  <2>3. CASE j # 1 /\ ~Running(g)
    <3>1. m[j] \in 1 .. n /\ flt'[g].pids[j] = flt[g].pids[m[j]]
      BY <1>8, <1>9, <2>3
    <3> QED
      BY <1>1, <1>3, <1>12, <2>3, <3>1 DEF Mine
  <2> QED
    BY <2>1, <2>2, <2>3
<1>18. Edits => \A j \in 1 .. Len(flt'[g].pids) : Holds(g, j)' \/ flt'[g].pids[j].ts = None
  BY <1>9, <1>17
<1>19. ~Edits => Len(flt'[g].pids) <= 1
  BY <1>1
<1>20. (\A f \in Filter : Mine(f)') /\ (\A d \in Feed : Claimed(d)')
  <2>1. op.f \in {g, None} /\ op'.f \in {g, None}
    BY <1>2, <1>11
  <2> QED
    BY <1>7, <1>13, <1>14, <1>15, <1>16, <1>18, <1>19, <2>1, Transfer
<1>21. CallInv'
  <2>1. CASE Running(g) /\ op'.pc = "alloc" /\ op'.f = g /\ op'.i = 1 /\ op'.then = "end"
    <3>1. AtEntry'
      BY <1>4, <1>9, <2>1 DEF AtEntry
    <3> QED
      BY <1>1, <1>2, <1>10, <2>1, <3>1 DEF CallInv
  <2>2. CASE op' = op
    BY <1>1, <1>2, <2>2 DEF CallInv
  <2> QED
    BY <1>11, <2>1, <2>2
<1> QED
  BY <1>20, <1>21 DEF Owned

-----------------------------------------------------------------------------
LEMMA InitOwned == ASSUME Init PROVE Owned
<1>1. /\ \A f \in Filter : flt[f].state = "FREE" /\ Len(flt[f].pids) = 0
      /\ \A d \in Feed : feed[d].state = "FREE"
      /\ op.pc = "idle" /\ op.f = None
  <2>1. \A d \in Feed : feed[d].state = "FREE"
    <3> DEFINE S == {[FreeFeed EXCEPT !.type = t] : t \in (PesTypes \cap Decoders) \cup {"other"}}
    <3>1. \A r \in S : r.state = "FREE"
      BY DEF FreeFeed
    <3>2. feed \in [Feed -> S]
      BY DEF Init
    <3> HIDE DEF S
    <3> QED
      BY <3>1, <3>2
  <2> QED
    BY <2>1 DEF Init, FreeSlot, NoOp
<1>2. \A f \in Filter : Mine(f)
  BY <1>1 DEF Mine
<1>3. \A d \in Feed : Claimed(d)
  BY <1>1 DEF Claimed
<1>4. CallInv
  BY <1>1 DEF CallInv
<1> QED
  BY <1>2, <1>3, <1>4 DEF Owned

LEMMA OwnedKept ==
    ASSUME UNCHANGED vars, Owned PROVE Owned'
BY DEF vars, Owned, Mine, Claimed, CallInv, Fits, Holds, Idles, At, Running, AtEntry

LEMMA StepOwned ==
    ASSUME IInv, Owned, [Next]_vars, [Edits => ~FeedFails]_vars
    PROVE  Owned'
<1>1. CASE UNCHANGED vars
  BY <1>1, OwnedKept
<1>2. CASE FeedFails
  <2>1. CASE Edits
    BY <1>1, <1>2, <2>1
  <2>2. CASE ~Edits
    BY <1>2, <2>2, LetsGoOwn
  <2> QED
    BY <2>1, <2>2
<1>3. CASE OpStep
  BY <1>2, <1>3, BetweenOwn, LetsGoOwn, TouchOwn, ReleaseOwn, DropOwn DEF OpStep, FeedFails
<1>4. CASE Open
  <2>1. PICK f \in Filter : TRUE
    BY <1>4 DEF Open
  <2> QED
    BY <1>4, CallsOwn
<1>5. ASSUME NEW f \in Filter,
             \/ SetPesFilter(f) \/ Start(f) \/ Stop(f) \/ Close(f)
             \/ \E p \in Pids : AddPid(f, p) \/ RemovePid(f, p)
      PROVE  Owned'
  <2>1. CASE \E p \in Pids : AddPid(f, p)
    BY <2>1, AddOwn
  <2>2. CASE \/ SetPesFilter(f) \/ Start(f) \/ Stop(f) \/ Close(f)
             \/ \E p \in Pids : RemovePid(f, p)
    BY <2>2, CallsOwn
  <2> QED
    BY <1>5, <2>1, <2>2
<1> QED
  BY <1>1, <1>3, <1>4, <1>5 DEF Next

(* No demux call fails while PID lists are edited. *)
Reliable == [][Edits => ~FeedFails]_vars

LEMMA Ownership == Spec /\ Reliable => [](IInv /\ Owned)
<1>1. Init => IInv /\ Owned
  BY InitIInv, InitOwned
<1>2. IInv /\ Owned /\ [Next]_vars /\ [Edits => ~FeedFails]_vars => (IInv /\ Owned)'
  BY StepIInv, StepOwned
<1> QED
  BY <1>1, <1>2, PTL DEF Spec, Reliable

-----------------------------------------------------------------------------
(* What a packet finds. *)

(* A feed on the list is that of an entry of the filter it calls back to. *)
LEMMA Listed ==
    ASSUME IInv, Owned, NEW i \in 1 .. Len(feed_list)
    PROVE  /\ feed_list[i] \in Feed /\ feed[feed_list[i]] \in FeedType
           /\ \E f \in Filter : \E k \in 1 .. Len(flt[f].pids) :
                /\ Holds(f, k) /\ Fits(f, k)
                /\ flt[f].pids[k].ts = feed_list[i] /\ feed[feed_list[i]].priv = f
<1>1. feed_list[i] \in Feed /\ feed[feed_list[i]] \in FeedType
  BY ElementOfSeq DEF IInv, TypeOK
<1>2. feed[feed_list[i]].state # "FREE" /\ Claimed(feed_list[i])
  BY <1>1 DEF IInv, FeedListSound, Owned
<1>3. PICK f \in Filter :
        /\ feed[feed_list[i]].priv = f
        /\ \E k \in 1 .. Len(flt[f].pids) : Holds(f, k) /\ flt[f].pids[k].ts = feed_list[i]
  BY <1>2 DEF Claimed
<1>4. Mine(f)
  BY DEF Owned
<1> QED
  BY <1>1, <1>3, <1>4 DEF Mine

(* What a filter no call is working on can rely on. *)
LEMMA Undisturbed ==
    ASSUME NEW f \in Filter, op.f # f, NEW k
    PROVE  (Holds(f, k) <=> Running(f)) /\ ~Idles(f, k) /\ ~At(f, {"set_feed"})
BY DEF Holds, Idles, At

(* Every entry of a running filter has a feed that filters and is listed. *)
LEMMA Going ==
    ASSUME IInv, Owned, NEW f \in Filter, op.f # f, Running(f), NEW k \in 1 .. Len(flt[f].pids)
    PROVE  \E i \in 1 .. Len(feed_list) :
             LET d == flt[f].pids[k].ts IN
             /\ feed_list[i] = d /\ d \in Feed /\ feed[d].filtering /\ feed[d].priv = f
             /\ feed[d].pid = flt[f].pids[k].pid /\ feed[d].output = flt[f].par.output
<1> DEFINE d == flt[f].pids[k].ts
<1>1. Fits(f, k)
  BY Undisturbed DEF Owned, Mine
<1>2. /\ d \in Feed /\ feed[d].filtering /\ feed[d].priv = f /\ feed[d].state = "GO"
      /\ feed[d].pid = flt[f].pids[k].pid /\ feed[d].output = flt[f].par.output
  BY <1>1, Undisturbed DEF Fits
<1>3. PICK i \in 1 .. Len(feed_list) : feed_list[i] = d
  BY <1>2 DEF IInv, FeedListSound, Places
<1> QED
  BY <1>2, <1>3

LEMMA Least == ASSUME NEW S \in SUBSET Nat, S # {} PROVE \E x \in S : \A y \in S : x <= y
<1>1. PICK x \in S : \A y \in S : ~ (<<y, x>> \in OpToRel(<, Nat))
  BY WFMin, NatLessThanWellFounded
<1>2. ASSUME NEW y \in S PROVE x <= y
  <2>1. ~(<<y, x>> \in {ss \in Nat \X Nat : ss[1] < ss[2]})
    BY <1>1 DEF OpToRel
  <2> QED
    BY <2>1
<1> QED
  BY <1>2

(* Counting the places of a list that have a property. *)
LEMMA Places1 ==
    ASSUME NEW n \in Nat, NEW S \in SUBSET (1 .. n)
    PROVE  /\ IsFiniteSet(S) /\ Cardinality(S) \in Nat
           /\ (S # {} <=> Cardinality(S) > 0)
           /\ (\A i, j \in S : ~(i < j)) => Cardinality(S) <= 1
<1>1. IsFiniteSet(S) /\ Cardinality(S) \in Nat
  <2>1. IsFiniteSet(1 .. n)
    BY FS_Interval
  <2>2. IsFiniteSet(S)
    BY <2>1, FS_Subset
  <2> QED
    BY <2>2, FS_CardinalityType
<1>2. Cardinality(S) = 0 <=> S = {}
  BY <1>1, FS_EmptySet
<1>3. ASSUME \A i, j \in S : ~(i < j) PROVE Cardinality(S) <= 1
  <2>1. CASE S = {}
    BY <1>2, <2>1
  <2>2. ASSUME NEW i \in S PROVE Cardinality(S) = 1
    <3>1. \A j \in S : j = i
      BY <1>3
    <3>2. S = {i}
      BY <3>1
    <3> QED
      BY <3>2, FS_Singleton
  <2> QED
    BY <2>1, <2>2
<1>4. S # {} <=> Cardinality(S) > 0
  <2>1. PICK c \in Nat : Cardinality(S) = c
    BY <1>1
  <2>2. c = 0 <=> S = {}
    BY <1>2, <2>1
  <2>3. c = 0 <=> ~(c > 0)
    OBVIOUS
  <2> QED
    BY <2>1, <2>2, <2>3
<1> QED
  BY <1>1, <1>3, <1>4

-----------------------------------------------------------------------------
LEMMA IdleLeaks == ASSUME IInv, Owned PROVE NothingLeaks
<1> SUFFICES ASSUME op.pc = "idle", NEW d \in Feed, feed[d].state # "FREE"
             PROVE  {f \in Filter : Running(f) /\ \E i \in 1 .. Len(flt[f].pids) :
                                                     flt[f].pids[i].ts = d} = {feed[d].priv}
  BY DEF NothingLeaks
<1>1. op.f = None
  BY DEF Owned, CallInv
<1>2. PICK g \in Filter :
        feed[d].priv = g /\ \E i \in 1 .. Len(flt[g].pids) : Holds(g, i) /\ flt[g].pids[i].ts = d
  BY DEF Owned, Claimed
<1>3. Running(g) /\ \E i \in 1 .. Len(flt[g].pids) : flt[g].pids[i].ts = d
  BY <1>1, <1>2, NotNone, Undisturbed
<1>4. ASSUME NEW f \in Filter, Running(f), NEW i \in 1 .. Len(flt[f].pids), flt[f].pids[i].ts = d
      PROVE  f = g
  <2>1. Fits(f, i)
    BY <1>1, <1>4, NotNone, Undisturbed DEF Owned, Mine
  <2> QED
    BY <1>2, <1>4, <2>1 DEF Fits
<1> QED
  BY <1>2, <1>3, <1>4

LEMMA OnlyOnce == ASSUME IInv, Owned, Whole \notin Pids PROVE DvrOnce
<1> SUFFICES ASSUME NEW p \in Packets PROVE Copies(p, Dvr) <= 1
  BY DEF DvrOnce
<1> DEFINE n == Len(feed_list)
           S == {i \in 1 .. n : Served(p, i) /\ Reaches(feed_list[i], Dvr)}
<1>1. n \in Nat
  BY LenProperties DEF IInv, TypeOK
<1>2. ASSUME NEW i \in S PROVE DvrFeed(feed_list[i]) /\ Wants(p, i)
  <2>1. i \in 1 .. n /\ Served(p, i) /\ Reaches(feed_list[i], Dvr)
    OBVIOUS
  <2>2. PICK f \in Filter : \E k \in 1 .. Len(flt[f].pids) :
          /\ Holds(f, k) /\ Fits(f, k)
          /\ flt[f].pids[k].ts = feed_list[i] /\ feed[feed_list[i]].priv = f
    BY <2>1, Listed
  <2>3. PICK k \in 1 .. Len(flt[f].pids) :
          /\ Holds(f, k) /\ Fits(f, k)
          /\ flt[f].pids[k].ts = feed_list[i] /\ feed[feed_list[i]].priv = f
    BY <2>2
  <2>4. flt[f].par.output = "ts_tap"
    BY <2>1, <2>3, NotNone DEF Reaches, Dvr, None
  <2>5. feed[feed_list[i]].pid # Whole
    <3>1. feed[feed_list[i]].pid \in Pids \cup {NoPid}
      BY <2>1, Listed DEF FeedType
    <3> QED
      BY <3>1 DEF Whole, NoPid
  <2>6. feed[feed_list[i]].filtering /\ Wants(p, i)
    BY <2>1, <2>5 DEF Served
  <2>7. ~Idles(f, k) /\ ~(At(f, {"set_feed"}) /\ k = op.i)
    BY <2>3, <2>6 DEF Fits, Idles, At
  <2>8. feed[feed_list[i]].output = "ts_tap"
    BY <2>3, <2>4, <2>7 DEF Fits
  <2> QED
    BY <2>6, <2>8 DEF DvrFeed
<1>3. ASSUME NEW i \in S, NEW j \in S, i < j PROVE FALSE
  <2>1. i \in 1 .. j - 1
    BY <1>1, <1>3
  <2>2. Skipped(p, j)
    BY <1>2, <2>1 DEF Skipped
  <2> QED
    BY <2>2 DEF Served
<1>4. Cardinality(S) <= 1
  <2> HIDE DEF S
  <2>1. S \in SUBSET (1 .. n)
    BY DEF S
  <2> QED
    BY <1>1, <1>3, <2>1, Places1
<1> QED
  BY <1>4 DEF Copies

LEMMA KeepsServed == ASSUME IInv, Owned PROVE DvrServed
<1> SUFFICES ASSUME NEW f \in Filter, Running(f), IsDvr(f), op.f # f, NEW p \in Packets,
                    Asked(f, p) > 0
             PROVE  Copies(p, Dvr) > 0
  BY DEF DvrServed
<1> DEFINE n == Len(feed_list)
           K == {i \in 1 .. Len(flt[f].pids) : flt[f].pids[i].pid \in {p, Whole}}
           D == {i \in 1 .. n : Wants(p, i) /\ DvrFeed(feed_list[i])}
           S == {i \in 1 .. n : Served(p, i) /\ Reaches(feed_list[i], Dvr)}
<1>1. n \in Nat /\ Len(flt[f].pids) \in Nat
  <2>1. flt[f].pids \in Seq(EntryType) /\ feed_list \in Seq(Feed)
    BY DEF IInv, TypeOK, SlotType
  <2> QED
    BY <2>1, LenProperties
<1>2. PICK k \in 1 .. Len(flt[f].pids) : flt[f].pids[k].pid \in {p, Whole}
  <2>1. Cardinality(K) > 0 /\ K \in SUBSET (1 .. Len(flt[f].pids))
    BY DEF Asked
  <2> HIDE DEF K
  <2>2. K # {}
    BY <1>1, <2>1, Places1
  <2> QED
    BY <2>2 DEF K
<1>3. PICK i \in 1 .. n :
        LET d == flt[f].pids[k].ts IN
        /\ feed_list[i] = d /\ d \in Feed /\ feed[d].filtering /\ feed[d].priv = f
        /\ feed[d].pid = flt[f].pids[k].pid /\ feed[d].output = flt[f].par.output
  BY Going
<1>4. i \in D
  BY <1>2, <1>3 DEF Wants, DvrFeed, IsDvr
<1>5. PICK m \in D : \A j \in D : m <= j
  <2>1. D \in SUBSET Nat /\ D # {}
    BY <1>1, <1>4
  <2> HIDE DEF D
  <2> QED
    BY <2>1, Least
<1>6. m \in 1 .. n /\ Wants(p, m) /\ DvrFeed(feed_list[m])
  OBVIOUS
<1>7. ~Skipped(p, m)
  <2>1. ASSUME NEW j \in 1 .. m - 1, Wants(p, j), DvrFeed(feed_list[j]) PROVE FALSE
    <3>1. j \in D /\ ~(m <= j)
      BY <1>1, <1>6, <2>1
    <3> QED
      BY <1>5, <3>1
  <2> QED
    BY <2>1 DEF Skipped
<1>8. Served(p, m)
  BY <1>6, <1>7 DEF Served, DvrFeed
<1>9. Reaches(feed_list[m], Dvr)
  <2>1. PICK g \in Filter : \E l \in 1 .. Len(flt[g].pids) :
          /\ Holds(g, l) /\ Fits(g, l)
          /\ flt[g].pids[l].ts = feed_list[m] /\ feed[feed_list[m]].priv = g
    BY <1>6, Listed
  <2>2. PICK l \in 1 .. Len(flt[g].pids) :
          /\ Holds(g, l) /\ Fits(g, l)
          /\ flt[g].pids[l].ts = feed_list[m] /\ feed[feed_list[m]].priv = g
    BY <2>1
  <2>3. ~Idles(g, l) /\ ~(At(g, {"set_feed"}) /\ l = op.i)
    BY <1>6, <2>2 DEF DvrFeed, Fits, Idles, At
  <2> QED
    BY <1>6, <2>2, <2>3 DEF DvrFeed, Fits, Reaches
<1>10. S \in SUBSET (1 .. n) /\ S # {}
  BY <1>6, <1>8, <1>9
<1>11. Cardinality(S) > 0
  <2> HIDE DEF S
  <2> QED
    BY <1>1, <1>10, Places1
<1> QED
  BY <1>11 DEF Copies

(* A running tap's entries and the places where it is served are paired. *)
LEMMA OneEach == ASSUME IInv, Owned PROVE TapGetsWhatItAsked
<1> SUFFICES ASSUME NEW f \in Filter, NEW p \in Packets, op.f # f
             PROVE  Copies(p, f) = IF Running(f) /\ flt[f].par.output \in {"tap", "tsdemux_tap"}
                                   THEN Asked(f, p) ELSE 0
  BY DEF TapGetsWhatItAsked
<1> DEFINE n == Len(feed_list)
           out == flt[f].par.output
           K == {k \in 1 .. Len(flt[f].pids) : flt[f].pids[k].pid \in {p, Whole}}
           S == {i \in 1 .. n : Served(p, i) /\ Reaches(feed_list[i], f)}
<1>1. n \in Nat /\ Len(flt[f].pids) \in Nat
  <2>1. flt[f].pids \in Seq(EntryType) /\ feed_list \in Seq(Feed)
    BY DEF IInv, TypeOK, SlotType
  <2> QED
    BY <2>1, LenProperties
<1>2. ASSUME NEW i \in S
      PROVE  /\ Running(f) /\ out \in {"tap", "tsdemux_tap"}
             /\ \E k \in K : flt[f].pids[k].ts = feed_list[i]
  <2>1. i \in 1 .. n /\ Served(p, i) /\ Reaches(feed_list[i], f)
    OBVIOUS
  <2>2. PICK g \in Filter : \E k \in 1 .. Len(flt[g].pids) :
          /\ Holds(g, k) /\ Fits(g, k)
          /\ flt[g].pids[k].ts = feed_list[i] /\ feed[feed_list[i]].priv = g
    BY <2>1, Listed
  <2>3. g = f /\ out \in {"tap", "tsdemux_tap"}
    BY <2>1, <2>2, NotNone DEF Reaches, Dvr, None
  <2>4. PICK k \in 1 .. Len(flt[f].pids) :
          Holds(f, k) /\ Fits(f, k) /\ flt[f].pids[k].ts = feed_list[i]
    BY <2>2, <2>3
  <2>5. Running(f) /\ flt[f].pids[k].pid = feed[feed_list[i]].pid
    BY <2>4, Undisturbed DEF Fits
  <2>6. k \in K
    BY <2>1, <2>5 DEF Served, Wants
  <2> QED
    BY <2>3, <2>4, <2>5, <2>6
<1>3. CASE ~(Running(f) /\ out \in {"tap", "tsdemux_tap"})
  <2>1. S = {}
    BY <1>2, <1>3
  <2> HIDE DEF S
  <2>2. Cardinality(S) = 0
    BY <2>1, FS_EmptySet
  <2> QED
    BY <1>3, <2>2 DEF Copies, S
<1>4. CASE Running(f) /\ out \in {"tap", "tsdemux_tap"}
  <2>1. ASSUME NEW k \in K PROVE \E i \in S : feed_list[i] = flt[f].pids[k].ts
    <3>1. PICK i \in 1 .. n :
            LET d == flt[f].pids[k].ts IN
            /\ feed_list[i] = d /\ d \in Feed /\ feed[d].filtering /\ feed[d].priv = f
            /\ feed[d].pid = flt[f].pids[k].pid /\ feed[d].output = flt[f].par.output
      BY <1>4, Going
    <3>2. Wants(p, i) /\ ~Skipped(p, i)
      BY <1>4, <3>1 DEF Wants, Skipped, DvrFeed
    <3>3. Served(p, i) /\ Reaches(feed_list[i], f)
      BY <1>4, <3>1, <3>2 DEF Served, Reaches
    <3> QED
      BY <3>1, <3>3
  <2>2. \A i, j \in 1 .. n : feed_list[i] = feed_list[j] => i = j
    BY DEF IInv, FeedListSound
  <2>3. \A k, l \in K : flt[f].pids[k].ts = flt[f].pids[l].ts => k = l
    BY <1>4, Undisturbed DEF Owned, Mine
  <2>4. K \in SUBSET (1 .. Len(flt[f].pids)) /\ S \in SUBSET (1 .. n)
    OBVIOUS
  <2>5. \A i \in S : \E k \in K : flt[f].pids[k].ts = feed_list[i]
    BY <1>2
  <2> DEFINE pair == [k \in K |-> CHOOSE i \in S : feed_list[i] = flt[f].pids[k].ts]
  <2> HIDE DEF K, S
  <2>6. \A k \in K : pair[k] \in S /\ feed_list[pair[k]] = flt[f].pids[k].ts
    BY <2>1
  <2>7. pair \in [K -> S]
    BY <2>6
  <2> HIDE DEF pair
  <2>8. \A k, l \in K : pair[k] = pair[l] => k = l
    BY <2>3, <2>6
  <2>9. ASSUME NEW i \in S PROVE \E k \in K : pair[k] = i
    <3>1. PICK k \in K : flt[f].pids[k].ts = feed_list[i]
      BY <2>5
    <3>2. pair[k] \in 1 .. n /\ i \in 1 .. n /\ feed_list[pair[k]] = feed_list[i]
      BY <2>4, <2>6, <3>1
    <3> QED
      BY <2>2, <3>2
  <2>10. ExistsBijection(K, S)
    BY <2>7, <2>8, <2>9 DEF ExistsBijection, Bijection, Injection, Surjection, IsInjective
  <2>11. Cardinality(S) = Cardinality(K)
    BY <1>1, <2>4, <2>10, Places1, FS_Bijection
  <2> QED
    BY <1>4, <2>11 DEF Copies, Asked, K, S
<1> QED
  BY <1>3, <1>4

-----------------------------------------------------------------------------
(* When no demux call fails. *)

(* The bound of the runs is kept. *)
Short == \A f \in Filter : Len(flt[f].pids) <= MaxPids

LEMMA InitShort == ASSUME Init PROVE Short
<1>1. \A f \in Filter : flt[f].pids = <<>>
  BY DEF Init, FreeSlot
<1>2. Len(<<>>) = 0
  OBVIOUS
<1> QED
  BY <1>1, <1>2, PesAssumption DEF Short

LEMMA StepShort == ASSUME IInv, Short, [Next]_vars PROVE Short'
<1>0. TypeOK /\ flt \in [Filter -> SlotType] /\ MaxPids \in Nat \ {0}
  BY PesAssumption DEF IInv, TypeOK
<1>1. ASSUME NEW f \in Filter, NEW r, flt' = [flt EXCEPT ![f] = r], Len(r.pids) <= MaxPids
      PROVE  Short'
  BY <1>0, <1>1 DEF Short
<1>2. Len(<<>>) <= MaxPids
  <2>1. Len(<<>>) = 0
    OBVIOUS
  <2> QED
    BY <1>0, <2>1
<1>3. CASE UNCHANGED flt
  BY <1>3 DEF Short
<1>4. ASSUME NEW f \in Filter, NEW s, flt' = [flt EXCEPT ![f].state = s] PROVE Short'
  <2>1. [flt[f] EXCEPT !.state = s].pids = flt[f].pids
    BY <1>0 DEF SlotType
  <2> QED
    BY <1>1, <1>4, <2>1 DEF Short
<1>5. ASSUME NEW f \in Filter, NEW s, flt' = [flt EXCEPT ![f].state = s, ![f].pids = <<>>]
      PROVE  Short'
  <2>1. flt' = [flt EXCEPT ![f] = [flt[f] EXCEPT !.state = s, !.pids = <<>>]]
    BY <1>0, <1>5
  <2>2. [flt[f] EXCEPT !.state = s, !.pids = <<>>].pids = <<>>
    BY <1>0 DEF SlotType
  <2> QED
    BY <1>1, <1>2, <2>1, <2>2, Zenon
<1>6. ASSUME NEW f \in Filter, NEW c, flt' = [flt EXCEPT ![f].pids = c], Len(c) <= MaxPids
      PROVE  Short'
  <2>1. [flt[f] EXCEPT !.pids = c].pids = c
    BY <1>0 DEF SlotType
  <2> QED
    BY <1>1, <1>6, <2>1
<1>7. op.pc # "idle" => op.f \in Filter
  BY DEF IInv, OpInv
<1>8. CASE PesFilterSet
  <2> DEFINE e == [pid |-> op.ask.pid, ts |-> None]
  <2>1. PICK c : /\ c = <<e>> \/ c = <<>>
                 /\ flt' = [flt EXCEPT ![op.f] = [state |-> "SET", par |-> op.ask, pids |-> c]]
    BY <1>8 DEF PesFilterSet
  <2>2. op.f \in Filter
    BY <1>7, <1>8 DEF PesFilterSet
  <2>3. Len(c) <= MaxPids
    <3> HIDE DEF e
    <3>1. Len(<<e>>) = 1
      OBVIOUS
    <3>2. Len(<<e>>) <= MaxPids
      BY <1>0, <3>1
    <3> QED
      BY <1>2, <2>1, <3>2
  <2>4. [state |-> "SET", par |-> op.ask, pids |-> c].pids = c
    OBVIOUS
  <2> QED
    BY <1>1, <2>1, <2>2, <2>3, <2>4
<1>9. CASE ReleaseEntry \/ AllocFeed \/ AllocFails
  <2>1. op.f \in Filter /\ AtEntry
    BY <1>7, <1>9 DEF ReleaseEntry, AllocFeed, AllocFails
  <2>2. PICK d \in Feed \cup {None} : PointTo(d)
    BY <1>9 DEF ReleaseEntry, AllocFeed, AllocFails
  <2>3. Len(flt'[op.f].pids) = Len(flt[op.f].pids)
    BY <1>0, <2>1, <2>2, PointToFacts
  <2>4. \A g \in Filter \ {op.f} : flt'[g] = flt[g]
    BY <1>0, <2>2 DEF PointTo
  <2>5. \A g \in Filter : Len(flt'[g].pids) = Len(flt[g].pids)
    BY <2>3, <2>4
  <2> QED
    BY <2>5 DEF Short
<1>10. CASE DropEntry
  <2> DEFINE f == op.f
             c == flt[f].pids
  <2>1. f \in Filter /\ flt' = [flt EXCEPT ![f].pids = RemoveAt(c, op.i)]
    BY <1>7, <1>10 DEF DropEntry
  <2>2. c \in Seq(EntryType) /\ op.i \in 1 .. Len(c)
    <3>1. op.pc = "drop" /\ AtEntry /\ op.i \in Nat \ {0}
      BY <1>10 DEF DropEntry, IInv, OpInv, TypeOK, OpType
    <3>2. c \in Seq(EntryType)
      BY <1>0, <2>1 DEF SlotType
    <3> QED
      BY <3>1, <3>2, LenProperties DEF AtEntry
  <2>3. Len(RemoveAt(c, op.i)) = Len(c) - 1 /\ Len(c) \in Nat
    BY <2>2, RemoveAtFacts, LenProperties
  <2>4. Len(RemoveAt(c, op.i)) <= MaxPids
    BY <1>0, <2>1, <2>3 DEF Short
  <2> QED
    BY <1>6, <2>1, <2>4
<1>11. ASSUME NEW f \in Filter, NEW p \in Pids, AddPid(f, p) PROVE Short'
  <2> DEFINE e == [pid |-> p, ts |-> None]
             c == flt[f].pids
  <2>1. Len(c) < MaxPids /\ flt' = [flt EXCEPT ![f].pids = <<e>> \o c]
    BY <1>11 DEF AddPid
  <2>2. c \in Seq(EntryType) /\ e \in EntryType
    BY <1>0 DEF SlotType, EntryType
  <2>3. Len(<<e>> \o c) = 1 + Len(c) /\ Len(c) \in Nat
    BY <2>2, ConcatProperties, LenProperties
  <2>4. Len(<<e>> \o c) <= MaxPids
    BY <1>0, <2>1, <2>3
  <2> QED
    BY <1>6, <2>1, <2>4
<1>12. CASE StopFilter \/ Go
  BY <1>4, <1>7, <1>12 DEF StopFilter, Go
<1>13. CASE PesFilterRefused \/ FilterFree
  BY <1>5, <1>7, <1>13 DEF PesFilterRefused, FilterFree
<1>14. CASE Open
  BY <1>4, <1>14 DEF Open, First
<1>15. CASE \E f \in Filter : \/ SetPesFilter(f) \/ Start(f) \/ Stop(f) \/ Close(f)
                              \/ \E p \in Pids : RemovePid(f, p)
  BY <1>3, <1>15 DEF SetPesFilter, Start, Stop, Close, Call, RemovePid
<1>16. CASE \/ StopNothing \/ HaltFeed \/ FeedsHalted \/ FeedsReleased \/ StartFilter
            \/ SetFeed \/ SetFails \/ RunFeed \/ RunFails \/ KeepEntry \/ HaltEntry \/ RemoveEnds
  BY <1>3, <1>16 DEF StopNothing, HaltFeed, FeedsHalted, FeedsReleased, StartFilter, SetFeed,
     SetFails, RunFeed, RunFails, KeepEntry, HaltEntry, RemoveEnds
<1> QED
  BY <1>3, <1>8, <1>9, <1>10, <1>11, <1>12, <1>13, <1>14, <1>15, <1>16 DEF Next, OpStep, vars

(* The entry a feed is allocated for holds none, the others one each at most. *)
LEMMA OneIsFree ==
    ASSUME IInv, Owned, Short, NumFilters * MaxPids <= NumFeeds, op.pc = "alloc", AtEntry
    PROVE  FreeFeeds # {}
<1> SUFFICES ASSUME FreeFeeds = {} PROVE FALSE
  OBVIOUS
<1> DEFINE All == Filter \X (1 .. MaxPids)
           me == <<op.f, op.i>>
           E == All \ {me}
           Has(e, d) == flt[e[1]].pids[e[2]].ts = d
           own == [d \in Feed |-> CHOOSE e \in E : Has(e, d)]
<1>1. MaxPids \in Nat \ {0} /\ NumFilters \in Nat \ {0} /\ NumFeeds \in Nat \ {0}
  BY PesAssumption
<1>2. me \in All
  <2>1. op.f \in Filter /\ op.i \in Nat \ {0} /\ op.i <= Len(flt[op.f].pids)
    BY DEF IInv, OpInv, TypeOK, OpType, AtEntry
  <2>2. Len(flt[op.f].pids) <= MaxPids /\ Len(flt[op.f].pids) \in Nat
    BY <2>1 DEF Short, IInv, TypeOK, SlotType
  <2> QED
    BY <1>1, <2>1, <2>2
<1>3. ASSUME NEW d \in Feed PROVE \E e \in E : Has(e, d)
  <2>1. feed[d].state # "FREE"
    BY DEF FreeFeeds
  <2>2. PICK f \in Filter : \E i \in 1 .. Len(flt[f].pids) : Holds(f, i) /\ flt[f].pids[i].ts = d
    BY <2>1 DEF Owned, Claimed
  <2> PICK i \in 1 .. Len(flt[f].pids) : Holds(f, i) /\ flt[f].pids[i].ts = d
    BY <2>2
  <2>3. i \in 1 .. MaxPids
    <3>1. Len(flt[f].pids) <= MaxPids /\ Len(flt[f].pids) \in Nat
      BY DEF Short, IInv, TypeOK, SlotType
    <3> QED
      BY <1>1, <3>1
  <2>4. <<f, i>> # me
    <3> SUFFICES ASSUME f = op.f, i = op.i PROVE FALSE
      OBVIOUS
    <3> QED
      BY DEF Holds, At
  <2>5. <<f, i>> \in E /\ Has(<<f, i>>, d)
    BY <2>3, <2>4
  <2> QED
    BY <2>5
<1>4. own \in Injection(Feed, E)
  <2>1. \A d \in Feed : own[d] \in E /\ Has(own[d], d)
    BY <1>3
  <2> HIDE DEF own, E
  <2>2. own \in [Feed -> E]
    BY <2>1 DEF own
  <2>3. \A d, e \in Feed : own[d] = own[e] => d = e
    BY <2>1
  <2> QED
    BY <2>2, <2>3 DEF Injection, IsInjective
<1>5. /\ IsFiniteSet(Feed) /\ Cardinality(Feed) = NumFeeds
      /\ IsFiniteSet(Filter) /\ Cardinality(Filter) = NumFilters
      /\ IsFiniteSet(1 .. MaxPids) /\ Cardinality(1 .. MaxPids) = MaxPids
  BY <1>1, FS_Interval DEF Feed, Filter
<1>6. IsFiniteSet(All) /\ Cardinality(All) = NumFilters * MaxPids
  BY <1>5, FS_Product
<1>7. IsFiniteSet(E) /\ Cardinality(E) = NumFilters * MaxPids - 1
  <2> HIDE DEF All, me
  <2> QED
    BY <1>2, <1>6, FS_RemoveElement
<1>8. Cardinality(Feed) <= Cardinality(E)
  <2> HIDE DEF own, E
  <2> QED
    BY <1>4, <1>7, FS_Injection
<1>9. NumFilters * MaxPids \in Nat
  BY <1>1
<1> DEFINE n == NumFilters * MaxPids
<1>10. n \in Nat /\ n <= NumFeeds /\ NumFeeds <= n - 1
  BY <1>5, <1>7, <1>8, <1>9
<1> HIDE DEF n
<1> QED
  BY <1>1, <1>10

(* What the theorems below ask for holds where PID lists are not edited, and where they
   are if the driver's calls succeed, no decoder is asked for, and there is a feed for
   each PID of each descriptor. *)
THEOREM FeedsForAll ==
    ASSUME \/ ~Edits
           \/ ~Failing /\ PesTypes \cap Decoders = {} /\ NumFilters * MaxPids <= NumFeeds
    PROVE  Spec => Reliable
<1>1. CASE ~Edits
  <2>1. [Next]_vars => [Edits => ~FeedFails]_vars
    BY <1>1
  <2> QED
    BY <2>1, PTL DEF Spec, Reliable
<1>2. CASE Edits
  <2>1. ASSUME IInv, Owned, Short PROVE ~FeedFails
    <3>1. ~Failing /\ PesTypes \cap Decoders = {} /\ NumFilters * MaxPids <= NumFeeds
      BY <1>2
    <3>2. ~AllocFails
      BY <2>1, <3>1, OneIsFree DEF AllocFails
    <3>3. ASSUME op.pc = "set_feed" PROVE ~Busy(flt[op.f].par.type)
      <4>1. op.f \in Filter
        BY <2>1, <3>3 DEF IInv, OpInv
      <4>2. flt[op.f].par.type \in PesTypes \cup {"other"}
        BY <2>1, <4>1 DEF IInv, TypeOK, SlotType, Request, NoRequest
      <4>3. "other" \notin Decoders
        BY DEF Decoders
      <4> QED
        BY <3>1, <4>2, <4>3 DEF Busy
    <3> QED
      BY <3>1, <3>2, <3>3 DEF FeedFails, SetFails, RunFails
  <2> DEFINE Inv == IInv /\ Owned /\ Short
  <2>2. Init => Inv
    BY InitIInv, InitOwned, InitShort
  <2>3. Inv /\ [Next]_vars => Inv'
    BY <2>1, StepIInv, StepOwned, StepShort
  <2>4. Inv /\ [Next]_vars => [Edits => ~FeedFails]_vars
    BY <2>1
  <2> QED
    BY <2>2, <2>3, <2>4, PTL DEF Spec, Reliable
<1> QED
  BY <1>1, <1>2

-----------------------------------------------------------------------------
(* However calls fail for filters of one PID, and as long as no demux call fails
   for those whose PIDs are edited, filter_stop never follows a NULL feed. *)
THEOREM NullNeverFollowed == Spec /\ Reliable => []NoOops
<1>1. IInv /\ Owned => NoOops
  BY DEF Owned, CallInv, NoOops
<1> QED
  BY <1>1, Ownership, PTL

(* Under the same condition every feed in use between two calls is that of a PID
   of the running filter it calls back to: start_feed's error paths, filter_stop
   and remove_pid give back every other one. *)
THEOREM NoFeedIsLeftOver == Spec /\ Reliable => []NothingLeaks
<1>1. IInv /\ Owned => NothingLeaks
  BY IdleLeaks
<1> QED
  BY <1>1, Ownership, PTL

(* At any moment, in the middle of any call, the DVR device gets a packet at most
   once, if nobody asks for the whole stream. *)
THEOREM DvrGetsItOnce ==
    ASSUME Whole \notin Pids PROVE Spec /\ Reliable => []DvrOnce
<1>1. IInv /\ Owned => DvrOnce
  BY OnlyOnce
<1> QED
  BY <1>1, Ownership, PTL

(* It gets it at least once while a filter for it runs on the PID, whatever is
   done to the others at that moment, with the whole stream asked for or not. *)
THEOREM DvrGetsIt == Spec /\ Reliable => []DvrServed
<1>1. IInv /\ Owned => DvrServed
  BY KeepsServed
<1> QED
  BY <1>1, Ownership, PTL

(* A running tap gets a packet once for each of its PIDs that asks for it,
   whatever calls on other descriptors are in progress, and a filter that does
   not run gets none. *)
THEOREM TapsGetTheirOwn == Spec /\ Reliable => []TapGetsWhatItAsked
<1>1. IInv /\ Owned => TapGetsWhatItAsked
  BY OneEach
<1> QED
  BY <1>1, Ownership, PTL
=============================================================================
