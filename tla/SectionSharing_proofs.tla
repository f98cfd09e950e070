-------------------------- MODULE SectionSharing_proofs --------------------------
(***************************************************************************)
(* Proofs about the sharing of feeds in SectionFilters, for every number   *)
(* of slots, feeds and section filters and with failing demux calls, where *)
(* del_timer waits for a handler that has begun (~LateTimer; without it    *)
(* the run filters_late_timer shows a call that oopses): no call follows a *)
(* NULL feed or runs off a chain, closed slots are free, and filters share *)
(* a feed exactly when they have the same PID.                             *)
(*                                                                         *)
(* These hold because of who holds what in the middle of a call.  SlotInv  *)
(* says what a call in progress may rely on about its own slot, HeldInv    *)
(* who holds which feed, LinkInv who has a section filter in which chain.  *)
(*                                                                         *)
(* Until a demux call fails that had what it needed, running filters are   *)
(* served, nothing leaks and buffers hold sections of their PID.  Served   *)
(* is that for the middle of a call: whose the feeds and section filters   *)
(* are, which feed stands still, and which filter has sections unread.     *)
(***************************************************************************)
EXTENDS SectionFilters_proofs, WellFoundedInduction

(* In the middle of an ioctl its own filter is stopped; only a running filter,
   or the one about to run, has a timer. *)
SlotInv ==
    /\ ClosedSlotsAreFree
    /\ op.pc # "idle" => op.f \in opened
    /\ op.pc \notin {"idle", "stop", "go"} => ~Running(op.f)
    /\ \A f \in Filter :
          timer[f].armed \/ timer[f].late => Running(f) \/ (op.pc = "go" /\ op.f = f)

(* Running filters hold their feed, and so does the one of the call in progress
   from when it has a feed until the feed is given back. *)
Holds(f) ==
    \/ Running(f)
    \/ op.f = f /\ op.pc \in {"halt", "release", "restart", "pause", "link", "run", "arm", "go"}

(* A feed that is held is allocated, and held for one PID, which has no other. *)
HeldInv ==
    /\ \A f \in Filter : Holds(f) =>
         flt[f].section /\ flt[f].feed \in Feed /\ feed[flt[f].feed].state # "FREE"
    /\ \A f, g \in Filter : Holds(f) /\ Holds(g) =>
         (flt[f].feed = flt[g].feed <=> flt[f].par.pid = flt[g].par.pid)

(* A feed is allocated for a PID nobody is active on, and restarted for somebody. *)
CallInv ==
    /\ op.pc = "alloc" => flt[op.f].section /\ Active(flt[op.f].par.pid) = {}
    /\ op.pc = "restarting" => op.g \in Filter /\ Running(op.g)

(* While it may be delivered to, or is being stopped, a filter has a section
   filter of its own in the chain of its feed. *)
Linked(f) == Running(f) \/ (op.f = f /\ op.pc \in {"halt", "release", "run", "arm", "go"})

LinkInv ==
    \A f \in Filter : Linked(f) =>
        /\ flt[f].sec \in Sec /\ InChain(flt[f].sec, flt[f].feed)
        /\ sec[flt[f].sec].state = "READY"
        /\ sec[flt[f].sec].feed = flt[f].feed
        /\ sec[flt[f].sec].priv = f

ShareInv == TypeOK /\ NoOops /\ SlotInv /\ HeldInv /\ CallInv /\ LinkInv

-----------------------------------------------------------------------------
LEMMA Smallest ==
    ASSUME NEW S \in SUBSET Nat, S # {}
    PROVE  \E i \in S : \A j \in S : i <= j
<1> DEFINE R == OpToRel(<, Nat)
<1>1. IsWellFoundedOn(R, Nat)
  BY NatLessThanWellFounded, Zenon
<1>2. \A i, j \in Nat : i < j => <<i, j>> \in R
  BY DEF OpToRel
<1> HIDE DEF R
<1>3. PICK i \in S : \A j \in S : ~ (<<j, i>> \in R)
  BY <1>1, WFMin
<1>4. ASSUME NEW j \in S PROVE i <= j
  <2>1. i \in Nat /\ j \in Nat
    OBVIOUS
  <2>2. ~ (j < i)
    BY <1>2, <1>3, <2>1, Zenon
  <2> QED
    BY <2>1, <2>2
<1> QED
  BY <1>4

(* The scan of dvb_dmxdev_feed_start for a feed to share misses none. *)
LEMMA NoPeerNobodyActive ==
    ASSUME TypeOK, HeldInv, NEW f \in Filter, ~Running(f), PeerOf(f) = {}
    PROVE  Active(flt[f].par.pid) = {}
<1> SUFFICES ASSUME Active(flt[f].par.pid) # {} PROVE FALSE
  OBVIOUS
<1> DEFINE S == Active(flt[f].par.pid)
<1>1. S \in SUBSET Nat
  BY DEF Active, Filter
<1>2. PICK g \in S : \A h \in S : g <= h
  BY <1>1, Smallest
<1>3. g \in Filter /\ Running(g)
  BY DEF Active
<1>4. flt[g].feed # None
  BY <1>3 DEF HeldInv, Holds, Feed, None
<1>5. First(g, S)
  BY <1>2 DEF First
<1> HIDE DEF S
<1>6. g # f
  BY <1>3
<1> QED
  BY <1>3, <1>4, <1>5, <1>6 DEF PeerOf, S

(* What a step leaves a slot as far as sharing goes. *)
Kept(f) ==
    /\ flt'[f].feed = flt[f].feed /\ flt'[f].par = flt[f].par /\ flt'[f].sec = flt[f].sec
    /\ flt'[f].section <=> flt[f].section

(* A step after which nobody new holds a feed, and no feed that is held is released. *)
LEMMA HeldFrame ==
    ASSUME HeldInv,
           \A f \in Filter : Holds(f)' =>
              Holds(f) /\ Kept(f) /\ feed'[flt[f].feed].state # "FREE"
    PROVE  HeldInv'
<1>1. ASSUME NEW f \in Filter, Holds(f)'
      PROVE  flt'[f].section /\ flt'[f].feed \in Feed /\ feed'[flt'[f].feed].state # "FREE"
  BY <1>1 DEF HeldInv, Kept
<1>2. ASSUME NEW f \in Filter, NEW g \in Filter, Holds(f)', Holds(g)'
      PROVE  flt'[f].feed = flt'[g].feed <=> flt'[f].par.pid = flt'[g].par.pid
  BY <1>2 DEF HeldInv, Kept
<1> QED
  BY <1>1, <1>2 DEF HeldInv

(* A step after which nobody new is linked, and every chain keeps who is linked. *)
LEMMA LinkFrame ==
    ASSUME LinkInv,
           \A f \in Filter : Linked(f)' =>
              /\ Linked(f) /\ Kept(f) /\ sec'[flt[f].sec] = sec[flt[f].sec]
              /\ InChain(flt[f].sec, flt[f].feed) => InChain(flt[f].sec, flt[f].feed)'
    PROVE  LinkInv'
<1> SUFFICES ASSUME NEW f \in Filter, Linked(f)'
             PROVE  /\ flt'[f].sec \in Sec /\ InChain(flt[f].sec, flt[f].feed)'
                    /\ sec'[flt'[f].sec].state = "READY"
                    /\ sec'[flt'[f].sec].feed = flt'[f].feed
                    /\ sec'[flt'[f].sec].priv = f
  BY DEF LinkInv
<1>1. /\ flt'[f].feed = flt[f].feed /\ flt'[f].sec = flt[f].sec
      /\ flt[f].sec \in Sec /\ InChain(flt[f].sec, flt[f].feed)
      /\ sec'[flt[f].sec] = sec[flt[f].sec]
      /\ sec[flt[f].sec].state = "READY" /\ sec[flt[f].sec].feed = flt[f].feed
      /\ sec[flt[f].sec].priv = f
  BY DEF LinkInv, Kept
<1> QED
  BY <1>1

LEMMA GotoFacts ==
    ASSUME TypeOK, NEW pc, Goto(pc)
    PROVE  /\ pc = "end" => op'.pc = "idle"
           /\ pc # "end" => op'.pc = pc /\ op'.f = op.f /\ op'.g = op.g
<1>1. CASE pc = "end"
  BY <1>1 DEF Goto, NoOp
<1>2. CASE pc # "end"
  <2>1. op' = [op EXCEPT !.pc = pc] /\ op \in OpType
    BY <1>2 DEF Goto, TypeOK
  <2> QED
    BY <1>2, <2>1 DEF OpType
<1> QED
  BY <1>1, <1>2

-----------------------------------------------------------------------------
(* The steps of everybody but the call in progress: they change neither a feed
   nor a section filter, and set nobody going but the filter whose timer ends. *)
LEMMA SurroundingsKeep ==
    ASSUME ShareInv, UNCHANGED <<op, feed, sec>>, opened \subseteq opened',
           \A f \in Filter :
              /\ Kept(f)
              /\ Running(f) => Running(f)'
              /\ Running(f)' => Running(f) \/ (op.pc = "go" /\ op.f = f)
              /\ timer'[f].armed \/ timer'[f].late => timer[f].armed \/ timer[f].late
              /\ f \notin opened' => flt'[f].state = "FREE"
    PROVE  (NoOops /\ SlotInv /\ HeldInv /\ CallInv /\ LinkInv)'
<1>1. SlotInv'
  <2>1. op.pc \notin {"idle", "stop", "go"} => ~Running(op.f)'
    BY DEF ShareInv, SlotInv, TypeOK
  <2>2. ASSUME NEW f \in Filter, timer'[f].armed \/ timer'[f].late
        PROVE  Running(f)' \/ (op'.pc = "go" /\ op'.f = f)
    BY <2>2 DEF ShareInv, SlotInv
  <2> QED
    BY <2>1, <2>2 DEF ShareInv, SlotInv, ClosedSlotsAreFree
<1>2. \A f \in Filter : (Holds(f)' => Holds(f)) /\ (Linked(f)' => Linked(f))
  BY DEF Holds, Linked
<1>3. HeldInv'
  <2>1. ASSUME NEW f \in Filter, Holds(f) PROVE feed'[flt[f].feed].state # "FREE"
    BY <2>1 DEF ShareInv, HeldInv
  <2> QED
    BY <1>2, <2>1, HeldFrame DEF ShareInv
<1>4. LinkInv'
  <2>1. ASSUME NEW f \in Filter, InChain(flt[f].sec, flt[f].feed)
        PROVE  InChain(flt[f].sec, flt[f].feed)'
    BY <2>1 DEF InChain, Kept
  <2> QED
    BY <1>2, <2>1, LinkFrame DEF ShareInv
<1>5. CallInv'
  <2>1. CASE op.pc = "alloc"
    <3>1. op.f \in Filter /\ Kept(op.f) /\ flt[op.f].section
          /\ Active(flt[op.f].par.pid) = {}
      BY <2>1 DEF ShareInv, TypeOK, CallInv
    <3>2. Active(flt[op.f].par.pid)' = {}
      BY <2>1, <3>1 DEF Active, Kept
    <3> QED
      BY <2>1, <3>1, <3>2 DEF CallInv, Kept
  <2>2. CASE op.pc # "alloc"
    BY <2>2 DEF ShareInv, CallInv
  <2> QED
    BY <2>1, <2>2
<1> QED
  BY <1>1, <1>3, <1>4, <1>5 DEF ShareInv, NoOops

(* One slot is edited. *)
LEMMA EditFacts ==
    ASSUME TypeOK, NEW f \in Filter, NEW r, flt' = [flt EXCEPT ![f] = r]
    PROVE  flt'[f] = r /\ \A g \in Filter \ {f} : flt'[g] = flt[g]
BY DEF TypeOK

LEMMA FlushedFacts ==
    ASSUME NEW r \in SlotType
    PROVE  /\ Flushed(r).state = r.state /\ Flushed(r).section = r.section
           /\ Flushed(r).par = r.par /\ Flushed(r).feed = r.feed /\ Flushed(r).sec = r.sec
BY DEF Flushed, SlotType
Shared == (NoOops /\ SlotInv /\ HeldInv /\ CallInv /\ LinkInv)'

LEMMA OthersShare ==
    ASSUME ShareInv,
           \/ UNCHANGED vars
           \/ \E f \in Filter : Read(f) \/ TimerExpires(f) \/ TimerEnds(f)
           \/ \E d \in Feed : SectionArrives(d)
           \/ SectionIgnored \/ SectionStored \/ Open
    PROVE  Shared
<1>0. \A f \in Filter : flt[f] \in SlotType
  BY DEF ShareInv, TypeOK
<1>1. CASE UNCHANGED <<flt, timer, opened, feed, sec, op>>
  BY <1>1, SurroundingsKeep DEF Kept, Running, ShareInv, SlotInv, ClosedSlotsAreFree, Shared
<1>2. ASSUME NEW f \in Filter, Read(f) PROVE Shared
  <2>1. /\ \A g \in Filter \ {f} : flt'[g] = flt[g]
        /\ flt'[f] = Flushed(flt[f]) \/ flt'[f] = [flt[f] EXCEPT !.unread = Tail(@)]
    BY <1>2 DEF Read, ShareInv, TypeOK
  <2>2. Kept(f) /\ flt'[f].state = flt[f].state
    BY <1>0, <2>1 DEF Kept, Flushed, SlotType
  <2>3. \A g \in Filter : Kept(g) /\ flt'[g].state = flt[g].state
    BY <2>1, <2>2 DEF Kept
  <2> QED
    BY <1>2, <2>3, SurroundingsKeep
       DEF Read, Running, ShareInv, SlotInv, ClosedSlotsAreFree, Shared
<1>3. ASSUME NEW f \in Filter, TimerExpires(f) PROVE Shared
  <2>1. \A g \in Filter : Kept(g) /\ flt'[g].state = flt[g].state
    BY <1>0, <1>3 DEF TimerExpires, Kept, SlotType, ShareInv, TypeOK
  <2>2. \A g \in Filter : timer'[g].armed \/ timer'[g].late => timer[g].armed \/ timer[g].late
    BY <1>3 DEF TimerExpires, ShareInv, TypeOK
  <2> QED
    BY <1>3, <2>1, <2>2, SurroundingsKeep
       DEF TimerExpires, Running, ShareInv, SlotInv, ClosedSlotsAreFree, Shared
<1>4. ASSUME NEW f \in Filter, TimerEnds(f) PROVE Shared
  <2>1. flt'[f].state = "TIMEDOUT" /\ \A g \in Filter : Kept(g) /\ (g # f => flt'[g] = flt[g])
    BY <1>0, <1>4 DEF TimerEnds, Kept, SlotType, ShareInv, TypeOK
  <2>2. \A g \in Filter : timer'[g].armed \/ timer'[g].late => timer[g].armed \/ timer[g].late
    BY <1>4 DEF TimerEnds, ShareInv, TypeOK
  <2>3. Running(f) \/ (op.pc = "go" /\ op.f = f)
    BY <1>4 DEF TimerEnds, ShareInv, SlotInv
  <2>4. f \in opened
    <3>1. CASE Running(f)
      BY <3>1 DEF Running, ShareInv, SlotInv, ClosedSlotsAreFree
    <3>2. CASE op.pc = "go" /\ op.f = f
      BY <3>2 DEF ShareInv, SlotInv
    <3> QED
      BY <2>3, <3>1, <3>2
  <2>5. \A g \in Filter : /\ Running(g) => Running(g)'
                          /\ Running(g)' => Running(g) \/ (op.pc = "go" /\ op.f = g)
                          /\ g \notin opened' => flt'[g].state = "FREE"
    BY <1>4, <2>1, <2>3, <2>4 DEF TimerEnds, Running, ShareInv, SlotInv, ClosedSlotsAreFree
  <2> QED
    BY <1>4, <2>1, <2>2, <2>5, SurroundingsKeep DEF TimerEnds, Shared
<1>5. CASE SectionStored
  <2> DEFINE f == sec[Head(disp.rest)].priv
  <2>1. \A g \in Filter \ {f} : flt'[g] = flt[g]
    BY <1>5 DEF SectionStored, ShareInv, TypeOK
  <2>2. ASSUME NEW g \in Filter, g = f
        PROVE  Kept(g) /\ Running(g) /\ Running(g)'
    <3>1. flt[g].state = "GO"
      BY <1>5, <2>2 DEF SectionStored
    <3>2. \E u, e : flt'[g] = [flt[g] EXCEPT !.unread = u, !.err = e,
                         !.state = IF flt[g].par.oneshot THEN "DONE" ELSE flt[g].state]
      BY <1>5, <2>2 DEF SectionStored, ShareInv, TypeOK
    <3>3. Kept(g) /\ flt'[g].state \in {"DONE", "GO"}
      BY <1>0, <2>2, <3>1, <3>2 DEF Kept, SlotType
    <3> QED
      BY <3>1, <3>3 DEF Running
  <2>3. \A g \in Filter : timer'[g].armed \/ timer'[g].late => timer[g].armed \/ timer[g].late
    BY <1>5 DEF SectionStored, ShareInv, TypeOK
  <2>4. \A g \in Filter : Kept(g) /\ (Running(g)' <=> Running(g))
    BY <2>1, <2>2 DEF Kept, Running
  <2>5. \A g \in Filter : g \notin opened => flt'[g].state = "FREE"
    BY <2>1, <2>2 DEF Running, ShareInv, SlotInv, ClosedSlotsAreFree
  <2> QED
    BY <1>5, <2>3, <2>4, <2>5, SurroundingsKeep DEF SectionStored, Shared
<1>6. CASE Open
  <2> PICK f \in Filter :
         /\ flt[f].state = "FREE"
         /\ flt' = [flt EXCEPT ![f] = [Flushed(flt[f]) EXCEPT !.state = "ALLOCATED"]]
         /\ timer' = [timer EXCEPT ![f].armed = FALSE]
         /\ opened' = opened \cup {f}
    BY <1>6 DEF Open, First
  <2>1. flt'[f].state = "ALLOCATED" /\ \A g \in Filter : Kept(g) /\ (g # f => flt'[g] = flt[g])
    BY <1>0 DEF Flushed, Kept, SlotType, ShareInv, TypeOK
  <2>2. \A g \in Filter : timer'[g].armed \/ timer'[g].late => timer[g].armed \/ timer[g].late
    BY DEF ShareInv, TypeOK
  <2>3. \A g \in Filter : /\ Running(g)' <=> Running(g)
                          /\ g \notin opened' => flt'[g].state = "FREE"
    BY <2>1 DEF Running, ShareInv, SlotInv, ClosedSlotsAreFree
  <2> QED
    BY <1>6, <2>1, <2>2, <2>3, SurroundingsKeep DEF Open, Shared
<1> QED
  BY <1>1, <1>2, <1>3, <1>4, <1>5, <1>6 DEF vars, SectionArrives, SectionIgnored
-----------------------------------------------------------------------------
(* A call begins: on a slot that runs it first stops it. *)
LEMMA CallsShare ==
    ASSUME ShareInv, NEW f \in Filter, SetFilter(f) \/ Start(f) \/ Stop(f) \/ Close(f)
    PROVE  Shared
<1>1. /\ op.pc = "idle" /\ f \in opened /\ op'.f = f /\ op'.pc \in {"stop", "start"}
      /\ op'.pc = "start" => ~Running(f)
      /\ UNCHANGED <<flt, timer, opened, feed, sec>>
  BY DEF SetFilter, Start, Stop, Close, Call, NoOp
<1>2. \A g \in Filter : /\ Holds(g)' => Holds(g)
                        /\ Linked(g)' => Linked(g)
                        /\ Kept(g)
  BY <1>1 DEF Holds, Linked, Running, Kept
<1>3. HeldInv'
  <2>1. \A g \in Filter : Holds(g) => feed'[flt[g].feed].state # "FREE"
    BY <1>1 DEF ShareInv, HeldInv
  <2> QED
    BY <1>2, <2>1, HeldFrame DEF ShareInv
<1>4. LinkInv'
  <2>1. \A g \in Filter : InChain(flt[g].sec, flt[g].feed) => InChain(flt[g].sec, flt[g].feed)'
    BY <1>1 DEF InChain
  <2> QED
    BY <1>1, <1>2, <2>1, LinkFrame DEF ShareInv
<1>5. SlotInv'
  BY <1>1 DEF ShareInv, SlotInv, ClosedSlotsAreFree, Running
<1> QED
  BY <1>1, <1>3, <1>4, <1>5 DEF Shared, NoOops, CallInv

(* A step of the call in progress on its own slot f, after which it holds
   nothing new, and which takes nothing from the others. *)
LEMMA OwnStep ==
    ASSUME ShareInv, op.pc # "idle", NEW f \in Filter, f = op.f, UNCHANGED sec,
           op'.pc \notin {"oops", "restarting"}, op'.pc = "alloc" => CallInv',
           op'.pc = "idle" \/ op'.f = f,
           \/ opened' = opened
           \/ opened' = opened \ {f} /\ flt'[f].state = "FREE" /\ op'.pc = "idle",
           \A g \in Filter \ {f} : flt'[g] = flt[g] /\ timer'[g] = timer[g],
           \A d \in Feed : /\ feed'[d].chain = feed[d].chain
                           /\ feed[d].state # "FREE" => feed'[d].state # "FREE",
           Holds(f)' => Holds(f) /\ Kept(f),
           Linked(f)' => Linked(f),
           op'.pc \notin {"idle", "stop", "go"} => ~Running(f)',
           timer'[f].armed \/ timer'[f].late => Running(f)' \/ (op'.pc = "go" /\ op'.f = f)
    PROVE  Shared
<1>1. \A g \in Filter \ {f} : /\ Holds(g)' => Holds(g)
                              /\ Linked(g)' => Linked(g)
                              /\ Kept(g)
                              /\ Running(g)' <=> Running(g)
  BY DEF Holds, Linked, Running, Kept
<1>2. \A g \in Filter : (Holds(g)' => Holds(g) /\ Kept(g)) /\ (Linked(g)' => Linked(g))
  BY <1>1
<1>3. \A g \in Filter : Linked(g)' => Holds(g)'
  BY DEF Linked, Holds
<1>5. HeldInv'
  <2>1. \A g \in Filter : Holds(g) => feed'[flt[g].feed].state # "FREE"
    BY DEF ShareInv, HeldInv
  <2> QED
    BY <1>2, <2>1, HeldFrame DEF ShareInv
<1>6. LinkInv'
  <2>1. ASSUME NEW g \in Filter, Linked(g)'
        PROVE  InChain(flt[g].sec, flt[g].feed) => InChain(flt[g].sec, flt[g].feed)'
    <3>1. Holds(g) /\ Kept(g)
      BY <1>2, <1>3, <2>1
    <3>2. flt[g].feed \in Feed
      BY <3>1 DEF ShareInv, HeldInv
    <3>3. feed'[flt[g].feed].chain = feed[flt[g].feed].chain
      BY <3>2
    <3> QED
      BY <3>1, <3>3 DEF InChain, Kept
  <2> QED
    BY <1>2, <1>3, <2>1, LinkFrame DEF ShareInv
<1>7. SlotInv'
  <2>1. op'.pc # "idle" => op'.f \in opened'
    BY DEF ShareInv, SlotInv
  <2>2. \A g \in Filter : g \notin opened' => flt'[g].state = "FREE"
    <3> TAKE g \in Filter
    <3>1. CASE g # f
      BY <3>1 DEF ShareInv, SlotInv, ClosedSlotsAreFree
    <3>2. CASE g = f
      BY <3>2 DEF ShareInv, SlotInv
    <3> QED
      BY <3>1, <3>2
  <2>3. ASSUME NEW g \in Filter, timer'[g].armed \/ timer'[g].late
        PROVE  Running(g)' \/ (op'.pc = "go" /\ op'.f = g)
    <3>1. CASE g # f
      BY <1>1, <2>3, <3>1 DEF ShareInv, SlotInv
    <3>2. CASE g = f
      BY <2>3, <3>2
    <3> QED
      BY <3>1, <3>2
  <2>4. op'.pc \notin {"idle", "stop", "go"} => op'.f = f /\ ~Running(f)'
    OBVIOUS
  <2> QED
    BY <2>1, <2>2, <2>3, <2>4 DEF SlotInv, ClosedSlotsAreFree, Running
<1> QED
  BY <1>5, <1>6, <1>7 DEF Shared, NoOops, CallInv
(* Stopping and starting a feed does not release it. *)
LEMMA FeedsStay ==
    ASSUME TypeOK, NEW d, StopFiltering(d) \/ StartSucceeds(d) \/ StartFails(d)
    PROVE  \A e \in Feed : /\ feed'[e].chain = feed[e].chain
                           /\ feed[e].state # "FREE" => feed'[e].state # "FREE"
<1>1. ASSUME NEW e \in Feed, feed[e].state # "FREE" PROVE feed'[e].state # "FREE"
  <2>1. feed \in [Feed -> FeedType] /\ feed[e] \in FeedType
    BY DEF TypeOK
  <2>2. CASE StartFails(d)
    BY <1>1, <2>2 DEF StartFails
  <2>3. ASSUME NEW b, NEW v, v # "FREE",
               feed' = [feed EXCEPT ![d].filtering = b, ![d].state = v]
        PROVE  feed'[e].state # "FREE"
    BY <1>1, <2>1, <2>3 DEF FeedType
  <2> QED
    BY <2>2, <2>3 DEF StopFiltering, StartSucceeds
<1> QED
  BY <1>1, FilteringUntouched

(* dvb_dmxdev_filter_stop, but for what it does to the chain and the others. *)
LEMMA StopShares ==
    ASSUME ShareInv, ~LateTimer,
           StopNothing \/ StopFilter \/ HaltFeed \/ RestartFeed \/ Stopped
    PROVE  Shared
<1> DEFINE f == op.f
<1>1. op.pc # "idle" /\ f \in Filter /\ f \in opened /\ flt[f] \in SlotType
  BY DEF StopNothing, StopFilter, HaltFeed, RestartFeed, Stopped, ShareInv, SlotInv, TypeOK
<1>2. op.then \in {"end", "set", "start", "free"} /\ op.back \in {"end", "stopped", "retry"}
  BY PcTypes DEF ShareInv
<1>3. CASE StopNothing
  <2>1. op.pc = "stop" /\ UNCHANGED <<timer, opened, feed, sec>>
    BY <1>3 DEF StopNothing
  <2>2. ~Running(f)
    <3> SUFFICES ASSUME Running(f) PROVE FALSE
      OBVIOUS
    <3>1. flt[f].section /\ flt[f].feed \in Feed
      BY <1>1 DEF ShareInv, HeldInv, Holds
    <3> QED
      BY <1>3, <3>1 DEF StopNothing, Feed, None
  <2>3. flt' = flt
    BY <1>3, <2>2 DEF StopNothing
  <2>4. op'.pc \in {"idle", "set", "start", "free"} /\ (op'.pc = "idle" \/ op'.f = f)
    BY <1>2, <1>3, GotoFacts DEF StopNothing, ShareInv
  <2>5. ~(timer[f].armed \/ timer[f].late)
    BY <1>1, <2>1, <2>2 DEF ShareInv, SlotInv
  <2>6. \A g \in {f} : ~Holds(g)' /\ ~Linked(g)' /\ ~Running(g)'
    BY <2>2, <2>3, <2>4 DEF Holds, Linked, Running
  <2> QED
    BY <1>1, <2>1, <2>3, <2>4, <2>5, <2>6, OwnStep
<1>4. CASE StopFilter
  <2>1. Running(f) /\ UNCHANGED <<opened, feed, sec>>
    BY <1>4 DEF StopFilter
  <2>2. flt'[f] = [flt[f] EXCEPT !.state = "SET"] /\ \A g \in Filter \ {f} : flt'[g] = flt[g]
    BY <1>1, <1>4, EditFacts DEF StopFilter, ShareInv
  <2>3. ~timer'[f].armed /\ ~timer'[f].late /\ \A g \in Filter \ {f} : timer'[g] = timer[g]
    BY <1>1, <1>4 DEF StopFilter, TimerDeleted, ShareInv, TypeOK
  <2>4. op'.pc = "halt" /\ op'.f = f
    BY <1>4, GotoFacts DEF StopFilter, ShareInv
  <2>5. \A g \in {f} : Holds(g) /\ Linked(g) /\ Kept(g) /\ ~Running(g)'
    BY <1>1, <2>1, <2>2 DEF Holds, Linked, Kept, Running, SlotType
  <2> QED
    BY <1>1, <2>1, <2>2, <2>3, <2>4, <2>5, OwnStep
<1>5. CASE HaltFeed
  <2>1. op.pc = "halt" /\ UNCHANGED <<flt, timer, opened, sec>>
    BY <1>5 DEF HaltFeed
  <2>2. op'.pc = "release" /\ op'.f = f
    BY <1>5, GotoFacts DEF HaltFeed, ShareInv
  <2>3. \A e \in Feed : /\ feed'[e].chain = feed[e].chain
                        /\ feed[e].state # "FREE" => feed'[e].state # "FREE"
    BY <1>5, FeedsStay DEF HaltFeed, ShareInv
  <2>4. \A g \in {f} : Holds(g) /\ Linked(g) /\ Kept(g) /\ ~Running(g)'
    BY <2>1 DEF Holds, Linked, Kept, Running, ShareInv, SlotInv
  <2>5. ~(timer[f].armed \/ timer[f].late)
    BY <1>1, <2>1 DEF ShareInv, SlotInv
  <2> QED
    BY <1>1, <2>1, <2>2, <2>3, <2>4, <2>5, OwnStep
<1>6. CASE RestartFeed
  <2>1. op.pc = "restarting" /\ UNCHANGED <<flt, timer, opened, sec>>
    BY <1>6 DEF RestartFeed
  <2>2. flt[op.g].feed # None
    BY <2>1 DEF ShareInv, CallInv, HeldInv, Holds, Feed, None
  <2>3. op'.pc \in {"idle", "stopped", "retry"} /\ (op'.pc = "idle" \/ op'.f = f)
    BY <1>2, <1>6, <2>2, GotoFacts DEF RestartFeed, ShareInv
  <2>4. \A e \in Feed : /\ feed'[e].chain = feed[e].chain
                        /\ feed[e].state # "FREE" => feed'[e].state # "FREE"
    BY <1>6, <2>2, FeedsStay DEF RestartFeed, ShareInv
  <2>5. \A g \in {f} : ~Holds(g)' /\ ~Linked(g)' /\ ~Running(g)'
    BY <2>1, <2>3 DEF Holds, Linked, Running, ShareInv, SlotInv
  <2>6. ~(timer[f].armed \/ timer[f].late)
    BY <1>1, <2>1 DEF ShareInv, SlotInv
  <2> QED
    BY <1>1, <2>1, <2>3, <2>4, <2>5, <2>6, OwnStep
<1>7. CASE Stopped
  <2>1. op.pc = "stopped" /\ UNCHANGED <<timer, opened, feed, sec>>
    BY <1>7 DEF Stopped
  <2>2. flt'[f].state = flt[f].state /\ \A g \in Filter \ {f} : flt'[g] = flt[g]
    <3>1. flt'[f] = [Flushed(flt[f]) EXCEPT !.feed = None] /\ \A g \in Filter \ {f} : flt'[g] = flt[g]
      BY <1>1, <1>7, EditFacts DEF Stopped, ShareInv
    <3> QED
      BY <1>1, <3>1 DEF Flushed, SlotType
  <2>3. op'.pc \in {"idle", "set", "start", "free"} /\ (op'.pc = "idle" \/ op'.f = f)
    BY <1>2, <1>7, GotoFacts DEF Stopped, ShareInv
  <2>4. ~Running(f)
    BY <2>1 DEF ShareInv, SlotInv
  <2>5. \A g \in {f} : ~Holds(g)' /\ ~Linked(g)' /\ ~Running(g)'
    BY <2>2, <2>3, <2>4 DEF Holds, Linked, Running
  <2>6. ~(timer[f].armed \/ timer[f].late)
    BY <1>1, <2>1, <2>4 DEF ShareInv, SlotInv
  <2> QED
    BY <1>1, <2>1, <2>2, <2>3, <2>5, <2>6, OwnStep
<1> QED
  BY <1>3, <1>4, <1>5, <1>6, <1>7
(* Setting a filter and freeing its slot, and the steps of a start that neither
   give the filter a feed nor a section filter. *)
LEMMA QuietStepsShare ==
    ASSUME ShareInv, FilterSet \/ FilterFree \/ PauseFeed \/ RetryFeed \/ RunFeed \/ ArmTimer \/ Go
    PROVE  Shared
<1> DEFINE f == op.f
<1>1. op.pc # "idle" /\ f \in Filter /\ f \in opened /\ flt[f] \in SlotType
  BY DEF FilterSet, FilterFree, PauseFeed, RetryFeed, RunFeed, ArmTimer, Go,
         ShareInv, SlotInv, TypeOK
<1>2. op.pc # "go" => ~(timer[f].armed \/ timer[f].late) /\ ~Running(f)
  BY <1>1 DEF FilterSet, FilterFree, PauseFeed, RetryFeed, RunFeed, ArmTimer, Go,
              ShareInv, SlotInv
<1>3. CASE FilterSet \/ FilterFree
  <2>1. op.pc \in {"set", "free"} /\ UNCHANGED <<timer, feed, sec>>
    BY <1>3 DEF FilterSet, FilterFree
  <2>2. /\ \A g \in Filter \ {f} : flt'[g] = flt[g]
        /\ flt'[f].state \in {"SET", "FREE"}
        /\ opened' = opened \/ (opened' = opened \ {f} /\ flt'[f].state = "FREE" /\ op'.pc = "idle")
        /\ op'.pc \in {"start", "idle"} /\ (op'.pc = "idle" \/ op'.f = f)
    <3>1. CASE FilterSet
      <4>1. /\ flt'[f] = [flt[f] EXCEPT !.section = TRUE, !.par = op.ask, !.state = "SET"]
            /\ \A g \in Filter \ {f} : flt'[g] = flt[g]
        BY <1>1, <3>1 DEF FilterSet, ShareInv, TypeOK
      <4>2. flt'[f].state = "SET"
        BY <1>1, <4>1 DEF SlotType
      <4>3. op'.pc \in {"start", "idle"} /\ (op'.pc = "idle" \/ op'.f = f)
        BY <3>1, GotoFacts DEF FilterSet, ShareInv
      <4> QED
        BY <3>1, <4>1, <4>2, <4>3 DEF FilterSet
    <3>2. CASE FilterFree
      <4>1. /\ flt'[f] = [flt[f] EXCEPT !.section = FALSE, !.par = NoRequest, !.state = "FREE"]
            /\ \A g \in Filter \ {f} : flt'[g] = flt[g]
        BY <1>1, <3>2 DEF FilterFree, ShareInv, TypeOK
      <4>2. flt'[f].state = "FREE"
        BY <1>1, <4>1 DEF SlotType
      <4>3. op'.pc = "idle"
        BY <3>2, GotoFacts DEF FilterFree, ShareInv
      <4> QED
        BY <3>2, <4>1, <4>2, <4>3 DEF FilterFree
    <3> QED
      BY <1>3, <3>1, <3>2
  <2>3. \A g \in {f} : ~Holds(g)' /\ ~Linked(g)' /\ ~Running(g)'
    BY <2>2 DEF Holds, Linked, Running
  <2> QED
    BY <1>1, <1>2, <2>1, <2>2, <2>3, OwnStep
<1>4. CASE PauseFeed \/ RetryFeed \/ RunFeed
  <2>1. op.pc \in {"pause", "retry", "run"} /\ UNCHANGED <<flt, timer, opened, sec>>
    BY <1>4 DEF PauseFeed, RetryFeed, RunFeed
  <2>2. \A e \in Feed : /\ feed'[e].chain = feed[e].chain
                        /\ feed[e].state # "FREE" => feed'[e].state # "FREE"
    BY <1>4, FeedsStay DEF PauseFeed, RetryFeed, RunFeed, ShareInv
  <2>3. \/ op.pc = "pause" /\ op'.pc = "link" /\ op'.f = f
        \/ op.pc = "run" /\ op'.pc = "arm" /\ op'.f = f
        \/ op'.pc = "idle"
    BY <1>4, GotoFacts DEF PauseFeed, RetryFeed, RunFeed, ShareInv
  <2>4. \A g \in {f} : /\ Holds(g)' => Holds(g)
                       /\ Linked(g)' => Linked(g)
                       /\ Kept(g) /\ ~Running(g)'
    BY <1>2, <2>1, <2>3 DEF Holds, Linked, Running, Kept
  <2> QED
    BY <1>1, <1>2, <2>1, <2>2, <2>3, <2>4, OwnStep
<1>5. CASE ArmTimer
  <2>1. op.pc = "arm" /\ UNCHANGED <<flt, opened, feed, sec>>
    BY <1>5 DEF ArmTimer
  <2>2. op'.pc = "go" /\ op'.f = f
    BY <1>5, GotoFacts DEF ArmTimer, ShareInv
  <2>3. \A g \in {f} : Holds(g) /\ Linked(g) /\ Kept(g)
    BY <2>1 DEF Holds, Linked, Kept
  <2>4. \A g \in Filter \ {f} : timer'[g] = timer[g]
    BY <1>5 DEF ArmTimer, ShareInv, TypeOK
  <2> QED
    BY <1>1, <2>1, <2>2, <2>3, <2>4, OwnStep
<1>6. CASE Go
  <2>1. op.pc = "go" /\ UNCHANGED <<timer, opened, feed, sec>>
    BY <1>6 DEF Go
  <2>2. op'.pc = "idle"
    BY <1>6, GotoFacts DEF Go, ShareInv
  <2>3. flt'[f] = [flt[f] EXCEPT !.state = "GO"] /\ \A g \in Filter \ {f} : flt'[g] = flt[g]
    BY <1>1, <1>6, EditFacts DEF Go, ShareInv
  <2>4. \A g \in {f} : Holds(g) /\ Linked(g) /\ Kept(g) /\ Running(g)'
    BY <1>1, <2>1, <2>3 DEF Holds, Linked, Kept, Running, SlotType
  <2> QED
    BY <1>1, <2>1, <2>2, <2>3, <2>4, OwnStep
<1> QED
  BY <1>3, <1>4, <1>5, <1>6

(* dvb_dmxdev_feed_restart sets a filter going that was active anyway. *)
LEMMA RestartShares ==
    ASSUME ShareInv, RestartOther
    PROVE  Shared
<1> PICK g \in Filter :
      /\ op.pc = "restart" /\ g \in Active(flt[op.f].par.pid)
      /\ flt' = [flt EXCEPT ![g].state = "GO"]
      /\ op' = [op EXCEPT !.pc = "restarting", !.g = g]
      /\ UNCHANGED <<timer, opened, feed, sec, disp>>
  BY DEF RestartOther, First
<1>1. op'.pc = "restarting" /\ op'.f = op.f /\ op'.g = g
  BY DEF ShareInv, TypeOK, OpType
<1>2. flt'[g] = [flt[g] EXCEPT !.state = "GO"] /\ \A h \in Filter \ {g} : flt'[h] = flt[h]
  BY DEF ShareInv, TypeOK
<1>3. flt[g] \in SlotType /\ Running(g)
  BY DEF ShareInv, TypeOK, Active
<1>4. \A h \in Filter : Kept(h) /\ (Running(h)' <=> Running(h))
  BY <1>2, <1>3 DEF Kept, Running, SlotType
<1>5. \A h \in Filter : (Holds(h)' => Holds(h)) /\ (Linked(h)' => Linked(h))
  BY <1>1, <1>4 DEF Holds, Linked
<1>6. HeldInv'
  <2>1. \A h \in Filter : Holds(h) => feed'[flt[h].feed].state # "FREE"
    BY DEF ShareInv, HeldInv
  <2> QED
    BY <1>4, <1>5, <2>1, HeldFrame DEF ShareInv
<1>7. LinkInv'
  <2>1. \A h \in Filter : InChain(flt[h].sec, flt[h].feed) => InChain(flt[h].sec, flt[h].feed)'
    BY <1>4 DEF InChain, Kept
  <2> QED
    BY <1>4, <1>5, <2>1, LinkFrame DEF ShareInv
<1>8. SlotInv'
  <2>1. \A h \in Filter : h \notin opened => flt'[h].state = "FREE"
    BY <1>2, <1>3 DEF Running, ShareInv, SlotInv, ClosedSlotsAreFree
  <2>2. op.f \in Filter /\ op.f \in opened /\ ~Running(op.f)
    BY DEF ShareInv, SlotInv, TypeOK
  <2>3. ~Running(op.f)'
    BY <1>2, <1>3, <2>2 DEF Running
  <2>4. \A h \in Filter : timer[h].armed \/ timer[h].late => Running(h)'
    BY <1>4 DEF ShareInv, SlotInv
  <2> QED
    BY <1>1, <2>1, <2>2, <2>3, <2>4 DEF SlotInv, ClosedSlotsAreFree, Running
<1>9. CallInv'
  BY <1>1, <1>3, <1>4 DEF CallInv, Running
<1> QED
  BY <1>1, <1>6, <1>7, <1>8, <1>9 DEF Shared, NoOops
(* Of a chain, only the place taken out is lost. *)
LEMMA OthersStayInChain ==
    ASSUME NEW c \in Seq(Sec), NEW i \in 1 .. Len(c), NEW k \in 1 .. Len(c), c[k] # c[i]
    PROVE  \E j \in 1 .. Len(RemoveAt(c, i)) : RemoveAt(c, i)[j] = c[k]
<1> DEFINE j == IF k < i THEN k ELSE k - 1
<1>1. Len(c) \in Nat
  BY LenProperties
<1>2. /\ Len(RemoveAt(c, i)) = Len(c) - 1
      /\ \A l \in 1 .. Len(c) - 1 : RemoveAt(c, i)[l] = IF l < i THEN c[l] ELSE c[l + 1]
  BY RemoveAtFacts
<1>3. k # i
  OBVIOUS
<1>4. j \in 1 .. Len(c) - 1 /\ (IF j < i THEN j ELSE j + 1) = k
  BY <1>1, <1>3
<1>5. RemoveAt(c, i)[j] = c[IF j < i THEN j ELSE j + 1]
  BY <1>2, <1>4
<1> HIDE DEF j
<1> QED
  BY <1>2, <1>4, <1>5

(* release_filter takes the section filter of the caller out of its chain, and no other. *)
LEMMA ReleaseFilterShares ==
    ASSUME ShareInv, ReleaseFilter
    PROVE  Shared
<1> DEFINE f == op.f
           x == flt[f].sec
           d == flt[f].feed
           c == feed[d].chain
<1>1. op.pc = "release" /\ f \in Filter /\ f \in opened /\ UNCHANGED <<flt, timer, opened>>
  BY DEF ReleaseFilter, ShareInv, SlotInv, TypeOK
<1>2. d \in Feed /\ x \in Sec /\ InChain(x, d) /\ sec[x].feed = d /\ sec[x].priv = f
  BY <1>1 DEF ShareInv, HeldInv, LinkInv, Holds, Linked
<1>3. PICK i \in 1 .. Len(c) :
         /\ c[i] = x
         /\ feed' = [feed EXCEPT ![d].chain = RemoveAt(c, i), ![d].filtering = FALSE]
         /\ sec' = [sec EXCEPT ![x].state = "FREE"]
         /\ op' = [op EXCEPT !.pc = "restart", !.back = "stopped"]
  <2>1. x # None
    BY <1>2 DEF Sec, None
  <2>2. \E i \in 1 .. Len(c) :
           /\ c[i] = x
           /\ feed' = [feed EXCEPT ![d].chain = RemoveAt(c, i), ![d].filtering = FALSE]
           /\ sec' = [sec EXCEPT ![x].state = "FREE"]
           /\ op' = [op EXCEPT !.pc = "restart", !.back = "stopped"]
    BY <1>2, <2>1, Zenon DEF ReleaseFilter
  <2> QED
    BY <2>2, Zenon
<1>4. op'.pc = "restart" /\ op'.f = f
  BY <1>3 DEF ShareInv, TypeOK, OpType
<1>5. c \in Seq(Sec)
  BY <1>2 DEF ShareInv, TypeOK, FeedType
<1>6. feed \in [Feed -> FeedType]
  BY DEF ShareInv, TypeOK
<1>7. /\ feed'[d].chain = RemoveAt(c, i) /\ feed'[d].state = feed[d].state
      /\ \A e \in Feed \ {d} : feed'[e] = feed[e]
  BY <1>2, <1>3, <1>6 DEF FeedType
<1>8. \A g \in Filter : Kept(g) /\ (Running(g)' <=> Running(g))
  BY <1>1 DEF Kept, Running
<1>9. ~Running(f)
  BY <1>1 DEF ShareInv, SlotInv
<1>10. \A g \in Filter : /\ Holds(g)' => Holds(g)
                         /\ Linked(g)' => Linked(g) /\ g # f
  BY <1>1, <1>4, <1>8, <1>9 DEF Holds, Linked
<1>11. HeldInv'
  <2>1. \A g \in Filter : Holds(g) => feed'[flt[g].feed].state # "FREE"
    BY <1>7 DEF ShareInv, HeldInv
  <2> QED
    BY <1>8, <1>10, <2>1, HeldFrame DEF ShareInv
<1>12. LinkInv'
  <2>1. ASSUME NEW g \in Filter, Linked(g)'
        PROVE  /\ sec'[flt[g].sec] = sec[flt[g].sec]
               /\ InChain(flt[g].sec, flt[g].feed)'
    <3> DEFINE y == flt[g].sec
               e == flt[g].feed
    <3>1. Linked(g) /\ g # f
      BY <1>10, <2>1
    <3>2. y \in Sec /\ InChain(y, e) /\ sec[y].priv = g /\ e \in Feed
      BY <3>1 DEF ShareInv, HeldInv, LinkInv, Holds, Linked
    <3>3. y # x
      BY <1>2, <3>1, <3>2
    <3>4. sec'[y] = sec[y]
      BY <1>3, <3>2, <3>3 DEF ShareInv, TypeOK
    <3>5. \E j \in 1 .. Len(feed'[e].chain) : feed'[e].chain[j] = y
      <4>1. CASE e # d
        BY <1>7, <3>2, <4>1 DEF InChain
      <4>2. CASE e = d
        <5>1. PICK k \in 1 .. Len(c) : c[k] = y
          BY <3>2, <4>2 DEF InChain
        <5>2. c[k] # c[i]
          BY <1>3, <3>3, <5>1
        <5>3. \E j \in 1 .. Len(RemoveAt(c, i)) : RemoveAt(c, i)[j] = c[k]
          <6> HIDE DEF c
          <6> QED
            BY <1>5, <5>2, OthersStayInChain
        <5> QED
          BY <1>7, <4>2, <5>1, <5>3
      <4> QED
        BY <4>1, <4>2
    <3> QED
      BY <1>1, <3>4, <3>5 DEF InChain
  <2> QED
    BY <1>8, <1>10, <2>1, LinkFrame DEF ShareInv
<1>13. SlotInv'
  BY <1>1, <1>4, <1>8, <1>9 DEF ShareInv, SlotInv, ClosedSlotsAreFree, Running
<1> QED
  BY <1>4, <1>11, <1>12, <1>13 DEF Shared, NoOops, CallInv

(* The feed that is released when nobody is active on its PID is held by nobody. *)
LEMMA ReleaseFeedShares ==
    ASSUME ShareInv, ReleaseFeed
    PROVE  Shared
<1> DEFINE f == op.f
           d == flt[f].feed
<1>1. /\ op.pc = "restart" /\ f \in Filter /\ f \in opened
      /\ Active(flt[f].par.pid) = {} /\ UNCHANGED <<flt, timer, opened, sec>>
  BY DEF ReleaseFeed, ShareInv, SlotInv, TypeOK
<1>2. op'.pc \in {"idle", "stopped", "retry"} /\ (op'.pc = "idle" \/ op'.f = f)
  BY <1>1, PcTypes, GotoFacts DEF ReleaseFeed, ShareInv
<1>3. feed \in [Feed -> FeedType]
  BY DEF ShareInv, TypeOK
<1>4. /\ \A e \in Feed : feed'[e].chain = feed[e].chain
      /\ \A e \in Feed \ {d} : feed'[e] = feed[e]
  <2>1. feed' = [feed EXCEPT ![d] = IF feed[d].state = "FREE" THEN feed[d]
                    ELSE [feed[d] EXCEPT !.state = "FREE", !.listed = FALSE, !.pid = NoPid]]
    BY DEF ReleaseFeed
  <2> QED
    BY <1>3, <2>1 DEF FeedType
<1>5. \A g \in Filter : Kept(g) /\ (Running(g)' <=> Running(g))
  BY <1>1 DEF Kept, Running
<1>6. \A g \in Filter : (Holds(g)' => Running(g)) /\ (Linked(g)' => Running(g))
  BY <1>2, <1>5 DEF Holds, Linked
<1>7. HeldInv'
  <2>1. ASSUME NEW g \in Filter, Running(g) PROVE feed'[flt[g].feed].state # "FREE"
    <3>1. Holds(g) /\ Holds(f)
      BY <1>1, <2>1 DEF Holds
    <3>2. flt[g].section /\ flt[g].feed \in Feed /\ feed[flt[g].feed].state # "FREE"
      BY <3>1 DEF ShareInv, HeldInv
    <3>3. g \notin Active(flt[f].par.pid)
      BY <1>1
    <3>4. flt[g].par.pid # flt[f].par.pid
      BY <2>1, <3>2, <3>3 DEF Active
    <3>5. flt[g].feed # d
      BY <1>1, <3>1, <3>4 DEF ShareInv, HeldInv
    <3> QED
      BY <1>4, <3>2, <3>5
  <2>2. \A g \in Filter : Running(g) => Holds(g)
    BY DEF Holds
  <2> QED
    BY <1>5, <1>6, <2>1, <2>2, HeldFrame DEF ShareInv
<1>8. LinkInv'
  <2>1. ASSUME NEW g \in Filter, Running(g)
        PROVE  Linked(g) /\ (InChain(flt[g].sec, flt[g].feed) => InChain(flt[g].sec, flt[g].feed)')
    <3>1. flt[g].feed \in Feed /\ Linked(g)
      BY <2>1 DEF ShareInv, HeldInv, Holds, Linked
    <3>2. feed'[flt[g].feed].chain = feed[flt[g].feed].chain
      BY <1>4, <3>1
    <3> QED
      BY <1>1, <3>1, <3>2 DEF InChain
  <2> QED
    BY <1>1, <1>5, <1>6, <2>1, LinkFrame DEF ShareInv
<1>9. SlotInv'
  BY <1>1, <1>2, <1>5 DEF ShareInv, SlotInv, ClosedSlotsAreFree, Running
<1> QED
  BY <1>2, <1>7, <1>8, <1>9 DEF Shared, NoOops, CallInv
LEMMA StartShares ==
    ASSUME ShareInv, ~LateTimer, StartAlone \/ StartShared
    PROVE  Shared
<1> DEFINE f == op.f
           p == flt[f].par.pid
<1>1. op.pc = "start" /\ f \in Filter /\ f \in opened /\ flt[f] \in SlotType
  BY DEF StartAlone, StartShared, ShareInv, SlotInv, TypeOK
<1>2. ~Running(f) /\ ~(timer[f].armed \/ timer[f].late)
  BY <1>1 DEF ShareInv, SlotInv
<1>3. /\ Flushed(flt[f]) \in SlotType /\ Flushed(flt[f]).state = flt[f].state
      /\ Flushed(flt[f]).section = flt[f].section /\ Flushed(flt[f]).par = flt[f].par
  BY <1>1, SlotEdits, FlushedFacts
<1>4. CASE StartAlone /\ ~flt[f].section
  <2>1. flt' = [flt EXCEPT ![f] = Flushed(flt[f])] /\ Goto("end")
        /\ UNCHANGED <<timer, opened, feed, sec>>
    BY <1>4 DEF StartAlone
  <2>2. flt'[f] = Flushed(flt[f]) /\ \A g \in Filter \ {f} : flt'[g] = flt[g]
    BY <1>1, <2>1, EditFacts DEF ShareInv
  <2>3. op'.pc = "idle"
    BY <2>1, GotoFacts DEF ShareInv
  <2>4. \A g \in {f} : ~Holds(g)' /\ ~Linked(g)' /\ ~Running(g)'
    BY <1>2, <1>3, <2>2, <2>3 DEF Holds, Linked, Running
  <2> QED
    BY <1>1, <1>2, <2>1, <2>2, <2>3, <2>4, OwnStep
<1>5. CASE StartAlone /\ flt[f].section
  <2>1. /\ flt' = [flt EXCEPT ![f] = [Flushed(flt[f]) EXCEPT !.sec = None, !.feed = None]]
        /\ PeerOf(f) = {} /\ Goto("alloc") /\ UNCHANGED <<timer, opened, feed, sec>>
    BY <1>5 DEF StartAlone
  <2>2. /\ flt'[f] = [Flushed(flt[f]) EXCEPT !.sec = None, !.feed = None]
        /\ \A g \in Filter \ {f} : flt'[g] = flt[g]
    BY <1>1, <2>1, EditFacts DEF ShareInv
  <2>3. /\ flt'[f].state = flt[f].state /\ flt'[f].section = flt[f].section
        /\ flt'[f].par = flt[f].par
    BY <1>3, <2>2 DEF SlotType
  <2>4. op'.pc = "alloc" /\ op'.f = f
    BY <2>1, GotoFacts DEF ShareInv
  <2>5. \A g \in {f} : ~Holds(g)' /\ ~Linked(g)' /\ ~Running(g)'
    BY <1>2, <2>3, <2>4 DEF Holds, Linked, Running
  <2>6. Active(p) = {}
    BY <1>1, <1>2, <2>1, NoPeerNobodyActive DEF ShareInv
  <2>7. ASSUME NEW g \in Filter, Running(g)', flt'[g].section, flt'[g].par.pid = p PROVE FALSE
    <3>1. g # f
      BY <2>5, <2>7
    <3> QED
      BY <2>2, <2>6, <2>7, <3>1 DEF Active, Running
  <2>8. CallInv'
    <3>1. \A q : q = p => Active(q)' = {}
      BY <2>7 DEF Active
    <3> QED
      BY <1>5, <2>3, <2>4, <3>1 DEF CallInv
  <2> QED
    BY <1>1, <1>2, <2>1, <2>2, <2>4, <2>5, <2>8, OwnStep
<1>6. CASE StartShared
  <2> PICK g \in PeerOf(f) :
        flt' = [flt EXCEPT ![f] = [Flushed(flt[f]) EXCEPT !.sec = None, !.feed = flt[g].feed,
                                                          !.state = "SET"]]
    BY <1>6 DEF StartShared
  <2>1. flt[f].section /\ Goto("pause") /\ UNCHANGED <<opened, feed, sec>>
    BY <1>6 DEF StartShared
  <2>2. op'.pc = "pause" /\ op'.f = f
    BY <2>1, GotoFacts DEF ShareInv
  <2>3. g \in Filter \ {f} /\ Running(g) /\ flt[g].section /\ flt[g].par.pid = p
    BY DEF PeerOf, First, Active
  <2>4. /\ flt'[f] = [Flushed(flt[f]) EXCEPT !.sec = None, !.feed = flt[g].feed, !.state = "SET"]
        /\ \A h \in Filter \ {f} : flt'[h] = flt[h]
    BY <1>1, EditFacts DEF ShareInv
  <2>5. /\ flt'[f].state = "SET" /\ flt'[f].feed = flt[g].feed
        /\ flt'[f].section = flt[f].section /\ flt'[f].par = flt[f].par
    <3> DEFINE r == Flushed(flt[f])
               d == flt[g].feed
               q == flt'[f]
    <3>1. q = [r EXCEPT !.sec = None, !.feed = d, !.state = "SET"] /\ r \in SlotType
      BY <1>3, <2>4
    <3> HIDE DEF r, d, q
    <3>2. q.state = "SET" /\ q.feed = d /\ q.section = r.section /\ q.par = r.par
      BY <3>1 DEF SlotType
    <3> QED
      BY <1>3, <3>2 DEF r, d, q
  <2>6. \A h \in Filter \ {f} : /\ Holds(h)' => Holds(h)
                                /\ Linked(h)' => Linked(h)
                                /\ Kept(h) /\ (Running(h)' <=> Running(h))
    BY <2>2, <2>4 DEF Holds, Linked, Running, Kept
  <2>7. /\ flt[g].feed \in Feed /\ feed[flt[g].feed].state # "FREE"
        /\ \A h \in Filter : Holds(h) => (flt[h].feed = flt[g].feed <=> flt[h].par.pid = p)
    BY <2>3 DEF ShareInv, HeldInv, Holds
  <2>8. HeldInv'
    <3>1. ASSUME NEW h \in Filter, Holds(h)'
          PROVE  flt'[h].section /\ flt'[h].feed \in Feed /\ feed'[flt'[h].feed].state # "FREE"
      <4>1. CASE h = f
        BY <2>1, <2>5, <2>7, <4>1
      <4>2. CASE h # f
        BY <2>1, <2>6, <3>1, <4>2 DEF ShareInv, HeldInv, Kept
      <4> QED
        BY <4>1, <4>2
    <3>2. ASSUME NEW h \in Filter, NEW k \in Filter, Holds(h)', Holds(k)'
          PROVE  flt'[h].feed = flt'[k].feed <=> flt'[h].par.pid = flt'[k].par.pid
      <4>1. CASE h # f /\ k # f
        BY <2>6, <3>2, <4>1 DEF ShareInv, HeldInv, Kept
      <4>2. CASE h = f /\ k # f
        BY <2>5, <2>6, <2>7, <3>2, <4>2 DEF Kept
      <4>3. CASE h # f /\ k = f
        BY <2>5, <2>6, <2>7, <3>2, <4>3 DEF Kept
      <4> QED
        BY <4>1, <4>2, <4>3
    <3> QED
      BY <3>1, <3>2 DEF HeldInv
  <2>9. \A h \in {f} : ~Linked(h)' /\ ~Running(h)'
    BY <2>2, <2>5 DEF Linked, Running
  <2>10. LinkInv'
    <3>1. \A h \in Filter \ {f} :
             InChain(flt[h].sec, flt[h].feed) => InChain(flt[h].sec, flt[h].feed)'
      BY <2>1, <2>4 DEF InChain
    <3> QED
      BY <2>1, <2>6, <2>9, <3>1, LinkFrame DEF ShareInv
  <2>11. SlotInv'
    <3>1. ~timer'[f].armed /\ ~timer'[f].late /\ \A h \in Filter \ {f} : timer'[h] = timer[h]
      <4>1. timer' = [timer EXCEPT ![f].armed = FALSE]
        BY <1>6 DEF StartShared, TimerDeleted
      <4>2. timer \in [Filter -> [armed : BOOLEAN, late : BOOLEAN]]
        BY DEF ShareInv, TypeOK
      <4>3. timer'[f] = [timer[f] EXCEPT !.armed = FALSE]
            /\ \A h \in Filter \ {f} : timer'[h] = timer[h]
        BY <1>1, <4>1, <4>2
      <4> QED
        BY <1>1, <1>2, <4>2, <4>3
    <3> QED
      BY <1>1, <2>1, <2>2, <2>4, <2>6, <2>9, <3>1
         DEF ShareInv, SlotInv, ClosedSlotsAreFree, Running
  <2> QED
    BY <2>2, <2>8, <2>10, <2>11 DEF Shared, NoOops, CallInv
<1> QED
  BY <1>4, <1>5, <1>6
(* A feed that is free is held by nobody, and nobody is active on the PID. *)
LEMMA AllocShares ==
    ASSUME ShareInv, AllocFeed
    PROVE  Shared
<1> DEFINE f == op.f
           p == flt[f].par.pid
<1>1. /\ op.pc = "alloc" /\ f \in Filter /\ f \in opened /\ flt[f] \in SlotType
      /\ UNCHANGED <<timer, opened, sec>>
  BY DEF AllocFeed, ShareInv, SlotInv, TypeOK
<1>2. /\ ~Running(f) /\ ~(timer[f].armed \/ timer[f].late)
      /\ flt[f].section /\ Active(p) = {}
  BY <1>1 DEF ShareInv, SlotInv, CallInv
<1>3. CASE Goto("end") /\ UNCHANGED <<flt, feed>>
  <2>1. op'.pc = "idle"
    BY <1>3, GotoFacts DEF ShareInv
  <2>2. \A g \in {f} : ~Holds(g)' /\ ~Linked(g)' /\ ~Running(g)'
    BY <1>2, <1>3, <2>1 DEF Holds, Linked, Running
  <2> QED
    BY <1>1, <1>2, <1>3, <2>1, <2>2, OwnStep
<1>4. ASSUME NEW d \in Feed, feed[d].state = "FREE", flt' = [flt EXCEPT ![f].feed = d],
             NEW r, r.state # "FREE", feed' = [feed EXCEPT ![d] = r],
             op'.pc \in {"link", "restart"}, op'.f = f
      PROVE  Shared
  <2>1. /\ flt'[f] = [flt[f] EXCEPT !.feed = d]
        /\ \A h \in Filter \ {f} : flt'[h] = flt[h]
        /\ feed'[d].state # "FREE" /\ \A e \in Feed \ {d} : feed'[e] = feed[e]
    BY <1>1, <1>4 DEF ShareInv, TypeOK
  <2>2. /\ flt'[f].state = flt[f].state /\ flt'[f].feed = d
        /\ flt'[f].section = flt[f].section /\ flt'[f].par = flt[f].par
    BY <1>1, <2>1 DEF SlotType
  <2>3. \A h \in Filter \ {f} : /\ Holds(h)' => Running(h)
                                /\ Linked(h)' => Running(h)
                                /\ Running(h)' <=> Running(h)
                                /\ Kept(h)
    BY <1>4, <2>1 DEF Holds, Linked, Running, Kept
  <2>4. \A h \in {f} : ~Linked(h)' /\ ~Running(h)'
    BY <1>2, <1>4, <2>2 DEF Linked, Running
  <2>5. ASSUME NEW h \in Filter, Running(h)
        PROVE  /\ flt[h].section /\ flt[h].feed \in Feed \ {d}
               /\ feed'[flt[h].feed] = feed[flt[h].feed]
               /\ feed[flt[h].feed].state # "FREE"
               /\ flt[h].par.pid # p
    <3>1. flt[h].section /\ flt[h].feed \in Feed /\ feed[flt[h].feed].state # "FREE"
      BY <2>5 DEF ShareInv, HeldInv, Holds
    <3>2. h \notin Active(p)
      BY <1>2
    <3>3. flt[h].par.pid # p
      BY <2>5, <3>1, <3>2 DEF Active
    <3>4. flt[h].feed # d
      BY <1>4, <3>1
    <3> QED
      BY <2>1, <3>1, <3>3, <3>4
  <2>6. HeldInv'
    <3>1. ASSUME NEW h \in Filter, Holds(h)'
          PROVE  flt'[h].section /\ flt'[h].feed \in Feed /\ feed'[flt'[h].feed].state # "FREE"
      <4>1. CASE h = f
        BY <1>2, <2>1, <2>2, <4>1
      <4>2. CASE h # f
        BY <2>3, <2>5, <3>1, <4>2 DEF Kept
      <4> QED
        BY <4>1, <4>2
    <3>2. ASSUME NEW h \in Filter, NEW k \in Filter, Holds(h)', Holds(k)'
          PROVE  flt'[h].feed = flt'[k].feed <=> flt'[h].par.pid = flt'[k].par.pid
      <4>1. CASE h # f /\ k # f
        <5>1. Holds(h) /\ Holds(k)
          BY <2>3, <3>2, <4>1 DEF Holds
        <5> QED
          BY <2>3, <4>1, <5>1 DEF ShareInv, HeldInv, Kept
      <4>2. CASE h = f /\ k # f
        BY <2>2, <2>3, <2>5, <3>2, <4>2 DEF Kept
      <4>3. CASE h # f /\ k = f
        BY <2>2, <2>3, <2>5, <3>2, <4>3 DEF Kept
      <4> QED
        BY <4>1, <4>2, <4>3
    <3> QED
      BY <3>1, <3>2 DEF HeldInv
  <2>7. LinkInv'
    <3>1. ASSUME NEW h \in Filter, Linked(h)'
          PROVE  /\ Linked(h) /\ Kept(h)
                 /\ InChain(flt[h].sec, flt[h].feed) => InChain(flt[h].sec, flt[h].feed)'
      <4>1. h # f /\ Running(h)
        BY <2>3, <2>4, <3>1
      <4> QED
        BY <2>1, <2>3, <2>5, <4>1 DEF Linked, InChain
    <3> QED
      BY <1>1, <3>1, LinkFrame DEF ShareInv
  <2>8. SlotInv'
    BY <1>1, <1>2, <1>4, <2>1, <2>3, <2>4 DEF ShareInv, SlotInv, ClosedSlotsAreFree, Running
  <2> QED
    BY <1>4, <2>6, <2>7, <2>8 DEF Shared, NoOops, CallInv
<1>5. ASSUME NEW d \in Feed, feed[d].state = "FREE", flt' = [flt EXCEPT ![f].feed = d],
             feed' = [feed EXCEPT ![d] = [FreeFeed EXCEPT
                         !.state = "READY", !.pid = p, !.listed = TRUE]],
             Goto("link")
      PROVE  Shared
  <2>1. op'.pc = "link" /\ op'.f = f
    BY <1>5, GotoFacts DEF ShareInv
  <2>2. [FreeFeed EXCEPT !.state = "READY", !.pid = p, !.listed = TRUE].state # "FREE"
    BY DEF FreeFeed
  <2> QED
    BY <1>4, <1>5, <2>1, <2>2
<1>6. ASSUME NEW d \in Feed, feed[d].state = "FREE", flt' = [flt EXCEPT ![f].feed = d],
             feed' = [feed EXCEPT ![d] = [FreeFeed EXCEPT !.state = "ALLOCATED"]],
             op' = [op EXCEPT !.pc = "restart", !.back = "end"]
      PROVE  Shared
  <2>1. op'.pc = "restart" /\ op'.f = f
    BY <1>6 DEF ShareInv, TypeOK, OpType
  <2>2. [FreeFeed EXCEPT !.state = "ALLOCATED"].state # "FREE"
    BY DEF FreeFeed
  <2> QED
    BY <1>4, <1>6, <2>1, <2>2
<1> QED
  BY <1>3, <1>5, <1>6 DEF AllocFeed, First, FreeFeeds

(* The new section filter was nobody's; the chain keeps those it had. *)
LEMMA LinkShares ==
    ASSUME ShareInv, LinkFilter
    PROVE  Shared
<1> DEFINE f == op.f
           d == flt[f].feed
           c == feed[d].chain
<1>1. /\ op.pc = "link" /\ f \in Filter /\ f \in opened /\ flt[f] \in SlotType
      /\ UNCHANGED <<timer, opened>>
  BY DEF LinkFilter, ShareInv, SlotInv, TypeOK
<1>2. ~Running(f) /\ ~(timer[f].armed \/ timer[f].late)
  BY <1>1 DEF ShareInv, SlotInv
<1>3. d \in Feed
  BY <1>1 DEF ShareInv, HeldInv, Holds
<1>4. CASE op' = [op EXCEPT !.pc = "restart", !.back = "retry"] /\ UNCHANGED <<flt, feed, sec>>
  <2>1. op'.pc = "restart" /\ op'.f = f
    BY <1>4 DEF ShareInv, TypeOK, OpType
  <2>2. \A g \in {f} : Holds(g) /\ Kept(g) /\ ~Linked(g)' /\ ~Running(g)'
    BY <1>1, <1>2, <1>4, <2>1 DEF Holds, Linked, Running, Kept
  <2> QED
    BY <1>1, <1>2, <1>4, <2>1, <2>2, OwnStep
<1>5. ASSUME NEW x \in Sec, sec[x].state = "FREE",
             sec' = [sec EXCEPT ![x] = [state |-> "READY", feed |-> d, priv |-> f]],
             feed' = [feed EXCEPT ![d].chain = <<x>> \o c],
             flt' = [flt EXCEPT ![f].sec = x], Goto("run")
      PROVE  Shared
  <2>1. op'.pc = "run" /\ op'.f = f
    BY <1>5, GotoFacts DEF ShareInv
  <2>2. flt'[f] = [flt[f] EXCEPT !.sec = x] /\ \A g \in Filter \ {f} : flt'[g] = flt[g]
    BY <1>1, <1>5 DEF ShareInv, TypeOK
  <2>3. /\ flt'[f].state = flt[f].state /\ flt'[f].feed = d /\ flt'[f].sec = x
        /\ flt'[f].section = flt[f].section /\ flt'[f].par = flt[f].par
    BY <1>1, <2>2 DEF SlotType
  <2>4. c \in Seq(Sec) /\ feed[d] \in FeedType
    BY <1>3 DEF ShareInv, TypeOK, FeedType
  <2>5. /\ feed'[d].chain = <<x>> \o c /\ feed'[d].state = feed[d].state
        /\ \A e \in Feed \ {d} : feed'[e] = feed[e]
    BY <1>3, <1>5, <2>4 DEF ShareInv, TypeOK, FeedType
  <2>6. \A g \in Filter \ {f} : /\ Holds(g)' => Running(g)
                                /\ Linked(g)' => Running(g)
                                /\ Running(g)' <=> Running(g)
                                /\ flt'[g] = flt[g]
    BY <2>1, <2>2 DEF Holds, Linked, Running
  <2>7. \A g \in {f} : Holds(g) /\ ~Running(g)'
    BY <1>1, <1>2, <2>3 DEF Holds, Running
  <2>8. HeldInv'
    <3>1. ASSUME NEW g \in Filter, Holds(g)
          PROVE  feed'[flt[g].feed].state # "FREE"
      <4>1. PICK e \in Feed : e = flt[g].feed /\ feed[e].state # "FREE"
        BY ONLY ShareInv, <3>1 DEF ShareInv, HeldInv
      <4> QED
        BY ONLY <2>5, <4>1
    <3>2. ASSUME NEW g \in Filter, Holds(g)'
          PROVE  /\ Holds(g) /\ flt'[g].feed = flt[g].feed /\ flt'[g].par = flt[g].par
                 /\ flt'[g].section <=> flt[g].section
      BY <2>3, <2>6, <2>7, <3>2 DEF Holds
    <3>3. ASSUME NEW g \in Filter, Holds(g)'
          PROVE  flt'[g].section /\ flt'[g].feed \in Feed /\ feed'[flt'[g].feed].state # "FREE"
      BY <3>1, <3>2, <3>3 DEF ShareInv, HeldInv
    <3>4. ASSUME NEW g \in Filter, NEW h \in Filter, Holds(g)', Holds(h)'
          PROVE  flt'[g].feed = flt'[h].feed <=> flt'[g].par.pid = flt'[h].par.pid
      BY <3>2, <3>4 DEF ShareInv, HeldInv
    <3> QED
      BY <3>3, <3>4 DEF HeldInv
  <2>9. /\ Len(<<x>> \o c) = Len(c) + 1 /\ Len(c) \in Nat
        /\ \A i \in 1 .. Len(c) + 1 : (<<x>> \o c)[i] = IF i = 1 THEN x ELSE c[i - 1]
    BY <2>4, ConcatProperties, LenProperties
  <2>10. LinkInv'
    <3> SUFFICES ASSUME NEW g \in Filter, Linked(g)'
                 PROVE  /\ flt'[g].sec \in Sec /\ InChain(flt[g].sec, flt[g].feed)'
                        /\ sec'[flt'[g].sec].state = "READY"
                        /\ sec'[flt'[g].sec].feed = flt'[g].feed
                        /\ sec'[flt'[g].sec].priv = g
      BY DEF LinkInv
    <3>1. CASE g = f
      <4>1. sec'[x] = [state |-> "READY", feed |-> d, priv |-> f]
        BY <1>5 DEF ShareInv, TypeOK
      <4>2. 1 \in 1 .. Len(<<x>> \o c) /\ (<<x>> \o c)[1] = x
        BY <2>9
      <4>3. \E i \in 1 .. Len(feed'[d].chain) : feed'[d].chain[i] = x
        BY <2>5, <4>2
      <4> QED
        BY <2>3, <3>1, <4>1, <4>3 DEF InChain
    <3>2. CASE g # f
      <4> DEFINE y == flt[g].sec
                 e == flt[g].feed
      <4>1. Running(g) /\ flt'[g] = flt[g]
        BY <2>6, <3>2
      <4>2. /\ y \in Sec /\ e \in Feed /\ InChain(y, e)
            /\ sec[y].state = "READY" /\ sec[y].feed = e /\ sec[y].priv = g
        BY <4>1 DEF ShareInv, HeldInv, LinkInv, Holds, Linked
      <4>3. sec'[y] = sec[y]
        BY <1>5, <4>2 DEF ShareInv, TypeOK
      <4>4. \E i \in 1 .. Len(feed'[e].chain) : feed'[e].chain[i] = y
        <5>1. CASE e # d
          BY <2>5, <4>2, <5>1 DEF InChain
        <5>2. CASE e = d
          <6>1. PICK k \in 1 .. Len(c) : c[k] = y
            BY <4>2, <5>2 DEF InChain
          <6>2. k + 1 \in 1 .. Len(c) + 1 /\ k + 1 # 1 /\ (k + 1) - 1 = k
            BY <2>9
          <6>3. (<<x>> \o c)[k + 1] = c[k]
            BY <2>9, <6>2
          <6> QED
            BY <2>5, <2>9, <5>2, <6>1, <6>2, <6>3
        <5> QED
          BY <5>1, <5>2
      <4> QED
        BY <4>1, <4>2, <4>3, <4>4 DEF InChain
    <3> QED
      BY <3>1, <3>2
  <2>11. SlotInv'
    BY <1>1, <1>2, <2>1, <2>2, <2>6, <2>7 DEF ShareInv, SlotInv, ClosedSlotsAreFree, Running
  <2> QED
    BY <2>1, <2>8, <2>10, <2>11 DEF Shared, NoOops, CallInv
<1> QED
  BY <1>4, <1>5 DEF LinkFilter, First, FreeSecs

-----------------------------------------------------------------------------
LEMMA SharingPreserved ==
    ASSUME ~LateTimer, ShareInv, [Next]_vars
    PROVE  ShareInv'
<1>1. TypeOK'
  BY TypesPreserved DEF ShareInv
<1>2. CASE OpStep
  BY <1>1, <1>2, StopShares, QuietStepsShare, RestartShares, ReleaseFilterShares,
     ReleaseFeedShares, StartShares, AllocShares, LinkShares DEF OpStep, Shared, ShareInv
<1>3. CASE \E f \in Filter : SetFilter(f) \/ Start(f) \/ Stop(f) \/ Close(f)
  BY <1>1, <1>3, CallsShare DEF Shared, ShareInv
<1>4. CASE \/ UNCHANGED vars
           \/ \E f \in Filter : Read(f) \/ TimerExpires(f) \/ TimerEnds(f)
           \/ \E d \in Feed : SectionArrives(d)
           \/ SectionIgnored \/ SectionStored \/ Open
  BY <1>1, <1>4, OthersShare DEF Shared, ShareInv
<1> QED
  BY <1>2, <1>3, <1>4 DEF Next

LEMMA SharingInit == Init => ShareInv
<1> SUFFICES ASSUME Init PROVE ShareInv
  OBVIOUS
<1>1. op.pc = "idle"
  BY DEF Init, NoOp
<1>2. \A f \in Filter : flt[f].state = "FREE" /\ ~timer[f].armed /\ ~timer[f].late
  BY DEF Init, FreeSlot
<1>3. \A f \in Filter : ~Running(f) /\ ~Holds(f) /\ ~Linked(f)
  BY <1>1, <1>2 DEF Running, Holds, Linked
<1> QED
  BY <1>1, <1>2, <1>3, InitTypes
     DEF ShareInv, NoOops, SlotInv, ClosedSlotsAreFree, HeldInv, CallInv, LinkInv

(* What every call of dmxdev.c finds when it begins, and leaves behind. *)
LEMMA Sharing ==
    ASSUME ~LateTimer
    PROVE  Spec => []ShareInv
<1>1. ShareInv /\ [Next]_vars => ShareInv'
  BY SharingPreserved
<1> QED
  BY <1>1, SharingInit, PTL DEF Spec

(* dvb_dmxdev_feed_restart and release_filter never follow a NULL feed and never
   run off the end of a chain, even when demux calls fail half-way. *)
THEOREM NoCallOopses ==
    ASSUME ~LateTimer
    PROVE  Spec => []NoOops
<1>1. ShareInv => NoOops
  BY DEF ShareInv
<1> QED
  BY <1>1, Sharing, PTL

(* A slot that was closed can be opened again: dvb_dmxdev_filter_free leaves it
   free, and no timer handler that ends later brings it back to life. *)
THEOREM ClosedStaysFree ==
    ASSUME ~LateTimer
    PROVE  Spec => []ClosedSlotsAreFree
<1>1. ShareInv => ClosedSlotsAreFree
  BY DEF ShareInv, SlotInv
<1> QED
  BY <1>1, Sharing, PTL

(* Between two calls, running filters of dmxdev.c share a feed exactly when they
   have the same PID, whatever calls failed before. *)
THEOREM FeedsAreShared ==
    ASSUME ~LateTimer
    PROVE  Spec => []OneFeedPerPid
<1>1. ShareInv => OneFeedPerPid
  BY DEF ShareInv, HeldInv, Holds, OneFeedPerPid
<1> QED
  BY <1>1, Sharing, PTL

-----------------------------------------------------------------------------
(* What follows is about calls that have not failed: dmxdev.c leaves a section
   filter in a chain, and a feed at rest, after a demux call that fails half-way. *)

(* The feed of the call in progress that no one is served by until it is started again. *)
Paused(d) ==
    \/ op.pc \in {"release", "restart", "link", "run"} /\ flt[op.f].feed = d
    \/ op.pc = "restarting" /\ flt[op.g].feed = d

(* A feed is on the list, and used by somebody, from when it is allocated until it is
   released; it has the PID of whoever holds it. *)
FeedInv ==
    /\ \A d \in Feed :
          /\ feed[d].state # "FREE" =>
                feed[d].listed /\ \E f \in Filter : Holds(f) /\ flt[f].feed = d
          /\ feed[d].state = "FREE" => feed[d].chain = <<>>
    /\ \A f \in Filter : Holds(f) => feed[flt[f].feed].pid = flt[f].par.pid

(* A section filter that is allocated is somebody's. *)
SecInv == \A x \in Sec : sec[x].state # "FREE" => \E f \in Filter : Linked(f) /\ flt[f].sec = x

(* Only the feed of the call in progress is at rest. *)
RunInv ==
    /\ \A f \in Filter : Running(f) => feed[flt[f].feed].filtering \/ Paused(flt[f].feed)
    /\ op.pc \in {"link", "run"} => ~feed[flt[op.f].feed].filtering
    /\ op.pc \in {"arm", "go"} => feed[flt[op.f].feed].filtering
    /\ op.pc \in {"restarting", "retry"} => flt[op.f].feed \in Feed

(* A filter that is stopped still has the sections it has not given out. *)
Keeps(f) ==
    \/ Running(f)
    \/ /\ op.f = f
       /\ op.pc \in {"halt", "release", "stopped"} \/ (op.pc \in {"restart", "restarting"} /\ op.back = "stopped")

UnreadInv ==
    \A f \in Filter :
        /\ ~Keeps(f) => flt[f].unread = <<>>
        /\ \A i \in 1 .. Len(flt[f].unread) : flt[f].unread[i] = flt[f].par.pid

(* A section is offered to the chain of the feed it came on. *)
DispInv ==
    disp # Quiet => \A i \in 1 .. Len(disp.rest) : InChain(disp.rest[i], disp.feed)

Served == FeedInv /\ SecInv /\ RunInv /\ UnreadInv /\ DispInv

ServeInv == ShareInv /\ ChainsAreSound /\ (~failed => Served)

(* The demux has the feeds it had, for the PIDs it had them for. *)
SameFeeds ==
    \A d \in Feed :
        /\ feed'[d].state = "FREE" <=> feed[d].state = "FREE"
        /\ feed'[d].listed <=> feed[d].listed
        /\ feed'[d].pid = feed[d].pid
        /\ feed[d].state = "FREE" => feed'[d].chain = feed[d].chain

LEMMA FeedFrame ==
    ASSUME FeedInv, SameFeeds,
           \A f \in Filter : Holds(f) => \E g \in Filter : Holds(g)' /\ flt'[g].feed = flt[f].feed,
           \A f \in Filter : Holds(f)' =>
              flt'[f].feed \in Feed /\ feed[flt'[f].feed].pid = flt'[f].par.pid
    PROVE  FeedInv'
<1>1. ASSUME NEW d \in Feed, feed'[d].state # "FREE"
      PROVE  feed'[d].listed /\ \E f \in Filter : Holds(f)' /\ flt'[f].feed = d
  <2>1. feed[d].state # "FREE"
    BY <1>1 DEF SameFeeds
  <2>2. feed[d].listed /\ \E f \in Filter : Holds(f) /\ flt[f].feed = d
    BY <2>1 DEF FeedInv
  <2> QED
    BY <2>2 DEF SameFeeds
<1>2. ASSUME NEW d \in Feed, feed'[d].state = "FREE" PROVE feed'[d].chain = <<>>
  BY <1>2 DEF SameFeeds, FeedInv
<1>3. ASSUME NEW f \in Filter, Holds(f)' PROVE feed'[flt'[f].feed].pid = flt'[f].par.pid
  BY <1>3 DEF SameFeeds
<1> QED
  BY <1>1, <1>2, <1>3 DEF FeedInv

LEMMA SecFrame ==
    ASSUME SecInv, UNCHANGED sec,
           \A f \in Filter : Linked(f) => Linked(f)' /\ flt'[f].sec = flt[f].sec
    PROVE  SecInv'
<1> SUFFICES ASSUME NEW x \in Sec, sec[x].state # "FREE"
             PROVE  \E f \in Filter : Linked(f)' /\ flt'[f].sec = x
  BY DEF SecInv
<1> QED
  BY DEF SecInv

LEMMA UnreadFrame ==
    ASSUME UnreadInv,
           \A f \in Filter :
              \/ flt'[f].unread = <<>>
              \/ /\ flt'[f].unread = flt[f].unread /\ flt'[f].par = flt[f].par
                 /\ Keeps(f) => Keeps(f)'
    PROVE  UnreadInv'
<1> SUFFICES ASSUME NEW f \in Filter
             PROVE  /\ ~Keeps(f)' => flt'[f].unread = <<>>
                    /\ \A i \in 1 .. Len(flt'[f].unread) : flt'[f].unread[i] = flt'[f].par.pid
  BY DEF UnreadInv
<1>1. CASE flt'[f].unread = <<>>
  <2>1. Len(<<>>) = 0
    OBVIOUS
  <2> QED
    BY <1>1, <2>1
<1>2. CASE /\ flt'[f].unread = flt[f].unread /\ flt'[f].par = flt[f].par
           /\ Keeps(f) => Keeps(f)'
  BY <1>2 DEF UnreadInv
<1> QED
  BY <1>1, <1>2

LEMMA DispFrame ==
    ASSUME DispInv, TypeOK, UNCHANGED disp,
           disp = Quiet \/ \A d \in Feed : feed'[d].chain = feed[d].chain
    PROVE  DispInv'
<1> SUFFICES ASSUME disp # Quiet, NEW i \in 1 .. Len(disp.rest)
             PROVE  InChain(disp.rest[i], disp.feed)'
  BY DEF DispInv, Quiet
<1>1. disp.feed \in Feed
  BY DEF TypeOK
<1>2. InChain(disp.rest[i], disp.feed) /\ feed'[disp.feed].chain = feed[disp.feed].chain
  BY <1>1 DEF DispInv
<1> QED
  BY <1>2 DEF InChain

(* An error return counts: from then on nothing is claimed. *)
LEMMA FailedStays == ASSUME TypeOK, [Next]_vars, failed PROVE failed'
BY DEF Next, vars, Open, SetFilter, Start, Stop, Close, Call, Read, OpStep, StopNothing, StopFilter,
       HaltFeed, ReleaseFilter, RestartOther, RestartFeed, ReleaseFeed, Stopped, FilterSet,
       FilterFree, StartAlone, StartShared, PauseFeed, AllocFeed, LinkFilter, RetryFeed, RunFeed,
       ArmTimer, Go, SectionArrives, SectionIgnored, SectionStored, TimerExpires, TimerEnds,
       StartSucceeds, StartFails

(* The steps of everybody but the call in progress change no feed; whoever they set
   going is the filter that the call is about to set going. *)
LEMMA SurroundServes ==
    ASSUME ShareInv, Served, UNCHANGED <<op, feed, sec>>,
           \A f \in Filter :
              /\ Kept(f)
              /\ Running(f) => Running(f)'
              /\ Running(f)' => Running(f) \/ (op.pc = "go" /\ op.f = f),
           UnreadInv', DispInv'
    PROVE  Served'
<1>1. \A f \in Filter : (Holds(f)' <=> Holds(f)) /\ (Linked(f)' <=> Linked(f))
  BY DEF Holds, Linked
<1>2. FeedInv'
  <2>1. SameFeeds
    BY DEF SameFeeds
  <2>2. ASSUME NEW f \in Filter, Holds(f)
        PROVE  /\ \E g \in Filter : Holds(g)' /\ flt'[g].feed = flt[f].feed
               /\ flt'[f].feed \in Feed /\ feed[flt'[f].feed].pid = flt'[f].par.pid
    BY <1>1, <2>2 DEF Kept, ShareInv, HeldInv, Served, FeedInv
  <2> QED
    BY <1>1, <2>1, <2>2, FeedFrame DEF Served
<1>3. SecInv'
  BY <1>1, SecFrame DEF Kept, Served
<1>4. RunInv'
  <2>1. ASSUME NEW f \in Filter, Running(f)'
        PROVE  (feed[flt[f].feed].filtering \/ Paused(flt[f].feed))'
    <3>1. flt'[f].feed = flt[f].feed
      BY DEF Kept
    <3>2. feed[flt[f].feed].filtering \/ Paused(flt[f].feed)
      BY <2>1 DEF Served, RunInv
    <3>3. op.pc \in {"release", "restart", "link", "run"} => flt'[op.f].feed = flt[op.f].feed
      BY DEF Kept, ShareInv, TypeOK
    <3>4. op.pc = "restarting" => flt'[op.g].feed = flt[op.g].feed
      BY DEF Kept, ShareInv, CallInv
    <3> QED
      BY <3>1, <3>2, <3>3, <3>4 DEF Paused
  <2>2. ASSUME op.pc # "idle"
        PROVE  op.f \in Filter /\ flt'[op.f].feed = flt[op.f].feed
    BY <2>2 DEF Kept, ShareInv, TypeOK
  <2>3. /\ op'.pc \in {"link", "run"} => ~feed'[flt'[op'.f].feed].filtering
        /\ op'.pc \in {"arm", "go"} => feed'[flt'[op'.f].feed].filtering
        /\ op'.pc \in {"restarting", "retry"} => flt'[op'.f].feed \in Feed
    BY <2>2 DEF Served, RunInv
  <2> QED
    BY <2>1, <2>3 DEF RunInv
<1> QED
  BY <1>2, <1>3, <1>4 DEF Served

LEMMA AppendAlike ==
    ASSUME NEW S, NEW u \in Seq(S), NEW p \in S, \A i \in 1 .. Len(u) : u[i] = p
    PROVE  \A i \in 1 .. Len(Append(u, p)) : Append(u, p)[i] = p
<1>1. /\ Len(Append(u, p)) = Len(u) + 1
      /\ \A i \in 1 .. Len(u) : Append(u, p)[i] = u[i]
      /\ Append(u, p)[Len(u) + 1] = p
  BY AppendProperties
<1>2. PICK n \in Nat : n = Len(u)
  BY LenProperties
<1>3. \A i \in 1 .. n + 1 : i \in 1 .. n \/ i = n + 1
  OBVIOUS
<1> QED
  BY <1>1, <1>2, <1>3

(* A section comes from the chain of its feed, so the filter that stores it is one
   of that feed, and the feed has the filter's PID. *)
LEMMA StoredIsOfItsPid ==
    ASSUME ShareInv, ChainsAreSound, Served, SectionStored
    PROVE  \E f \in Filter :
              /\ f = sec[Head(disp.rest)].priv
              /\ Running(f) /\ flt[f].section
              /\ feed[disp.feed].pid = flt[f].par.pid
<1> DEFINE x == Head(disp.rest)
           d == disp.feed
<1>1. disp # Quiet /\ d \in Feed /\ disp.rest \in Seq(Sec) /\ disp.rest # <<>>
  BY DEF SectionStored, ShareInv, TypeOK
<1>2. x = disp.rest[1] /\ 1 \in 1 .. Len(disp.rest)
  BY <1>1, HeadTailProperties, EmptySeq, LenProperties
<1>3. PICK i \in 1 .. Len(feed[d].chain) : feed[d].chain[i] = x
  BY <1>1, <1>2 DEF Served, DispInv, InChain
<1>4. feed[d].chain \in Seq(Sec)
  BY <1>1 DEF ShareInv, TypeOK, FeedType
<1>5. x \in Sec
  BY <1>3, <1>4, ElementOfSeq
<1>6. feed[d].state # "FREE"
  <2>1. Len(<<>>) = 0
    OBVIOUS
  <2> QED
    BY <1>1, <1>3, <2>1 DEF Served, FeedInv
<1>7. sec[x].state = "READY" /\ sec[x].feed = d
  BY <1>1, <1>3, <1>6 DEF Served, FeedInv, ChainsAreSound
<1>8. PICK f \in Filter : Linked(f) /\ flt[f].sec = x
  BY <1>5, <1>7 DEF Served, SecInv
<1>9. sec[x].priv = f /\ flt[f].feed = d
  BY <1>7, <1>8 DEF ShareInv, LinkInv
<1>10. Holds(f)
  BY <1>8 DEF Linked, Holds
<1>11. flt[f].state = "GO"
  BY <1>9 DEF SectionStored
<1> QED
  BY <1>9, <1>10, <1>11 DEF Running, Served, FeedInv, ShareInv, HeldInv

LEMMA OthersServe ==
    ASSUME ShareInv, ChainsAreSound, Served,
           \/ UNCHANGED vars
           \/ \E f \in Filter : Read(f) \/ TimerExpires(f) \/ TimerEnds(f)
           \/ \E d \in Feed : SectionArrives(d)
           \/ SectionIgnored \/ SectionStored \/ Open
    PROVE  Served'
<1>0. /\ \A f \in Filter : flt[f] \in SlotType
      /\ UnreadInv /\ DispInv /\ TypeOK
  BY DEF ShareInv, TypeOK, Served
<1>1. CASE UNCHANGED <<flt, opened, feed, sec, op>> /\ (UNCHANGED disp \/ DispInv')
  <2>1. \A f \in Filter : Kept(f) /\ (Running(f)' <=> Running(f))
    BY <1>1 DEF Kept, Running
  <2>2. UnreadInv'
    BY <1>0, <1>1, UnreadFrame DEF Keeps, Running
  <2>3. DispInv'
    BY <1>0, <1>1, DispFrame
  <2> QED
    BY <1>1, <2>1, <2>2, <2>3, SurroundServes
<1>2. ASSUME NEW f \in Filter, Read(f) PROVE Served'
  <2>1. /\ \A g \in Filter \ {f} : flt'[g] = flt[g]
        /\ flt'[f] = Flushed(flt[f])
           \/ (flt[f].unread # <<>> /\ flt'[f] = [flt[f] EXCEPT !.unread = Tail(flt[f].unread)])
        /\ UNCHANGED <<opened, feed, sec, op, disp>>
    <3>1. CASE flt' = [flt EXCEPT ![f] = Flushed(flt[f])]
      BY <1>0, <1>2, <3>1, EditFacts DEF Read
    <3>2. CASE flt[f].unread # <<>> /\ flt' = [flt EXCEPT ![f].unread = Tail(flt[f].unread)]
      BY <1>0, <1>2, <3>2 DEF Read, TypeOK
    <3> QED
      BY <1>2, <3>1, <3>2 DEF Read
  <2>2. /\ Kept(f) /\ flt'[f].state = flt[f].state
        /\ flt'[f].unread = <<>> \/ (flt[f].unread # <<>> /\ flt'[f].unread = Tail(flt[f].unread))
    BY <1>0, <2>1 DEF Kept, Flushed, SlotType
  <2>3. \A g \in Filter : Kept(g) /\ (Running(g)' <=> Running(g)) /\ (Keeps(g)' <=> Keeps(g))
    BY <2>1, <2>2 DEF Kept, Running, Keeps
  <2>4. UnreadInv'
    <3>1. ASSUME flt[f].unread # <<>>, flt'[f].unread = Tail(flt[f].unread)
          PROVE  /\ Keeps(f)
                 /\ \A i \in 1 .. Len(flt'[f].unread) : flt'[f].unread[i] = flt[f].par.pid
      <4>1. flt[f].unread \in Seq(Pids \cup {NoPid})
        BY <1>0 DEF SlotType
      <4>2. /\ Len(flt'[f].unread) = Len(flt[f].unread) - 1
            /\ \A i \in 1 .. Len(flt'[f].unread) : flt'[f].unread[i] = flt[f].unread[i + 1]
        BY <3>1, <4>1, HeadTailProperties
      <4>3. Len(flt[f].unread) \in Nat
        BY <4>1, LenProperties
      <4>4. \A i \in 1 .. Len(flt'[f].unread) : i + 1 \in 1 .. Len(flt[f].unread)
        BY <4>2, <4>3
      <4> QED
        BY <1>0, <3>1, <4>2, <4>4 DEF UnreadInv
    <3>2. ASSUME NEW g \in Filter
          PROVE  /\ ~Keeps(g) => flt'[g].unread = <<>>
                 /\ \A i \in 1 .. Len(flt'[g].unread) : flt'[g].unread[i] = flt'[g].par.pid
      <4>1. Len(<<>>) = 0
        OBVIOUS
      <4>2. CASE g # f
        BY <1>0, <2>1, <4>2 DEF UnreadInv
      <4>3. CASE g = f
        BY <2>2, <3>1, <4>1, <4>3 DEF Kept
      <4> QED
        BY <4>2, <4>3
    <3> QED
      BY <2>3, <3>2 DEF UnreadInv
  <2>5. DispInv'
    BY <1>0, <2>1, DispFrame
  <2> QED
    BY <2>1, <2>3, <2>4, <2>5, SurroundServes
<1>3. ASSUME NEW f \in Filter, TimerExpires(f) \/ TimerEnds(f) PROVE Served'
  <2>1. /\ flt' = [flt EXCEPT ![f].err = "ETIMEDOUT"] \/ flt' = [flt EXCEPT ![f].state = "TIMEDOUT"]
        /\ UNCHANGED <<opened, feed, sec, op, disp>>
    BY <1>3 DEF TimerExpires, TimerEnds
  <2>2. \A g \in Filter : /\ Kept(g) /\ flt'[g].unread = flt[g].unread
                          /\ Running(g) => Running(g)'
                          /\ g # f => flt'[g] = flt[g]
    <3>1. \A g \in Filter \ {f} : flt'[g] = flt[g]
      BY <1>0, <2>1 DEF TypeOK
    <3>2. flt'[f] = [flt[f] EXCEPT !.err = "ETIMEDOUT"] \/ flt'[f] = [flt[f] EXCEPT !.state = "TIMEDOUT"]
      BY <1>0, <2>1 DEF TypeOK
    <3>3. /\ Kept(f) /\ flt'[f].unread = flt[f].unread
          /\ flt'[f].state = flt[f].state \/ flt'[f].state = "TIMEDOUT"
      BY <1>0, <3>2 DEF Kept, SlotType
    <3> QED
      BY <3>1, <3>3 DEF Kept, Running
  <2>3. Running(f)' => Running(f) \/ (op.pc = "go" /\ op.f = f)
    <3>1. CASE TimerExpires(f)
      BY <1>0, <3>1 DEF TimerExpires, Running, SlotType, TypeOK
    <3>2. CASE TimerEnds(f)
      BY <3>2 DEF TimerEnds, ShareInv, SlotInv
    <3> QED
      BY <1>3, <3>1, <3>2
  <2>4. UnreadInv'
    BY <1>0, <2>1, <2>2, UnreadFrame DEF Kept, Keeps
  <2>5. DispInv'
    BY <1>0, <2>1, DispFrame
  <2>6. \A g \in Filter : Running(g)' => Running(g) \/ (op.pc = "go" /\ op.f = g)
    BY <2>2, <2>3 DEF Running
  <2> QED
    BY <2>1, <2>2, <2>4, <2>5, <2>6, SurroundServes
<1>4. ASSUME SectionIgnored \/ SectionStored PROVE DispInv'
  <2>1. disp # Quiet /\ disp' = Rest /\ UNCHANGED feed
    BY <1>4 DEF SectionIgnored, SectionStored
  <2>2. disp \in [feed : Feed, rest : Seq(Sec)] /\ disp.rest # <<>>
    BY <1>0, <2>1 DEF TypeOK
  <2>3. disp.rest \in Seq(Sec) /\ Len(disp.rest) \in Nat
    BY <2>2, LenProperties
  <2>4. CASE disp' = Quiet
    BY <2>4 DEF DispInv, Quiet
  <2>5. CASE disp' = [disp EXCEPT !.rest = Tail(@)]
    <3>1. disp'.feed = disp.feed /\ disp'.rest = Tail(disp.rest)
      BY <2>2, <2>5
    <3>2. /\ Len(disp'.rest) = Len(disp.rest) - 1
          /\ \A i \in 1 .. Len(disp'.rest) : disp'.rest[i] = disp.rest[i + 1]
      BY <2>2, <2>3, <3>1, HeadTailProperties
    <3>3. \A i \in 1 .. Len(disp'.rest) : i + 1 \in 1 .. Len(disp.rest)
      BY <2>3, <3>2
    <3>4. \A i \in 1 .. Len(disp'.rest) : InChain(disp.rest[i + 1], disp.feed)
      BY <1>0, <2>1, <3>3 DEF DispInv
    <3> QED
      BY <2>1, <3>1, <3>2, <3>4 DEF DispInv, InChain
  <2> QED
    BY <2>1, <2>4, <2>5 DEF Rest
<1>5. CASE SectionStored
  <2> PICK f \in Filter :
         /\ f = sec[Head(disp.rest)].priv
         /\ Running(f) /\ flt[f].section
         /\ feed[disp.feed].pid = flt[f].par.pid
    BY <1>5, StoredIsOfItsPid
  <2>1. /\ flt' = [flt EXCEPT
              ![f].unread = IF Len(flt[f].unread) < Room THEN Append(@, feed[disp.feed].pid) ELSE @,
              ![f].err    = IF Len(flt[f].unread) < Room THEN @ ELSE "EOVERFLOW",
              ![f].state  = IF flt[f].par.oneshot THEN "DONE" ELSE @]
        /\ flt[f].state = "GO"
        /\ UNCHANGED <<opened, feed, sec, op>>
    BY <1>5 DEF SectionStored
  <2>2. \A g \in Filter \ {f} : flt'[g] = flt[g]
    BY <1>0, <2>1 DEF TypeOK
  <2>3. /\ Kept(f) /\ flt'[f].state \in {"GO", "DONE"}
        /\ flt'[f].unread = flt[f].unread \/ flt'[f].unread = Append(flt[f].unread, flt[f].par.pid)
    <3>1. PICK u, e, s :
            /\ flt' = [flt EXCEPT ![f].unread = u, ![f].err = e, ![f].state = s]
            /\ u = IF Len(flt[f].unread) < Room
                     THEN Append(flt[f].unread, feed[disp.feed].pid) ELSE flt[f].unread
            /\ s = IF flt[f].par.oneshot THEN "DONE" ELSE flt[f].state
      <4> DEFINE u0 == IF Len(flt[f].unread) < Room
                         THEN Append(flt[f].unread, feed[disp.feed].pid) ELSE flt[f].unread
                 e0 == IF Len(flt[f].unread) < Room THEN flt[f].err ELSE "EOVERFLOW"
                 s0 == IF flt[f].par.oneshot THEN "DONE" ELSE flt[f].state
      <4>1. flt' = [flt EXCEPT ![f].unread = u0, ![f].err = e0, ![f].state = s0]
        BY ONLY <2>1
      <4> QED
        BY ONLY <4>1
    <3>2. flt \in [Filter -> SlotType]
      BY <1>0 DEF TypeOK
    <3>3. flt'[f] = [flt[f] EXCEPT !.unread = u, !.err = e, !.state = s]
      BY ONLY <3>1, <3>2, f \in Filter
    <3>4. u = flt[f].unread \/ u = Append(flt[f].unread, flt[f].par.pid)
      BY ONLY <3>1, feed[disp.feed].pid = flt[f].par.pid
    <3>5. s \in {"GO", "DONE"}
      BY ONLY <3>1, <2>1
    <3>6. flt[f] \in SlotType
      BY ONLY <3>2, f \in Filter
    <3>7. /\ flt'[f].unread = u /\ flt'[f].state = s
          /\ Kept(f)
      BY ONLY <3>3, <3>6 DEF Kept, SlotType
    <3> QED
      BY ONLY <3>4, <3>5, <3>7
  <2>4. \A g \in Filter : Kept(g) /\ (Running(g)' <=> Running(g)) /\ (Keeps(g)' <=> Keeps(g))
    BY <2>1, <2>2, <2>3 DEF Kept, Running, Keeps
  <2>5. UnreadInv'
    <3>1. \A i \in 1 .. Len(flt'[f].unread) : flt'[f].unread[i] = flt[f].par.pid
      <4>1. flt[f].unread \in Seq(Pids \cup {NoPid}) /\ flt[f].par.pid \in Pids \cup {NoPid}
        BY <1>0 DEF SlotType, Request, NoRequest
      <4>2. \A i \in 1 .. Len(flt[f].unread) : flt[f].unread[i] = flt[f].par.pid
        BY <1>0 DEF UnreadInv
      <4>3. CASE flt'[f].unread = Append(flt[f].unread, flt[f].par.pid)
        <5> PICK u \in Seq(Pids \cup {NoPid}), p \in Pids \cup {NoPid} :
               u = flt[f].unread /\ p = flt[f].par.pid
          BY <4>1
        <5>1. \A i \in 1 .. Len(u) : u[i] = p
          BY <4>2
        <5>2. u \in Seq(Pids \cup {NoPid}) /\ p \in Pids \cup {NoPid}
          OBVIOUS
        <5>3. \A i \in 1 .. Len(Append(u, p)) : Append(u, p)[i] = p
          BY ONLY <5>1, <5>2, AppendAlike
        <5> QED
          BY <4>3, <5>3
      <4> QED
        BY <2>3, <4>2, <4>3
    <3>2. Keeps(f)
      BY DEF Keeps
    <3>3. ASSUME NEW g \in Filter
          PROVE  /\ ~Keeps(g) => flt'[g].unread = <<>>
                 /\ \A i \in 1 .. Len(flt'[g].unread) : flt'[g].unread[i] = flt'[g].par.pid
      <4>1. CASE g # f
        BY <1>0, <2>2, <4>1 DEF UnreadInv
      <4>2. CASE g = f
        BY <2>3, <3>1, <3>2, <4>2 DEF Kept
      <4> QED
        BY <4>1, <4>2
    <3> QED
      BY <2>4, <3>3 DEF UnreadInv
  <2> QED
    BY <1>4, <1>5, <2>1, <2>4, <2>5, SurroundServes
<1>6. CASE Open
  <2> PICK f \in Filter :
         /\ flt[f].state = "FREE"
         /\ flt' = [flt EXCEPT ![f] = [Flushed(flt[f]) EXCEPT !.state = "ALLOCATED"]]
         /\ UNCHANGED <<feed, sec, op, disp>>
    BY <1>6 DEF Open, First
  <2>1. /\ flt'[f].state = "ALLOCATED" /\ flt'[f].unread = <<>>
        /\ \A g \in Filter : Kept(g) /\ (g # f => flt'[g] = flt[g])
    BY <1>0 DEF Flushed, Kept, SlotType, TypeOK
  <2>2. \A g \in Filter : Running(g)' <=> Running(g)
    BY <2>1 DEF Running
  <2>3. UnreadInv'
    BY <1>0, <2>1, <2>2, UnreadFrame DEF Kept, Keeps, Running
  <2>4. DispInv'
    BY <1>0, DispFrame
  <2> QED
    BY <2>1, <2>2, <2>3, <2>4, SurroundServes
<1>7. CASE \E d \in Feed : SectionArrives(d)
  <2> PICK d \in Feed : SectionArrives(d)
    BY <1>7
  <2>1. disp' = [feed |-> d, rest |-> feed[d].chain] /\ UNCHANGED <<flt, opened, feed, sec, op>>
    BY DEF SectionArrives
  <2>2. DispInv'
    BY <2>1 DEF DispInv, InChain
  <2> QED
    BY <1>1, <2>1, <2>2
<1> QED
  BY <1>1, <1>2, <1>3, <1>4, <1>5, <1>6, <1>7 DEF vars, SectionIgnored

(* A step of the call on slot f, before and after which f holds and has the same:
   whoever ran on a feed that was at rest or running still does. *)
LEMMA OwnServes ==
    ASSUME ShareInv, Served, SameFeeds, UNCHANGED <<sec, disp>>,
           NEW f \in Filter, op.pc = "idle" \/ op.f = f, op'.pc = "idle" \/ op'.f = f,
           \A d \in Feed : feed'[d].chain = feed[d].chain,
           \A g \in Filter \ {f} : flt'[g] = flt[g],
           \A g \in {f} : (Holds(g)' <=> Holds(g)) /\ (Linked(g)' <=> Linked(g)),
           Holds(f) => Kept(f),
           \/ flt'[f].unread = <<>>
           \/ flt'[f].unread = flt[f].unread /\ flt'[f].par = flt[f].par /\ \A g \in {f} : Keeps(g) => Keeps(g)',
           \A g \in {f} : Running(g)' => feed'[flt'[g].feed].filtering,
           \A d \in Feed : feed[d].filtering \/ Paused(d) => (feed[d].filtering \/ Paused(d))',
           op'.pc \in {"link", "run"} => ~feed'[flt'[f].feed].filtering,
           op'.pc \in {"arm", "go"} => feed'[flt'[f].feed].filtering,
           op'.pc \in {"restarting", "retry"} => flt'[f].feed \in Feed
    PROVE  Served'
<1>0. TypeOK /\ FeedInv /\ SecInv /\ RunInv /\ UnreadInv /\ DispInv
  BY DEF ShareInv, Served
<1>1. \A g \in Filter \ {f} : /\ Holds(g) <=> Running(g)
                              /\ Holds(g)' <=> Running(g)
                              /\ Linked(g) <=> Running(g)
                              /\ Linked(g)' <=> Running(g)
                              /\ Keeps(g) <=> Running(g)
                              /\ Keeps(g)' <=> Running(g)
                              /\ Running(g)' <=> Running(g)
                              /\ Kept(g)
  BY DEF Holds, Linked, Keeps, Running, Kept
<1>2. \A g \in Filter : /\ Holds(g)' <=> Holds(g)
                        /\ Linked(g)' <=> Linked(g)
                        /\ Holds(g) => Kept(g)
  BY <1>1
<1>3. FeedInv'
  <2>1. ASSUME NEW g \in Filter, Holds(g)
        PROVE  /\ \E h \in Filter : Holds(h)' /\ flt'[h].feed = flt[g].feed
               /\ flt'[g].feed \in Feed /\ feed[flt'[g].feed].pid = flt'[g].par.pid
    BY <1>0, <1>2, <2>1 DEF Kept, ShareInv, HeldInv, FeedInv
  <2> QED
    BY <1>0, <1>2, <2>1, FeedFrame
<1>4. SecInv'
  <2>1. \A g \in Filter : Linked(g) => Holds(g)
    BY DEF Linked, Holds
  <2> QED
    BY <1>0, <1>2, <2>1, SecFrame DEF Kept
<1>5. UnreadInv'
  <2>1. ASSUME NEW g \in Filter
        PROVE  \/ flt'[g].unread = <<>>
               \/ /\ flt'[g].unread = flt[g].unread /\ flt'[g].par = flt[g].par
                  /\ Keeps(g) => Keeps(g)'
    BY <1>1
  <2> QED
    BY <1>0, <2>1, UnreadFrame
<1>6. DispInv'
  BY <1>0, DispFrame
<1>7. RunInv'
  <2>1. ASSUME NEW g \in Filter, Running(g)'
        PROVE  (feed[flt[g].feed].filtering \/ Paused(flt[g].feed))'
    <3>1. CASE g = f
      BY <2>1, <3>1
    <3>2. CASE g # f
      <4>1. PICK d \in Feed : d = flt[g].feed /\ d = flt'[g].feed
        BY <1>1, <2>1, <3>2 DEF ShareInv, HeldInv
      <4>2. feed[d].filtering \/ Paused(d)
        BY <1>0, <1>1, <2>1, <3>2, <4>1 DEF RunInv
      <4>3. (feed[d].filtering \/ Paused(d))'
        BY <4>2
      <4> QED
        BY <4>1, <4>3 DEF Paused
    <3> QED
      BY <3>1, <3>2
  <2> QED
    BY <2>1 DEF RunInv
<1> QED
  BY <1>3, <1>4, <1>5, <1>6, <1>7 DEF Served

LEMMA CallsServe ==
    ASSUME ShareInv, Served, NEW f \in Filter, SetFilter(f) \/ Start(f) \/ Stop(f) \/ Close(f)
    PROVE  Served'
<1>1. /\ op.pc = "idle" /\ op'.f = f /\ op'.pc \in {"stop", "start"}
      /\ UNCHANGED <<flt, timer, opened, feed, sec, disp>>
  BY DEF SetFilter, Start, Stop, Close, Call, NoOp
<1>2. SameFeeds
  BY <1>1 DEF SameFeeds
<1>3. \A g \in {f} : /\ Holds(g)' <=> Holds(g)
                     /\ Linked(g)' <=> Linked(g)
                     /\ Keeps(g)' <=> Keeps(g)
                     /\ Running(g)' <=> Running(g)
                     /\ Kept(g)
  BY <1>1 DEF Holds, Linked, Keeps, Running, Kept
<1>4. \A d \in Feed : ~Paused(d)
  BY <1>1 DEF Paused
<1>5. \A g \in {f} : Running(g)' => feed'[flt'[g].feed].filtering
  BY <1>1, <1>3 DEF Served, RunInv, Paused
<1> QED
  BY <1>1, <1>2, <1>3, <1>4, <1>5, OwnServes

(* A call on a feed that is in use changes whether it filters, and nothing else. *)
LEMMA FeedCall ==
    ASSUME TypeOK, NEW d \in Feed, feed[d].state # "FREE", NEW b \in BOOLEAN, NEW v, v # "FREE",
           feed' = [feed EXCEPT ![d].filtering = b, ![d].state = v]
    PROVE  /\ SameFeeds /\ \A e \in Feed : feed'[e].chain = feed[e].chain
           /\ feed'[d].filtering = b
           /\ \A e \in Feed \ {d} : feed'[e].filtering = feed[e].filtering
<1>1. feed \in [Feed -> FeedType] /\ feed[d] \in FeedType
  BY DEF TypeOK
<1>2. /\ feed'[d] = [feed[d] EXCEPT !.filtering = b, !.state = v]
      /\ \A e \in Feed \ {d} : feed'[e] = feed[e]
  BY <1>1
<1>3. /\ feed'[d].filtering = b /\ feed'[d].state = v /\ feed'[d].chain = feed[d].chain
      /\ feed'[d].pid = feed[d].pid /\ feed'[d].listed = feed[d].listed
  BY <1>1, <1>2 DEF FeedType
<1> QED
  BY <1>2, <1>3 DEF SameFeeds

LEMMA StoppedFeed ==
    ASSUME TypeOK, NEW d \in Feed, feed[d].state # "FREE", StopFiltering(d)
    PROVE  /\ SameFeeds /\ \A e \in Feed : feed'[e].chain = feed[e].chain
           /\ ~feed'[d].filtering
           /\ \A e \in Feed \ {d} : feed'[e].filtering = feed[e].filtering
BY FeedCall DEF StopFiltering

(* Starting a feed that has section filters fails only if something failed. *)
LEMMA StartedFeed ==
    ASSUME TypeOK, NEW d \in Feed, feed[d].state # "FREE", StartSucceeds(d) \/ StartFails(d),
           ~failed', feed[d].chain # <<>>
    PROVE  /\ SameFeeds /\ \A e \in Feed : feed'[e].chain = feed[e].chain
           /\ feed'[d].filtering
           /\ \A e \in Feed \ {d} : feed'[e].filtering = feed[e].filtering
<1>1. CASE StartSucceeds(d)
  BY <1>1, FeedCall DEF StartSucceeds
<1>2. CASE StartFails(d)
  <2>1. feed' = feed /\ ~CanStart(d)
    BY <1>2 DEF StartFails
  <2> QED
    BY <2>1 DEF CanStart, SameFeeds
<1> QED
  BY <1>1, <1>2

(* A filter that is linked has a chain to start. *)
LEMMA LinkedChain ==
    ASSUME ShareInv, NEW f \in Filter, Linked(f)
    PROVE  /\ flt[f].feed \in Feed /\ feed[flt[f].feed].state # "FREE"
           /\ feed[flt[f].feed].chain # <<>>
<1>1. Holds(f)
  BY DEF Linked, Holds
<1>2. InChain(flt[f].sec, flt[f].feed)
  BY DEF ShareInv, LinkInv
<1>3. Len(<<>>) = 0
  OBVIOUS
<1> QED
  BY <1>1, <1>2, <1>3 DEF ShareInv, HeldInv, InChain

(* dvb_dmxdev_filter_stop, but for the chain and the others. *)
LEMMA StopServes ==
    ASSUME ShareInv, Served, ~failed',
           StopNothing \/ StopFilter \/ HaltFeed \/ RestartFeed \/ Stopped
    PROVE  Served'
<1> DEFINE f == op.f
<1>1. op.pc # "idle" /\ f \in Filter /\ flt[f] \in SlotType
  BY PcTypes DEF StopNothing, StopFilter, HaltFeed, RestartFeed, Stopped, ShareInv
<1>2. op.then \in {"end", "set", "start", "free"} /\ op.back \in {"end", "stopped", "retry"}
  BY PcTypes DEF ShareInv
<1>3. CASE StopNothing
  <2>1. op.pc = "stop" /\ UNCHANGED <<feed, sec, disp>>
    BY <1>3 DEF StopNothing
  <2>2. ~Running(f)
    <3> SUFFICES ASSUME Running(f) PROVE FALSE
      OBVIOUS
    <3>1. flt[f].section /\ flt[f].feed \in Feed
      BY <1>1 DEF ShareInv, HeldInv, Holds
    <3> QED
      BY <1>3, <3>1 DEF StopNothing, Feed, None
  <2>3. flt' = flt
    BY <1>3, <2>2 DEF StopNothing
  <2>4. op'.pc \in {"idle", "set", "start", "free"} /\ (op'.pc = "idle" \/ op'.f = f)
    BY <1>2, <1>3, GotoFacts DEF StopNothing, ShareInv
  <2>5. \A g \in {f} : /\ ~Holds(g) /\ ~Holds(g)' /\ ~Linked(g) /\ ~Linked(g)'
                       /\ ~Running(g)' /\ ~Keeps(g)
    BY <2>1, <2>2, <2>3, <2>4 DEF Holds, Linked, Running, Keeps
  <2>6. SameFeeds /\ \A d \in Feed : ~Paused(d)
    BY <2>1 DEF SameFeeds, Paused
  <2> QED
    BY <1>1, <2>1, <2>3, <2>4, <2>5, <2>6, OwnServes
<1>4. CASE StopFilter
  <2>1. op.pc = "stop" /\ Running(f) /\ UNCHANGED <<feed, sec, disp>>
    BY <1>4 DEF StopFilter
  <2>2. flt'[f] = [flt[f] EXCEPT !.state = "SET"] /\ \A g \in Filter \ {f} : flt'[g] = flt[g]
    BY <1>1, <1>4, EditFacts DEF StopFilter, ShareInv
  <2>3. op'.pc = "halt" /\ op'.f = f
    BY <1>4, GotoFacts DEF StopFilter, ShareInv
  <2>4. flt'[f].state = "SET" /\ flt'[f].unread = flt[f].unread /\ Kept(f)
    BY <1>1, <2>2 DEF Kept, SlotType
  <2>5. \A g \in {f} : /\ Holds(g) /\ Holds(g)' /\ Linked(g) /\ Linked(g)'
                       /\ ~Running(g)' /\ Keeps(g)'
    BY <2>1, <2>3, <2>4 DEF Holds, Linked, Running, Keeps
  <2>6. SameFeeds /\ \A d \in Feed : ~Paused(d)
    BY <2>1 DEF SameFeeds, Paused
  <2> QED
    BY <1>1, <2>1, <2>2, <2>3, <2>4, <2>5, <2>6, OwnServes DEF Kept
<1>5. CASE HaltFeed
  <2> DEFINE d == flt[f].feed
  <2>1. op.pc = "halt" /\ UNCHANGED <<flt, sec, disp>>
    BY <1>5 DEF HaltFeed
  <2>2. op'.pc = "release" /\ op'.f = f
    BY <1>5, GotoFacts DEF HaltFeed, ShareInv
  <2>3. \A g \in {f} : /\ Holds(g) /\ Holds(g)' /\ Linked(g) /\ Linked(g)'
                       /\ Kept(g) /\ ~Running(g)' /\ Keeps(g)'
    BY <2>1, <2>2 DEF Holds, Linked, Kept, Running, Keeps, ShareInv, SlotInv
  <2>4. d \in Feed /\ feed[d].state # "FREE"
    BY <1>1, <2>3, LinkedChain
  <2>5. /\ SameFeeds /\ \A e \in Feed : feed'[e].chain = feed[e].chain
        /\ \A e \in Feed \ {d} : feed'[e].filtering = feed[e].filtering
    BY <1>5, <2>4, StoppedFeed DEF HaltFeed, ShareInv
  <2>6. \A e \in Feed : feed[e].filtering \/ Paused(e) => (feed[e].filtering \/ Paused(e))'
    BY <2>1, <2>2, <2>5 DEF Paused
  <2> QED
    BY <1>1, <2>1, <2>2, <2>3, <2>5, <2>6, OwnServes
<1>6. CASE RestartFeed
  <2> DEFINE g == op.g
             d == flt[g].feed
  <2>1. op.pc = "restarting" /\ UNCHANGED <<flt, sec, disp>>
    BY <1>6 DEF RestartFeed
  <2>2. g \in Filter /\ Running(g)
    BY <2>1 DEF ShareInv, CallInv
  <2>3. d \in Feed /\ feed[d].state # "FREE" /\ feed[d].chain # <<>>
    BY <2>2, LinkedChain DEF Linked
  <2>4. (StartSucceeds(d) \/ StartFails(d)) /\ Goto(op.back)
    BY <1>6, <2>3 DEF RestartFeed, Feed, None
  <2>5. op'.pc \in {"idle", "stopped", "retry"} /\ (op'.pc = "idle" \/ op'.f = f)
        /\ (op'.pc = "stopped" <=> op.back = "stopped")
    BY <1>2, <2>4, GotoFacts DEF ShareInv
  <2>6. /\ SameFeeds /\ \A e \in Feed : feed'[e].chain = feed[e].chain
        /\ feed'[d].filtering
        /\ \A e \in Feed \ {d} : feed'[e].filtering = feed[e].filtering
    BY <2>3, <2>4, StartedFeed DEF ShareInv
  <2>7. \A e \in Feed : feed[e].filtering \/ Paused(e) => feed'[e].filtering
    BY <2>1, <2>6 DEF Paused
  <2>8. \A h \in {f} : /\ ~Holds(h) /\ ~Holds(h)' /\ ~Linked(h) /\ ~Linked(h)'
                       /\ ~Running(h)' /\ (Keeps(h) => Keeps(h)')
    BY <2>1, <2>5 DEF Holds, Linked, Running, Keeps, ShareInv, SlotInv
  <2>9. flt[f].feed \in Feed
    BY <2>1 DEF Served, RunInv
  <2> QED
    BY <1>1, <2>1, <2>5, <2>6, <2>7, <2>8, <2>9, OwnServes
<1>7. CASE Stopped
  <2>1. op.pc = "stopped" /\ UNCHANGED <<feed, sec, disp>>
    BY <1>7 DEF Stopped
  <2>2. /\ flt'[f].state = flt[f].state /\ flt'[f].unread = <<>>
        /\ \A g \in Filter \ {f} : flt'[g] = flt[g]
    <3>1. flt'[f] = [Flushed(flt[f]) EXCEPT !.feed = None] /\ \A g \in Filter \ {f} : flt'[g] = flt[g]
      BY <1>1, <1>7, EditFacts DEF Stopped, ShareInv
    <3> QED
      BY <1>1, <3>1 DEF Flushed, SlotType
  <2>3. op'.pc \in {"idle", "set", "start", "free"} /\ (op'.pc = "idle" \/ op'.f = f)
    BY <1>2, <1>7, GotoFacts DEF Stopped, ShareInv
  <2>4. ~Running(f)
    BY <2>1 DEF ShareInv, SlotInv
  <2>5. \A g \in {f} : ~Holds(g) /\ ~Holds(g)' /\ ~Linked(g) /\ ~Linked(g)' /\ ~Running(g)'
    BY <2>1, <2>2, <2>3, <2>4 DEF Holds, Linked, Running
  <2>6. SameFeeds /\ \A d \in Feed : ~Paused(d)
    BY <2>1 DEF SameFeeds, Paused
  <2> QED
    BY <1>1, <2>1, <2>2, <2>3, <2>5, <2>6, OwnServes
<1> QED
  BY <1>3, <1>4, <1>5, <1>6, <1>7

(* Setting and freeing a filter, and the steps of a start on a feed it has. *)
LEMMA QuietStepsServe ==
    ASSUME ShareInv, Served, ~failed',
           FilterSet \/ FilterFree \/ PauseFeed \/ RetryFeed \/ RunFeed \/ ArmTimer \/ Go
    PROVE  Served'
<1> DEFINE f == op.f
           d == flt[f].feed
<1>1. op.pc # "idle" /\ f \in Filter /\ flt[f] \in SlotType
  BY DEF FilterSet, FilterFree, PauseFeed, RetryFeed, RunFeed, ArmTimer, Go, ShareInv, TypeOK
<1>2. op.pc # "go" => ~Running(f)
  BY <1>1 DEF FilterSet, FilterFree, PauseFeed, RetryFeed, RunFeed, ArmTimer, Go,
              ShareInv, SlotInv
<1>3. CASE FilterSet \/ FilterFree
  <2>1. op.pc \in {"set", "free"} /\ UNCHANGED <<feed, sec, disp>>
    BY <1>3 DEF FilterSet, FilterFree
  <2>2. flt[f].unread = <<>>
    BY <1>1, <1>2, <2>1 DEF Served, UnreadInv, Keeps
  <2>3. /\ \A g \in Filter \ {f} : flt'[g] = flt[g]
        /\ flt'[f].state \in {"SET", "FREE"} /\ flt'[f].unread = flt[f].unread
        /\ op'.pc \in {"start", "idle"} /\ (op'.pc = "idle" \/ op'.f = f)
    <3>1. CASE FilterSet
      <4>1. /\ flt'[f] = [flt[f] EXCEPT !.section = TRUE, !.par = op.ask, !.state = "SET"]
            /\ \A g \in Filter \ {f} : flt'[g] = flt[g]
        BY <1>1, <3>1 DEF FilterSet, ShareInv, TypeOK
      <4>2. flt'[f].state = "SET" /\ flt'[f].unread = flt[f].unread
        BY <1>1, <4>1 DEF SlotType
      <4>3. op'.pc \in {"start", "idle"} /\ (op'.pc = "idle" \/ op'.f = f)
        BY <3>1, GotoFacts DEF FilterSet, ShareInv
      <4> QED
        BY <4>1, <4>2, <4>3
    <3>2. CASE FilterFree
      <4>1. /\ flt'[f] = [flt[f] EXCEPT !.section = FALSE, !.par = NoRequest, !.state = "FREE"]
            /\ \A g \in Filter \ {f} : flt'[g] = flt[g]
        BY <1>1, <3>2 DEF FilterFree, ShareInv, TypeOK
      <4>2. flt'[f].state = "FREE" /\ flt'[f].unread = flt[f].unread
        BY <1>1, <4>1 DEF SlotType
      <4>3. op'.pc = "idle"
        BY <3>2, GotoFacts DEF FilterFree, ShareInv
      <4> QED
        BY <4>1, <4>2, <4>3
    <3> QED
      BY <1>3, <3>1, <3>2
  <2>4. \A g \in {f} : ~Holds(g) /\ ~Holds(g)' /\ ~Linked(g) /\ ~Linked(g)' /\ ~Running(g)'
    BY <1>2, <2>1, <2>3 DEF Holds, Linked, Running
  <2>5. SameFeeds /\ \A e \in Feed : ~Paused(e)
    BY <2>1 DEF SameFeeds, Paused
  <2> QED
    BY <1>1, <2>1, <2>2, <2>3, <2>4, <2>5, OwnServes
<1>4. CASE PauseFeed
  <2>1. op.pc = "pause" /\ UNCHANGED <<flt, sec, disp>>
    BY <1>4 DEF PauseFeed
  <2>2. op'.pc = "link" /\ op'.f = f
    BY <1>4, GotoFacts DEF PauseFeed, ShareInv
  <2>3. \A g \in {f} : /\ Holds(g) /\ Holds(g)' /\ ~Linked(g) /\ ~Linked(g)'
                       /\ Kept(g) /\ ~Running(g)' /\ (Keeps(g)' <=> Keeps(g))
    BY <1>2, <2>1, <2>2 DEF Holds, Linked, Kept, Running, Keeps
  <2>4. d \in Feed /\ feed[d].state # "FREE"
    BY <1>1, <2>3 DEF ShareInv, HeldInv
  <2>5. /\ SameFeeds /\ \A e \in Feed : feed'[e].chain = feed[e].chain
        /\ ~feed'[d].filtering
        /\ \A e \in Feed \ {d} : feed'[e].filtering = feed[e].filtering
    BY <1>4, <2>4, StoppedFeed DEF PauseFeed, ShareInv
  <2>6. \A e \in Feed : feed[e].filtering \/ Paused(e) => (feed[e].filtering \/ Paused(e))'
    BY <2>1, <2>2, <2>5 DEF Paused
  <2> QED
    BY <1>1, <2>1, <2>2, <2>3, <2>5, <2>6, OwnServes
<1>5. CASE RetryFeed
  <2>1. op.pc = "retry" /\ UNCHANGED <<flt, sec, disp>>
    BY <1>5 DEF RetryFeed
  <2>2. op'.pc = "idle"
    BY <1>5, GotoFacts DEF RetryFeed, ShareInv
  <2>3. \A g \in {f} : /\ ~Holds(g) /\ ~Holds(g)' /\ ~Linked(g) /\ ~Linked(g)'
                       /\ ~Running(g)' /\ ~Keeps(g)
    BY <1>2, <2>1, <2>2 DEF Holds, Linked, Running, Keeps
  <2>4. d \in Feed
    BY <2>1 DEF Served, RunInv
  <2>5. /\ SameFeeds /\ \A e \in Feed : feed'[e].chain = feed[e].chain
        /\ \A e \in Feed : feed[e].filtering => feed'[e].filtering
    <3>1. CASE StartSucceeds(d)
      <4>1. feed[d].state # "FREE"
        BY <2>4, <3>1 DEF StartSucceeds, CanStart, Served, FeedInv
      <4>2. /\ SameFeeds /\ \A e \in Feed : feed'[e].chain = feed[e].chain
            /\ feed'[d].filtering = TRUE
            /\ \A e \in Feed \ {d} : feed'[e].filtering = feed[e].filtering
        BY <2>4, <3>1, <4>1, FeedCall DEF StartSucceeds, ShareInv
      <4> QED
        BY <4>2
    <3>2. CASE StartFails(d)
      BY <3>2 DEF StartFails, SameFeeds
    <3> QED
      BY <1>5, <3>1, <3>2 DEF RetryFeed
  <2>6. \A e \in Feed : ~Paused(e)
    BY <2>1 DEF Paused
  <2> QED
    BY <1>1, <2>1, <2>2, <2>3, <2>5, <2>6, OwnServes
<1>6. CASE RunFeed
  <2>1. op.pc = "run" /\ UNCHANGED <<flt, sec, disp>>
    BY <1>6 DEF RunFeed
  <2>2. \A g \in {f} : Holds(g) /\ Linked(g) /\ Kept(g) /\ ~Running(g)' /\ ~Keeps(g)
    BY <1>2, <2>1 DEF Holds, Linked, Kept, Running, Keeps
  <2>3. d \in Feed /\ feed[d].state # "FREE" /\ feed[d].chain # <<>>
    BY <1>1, <2>2, LinkedChain
  <2>4. ~feed[d].filtering
    BY <2>1 DEF Served, RunInv
  <2>5. StartSucceeds(d) /\ Goto("arm")
    BY <1>6, <2>3, <2>4 DEF RunFeed, StartFails, CanStart
  <2>6. op'.pc = "arm" /\ op'.f = f
    BY <2>5, GotoFacts DEF ShareInv
  <2>7. \A g \in {f} : Holds(g)' /\ Linked(g)'
    BY <2>6 DEF Holds, Linked
  <2>8. /\ SameFeeds /\ \A e \in Feed : feed'[e].chain = feed[e].chain
        /\ feed'[d].filtering
        /\ \A e \in Feed \ {d} : feed'[e].filtering = feed[e].filtering
    BY <2>3, <2>5, StartedFeed DEF ShareInv
  <2>9. \A e \in Feed : feed[e].filtering \/ Paused(e) => feed'[e].filtering
    BY <2>1, <2>8 DEF Paused
  <2> QED
    BY <1>1, <2>1, <2>2, <2>6, <2>7, <2>8, <2>9, OwnServes
<1>7. CASE ArmTimer
  <2>1. op.pc = "arm" /\ UNCHANGED <<flt, feed, sec, disp>>
    BY <1>7 DEF ArmTimer
  <2>2. op'.pc = "go" /\ op'.f = f
    BY <1>7, GotoFacts DEF ArmTimer, ShareInv
  <2>3. \A g \in {f} : /\ Holds(g) /\ Holds(g)' /\ Linked(g) /\ Linked(g)'
                       /\ Kept(g) /\ ~Running(g)' /\ ~Keeps(g)
    BY <1>2, <2>1, <2>2 DEF Holds, Linked, Kept, Running, Keeps
  <2>4. SameFeeds /\ \A e \in Feed : ~Paused(e)
    BY <2>1 DEF SameFeeds, Paused
  <2>5. feed[d].filtering
    BY <2>1 DEF Served, RunInv
  <2> QED
    BY <1>1, <2>1, <2>2, <2>3, <2>4, <2>5, OwnServes
<1>8. CASE Go
  <2>1. op.pc = "go" /\ UNCHANGED <<feed, sec, disp>>
    BY <1>8 DEF Go
  <2>2. op'.pc = "idle"
    BY <1>8, GotoFacts DEF Go, ShareInv
  <2>3. flt'[f] = [flt[f] EXCEPT !.state = "GO"] /\ \A g \in Filter \ {f} : flt'[g] = flt[g]
    BY <1>1, <1>8, EditFacts DEF Go, ShareInv
  <2>4. flt'[f].state = "GO" /\ flt'[f].unread = flt[f].unread /\ Kept(f)
    BY <1>1, <2>3 DEF Kept, SlotType
  <2>5. \A g \in {f} : /\ Holds(g) /\ Holds(g)' /\ Linked(g) /\ Linked(g)' /\ Keeps(g)'
    BY <2>1, <2>4 DEF Holds, Linked, Running, Keeps
  <2>6. SameFeeds /\ \A e \in Feed : ~Paused(e)
    BY <2>1 DEF SameFeeds, Paused
  <2>7. feed[d].filtering
    BY <2>1 DEF Served, RunInv
  <2> QED
    BY <1>1, <2>1, <2>2, <2>3, <2>4, <2>5, <2>6, <2>7, OwnServes DEF Kept
<1> QED
  BY <1>3, <1>4, <1>5, <1>6, <1>7, <1>8

(* A start begins without a feed, or with that of a filter that runs on the PID. *)
LEMMA StartServes ==
    ASSUME ShareInv, Served, StartAlone \/ StartShared
    PROVE  Served'
<1> DEFINE f == op.f
<1>1. op.pc = "start" /\ f \in Filter /\ flt[f] \in SlotType /\ UNCHANGED <<feed, sec, disp>>
  BY DEF StartAlone, StartShared, ShareInv, TypeOK
<1>2. ~Running(f)
  BY <1>1 DEF ShareInv, SlotInv
<1>3. /\ Flushed(flt[f]) \in SlotType /\ Flushed(flt[f]).state = flt[f].state
      /\ Flushed(flt[f]).par = flt[f].par /\ Flushed(flt[f]).unread = <<>>
  <2>1. Flushed(flt[f]).unread = <<>>
    BY <1>1 DEF Flushed, SlotType
  <2> QED
    BY <1>1, <2>1, SlotEdits, FlushedFacts
<1>4. SameFeeds /\ \A d \in Feed : ~Paused(d)
  BY <1>1 DEF SameFeeds, Paused
<1>5. CASE StartAlone
  <2>1. \/ flt' = [flt EXCEPT ![f] = Flushed(flt[f])] /\ Goto("end")
        \/ flt' = [flt EXCEPT ![f] = [Flushed(flt[f]) EXCEPT !.sec = None, !.feed = None]] /\ Goto("alloc")
    BY <1>5 DEF StartAlone
  <2>2. /\ flt'[f] = Flushed(flt[f]) \/ flt'[f] = [Flushed(flt[f]) EXCEPT !.sec = None, !.feed = None]
        /\ \A g \in Filter \ {f} : flt'[g] = flt[g]
    BY <1>1, <2>1, EditFacts DEF ShareInv
  <2>3. flt'[f].state = flt[f].state /\ flt'[f].unread = <<>>
    BY <1>3, <2>2 DEF SlotType
  <2>4. op'.pc \in {"idle", "alloc"} /\ (op'.pc = "idle" \/ op'.f = f)
    BY <2>1, GotoFacts DEF ShareInv
  <2>5. \A g \in {f} : ~Holds(g) /\ ~Holds(g)' /\ ~Linked(g) /\ ~Linked(g)' /\ ~Running(g)'
    BY <1>1, <1>2, <2>3, <2>4 DEF Holds, Linked, Running
  <2> QED
    BY <1>1, <1>4, <2>2, <2>3, <2>4, <2>5, OwnServes
<1>6. CASE StartShared
  <2> PICK g \in PeerOf(f) :
        flt' = [flt EXCEPT ![f] = [Flushed(flt[f]) EXCEPT !.sec = None, !.feed = flt[g].feed,
                                                          !.state = "SET"]]
    BY <1>6 DEF StartShared
  <2>0. Goto("pause")
    BY <1>6 DEF StartShared
  <2>1. op'.pc = "pause" /\ op'.f = f
    BY <2>0, GotoFacts DEF ShareInv
  <2>2. g \in Filter \ {f} /\ Running(g) /\ flt[g].par.pid = flt[f].par.pid
    BY DEF PeerOf, First, Active
  <2>3. /\ flt'[f] = [Flushed(flt[f]) EXCEPT !.sec = None, !.feed = flt[g].feed, !.state = "SET"]
        /\ \A h \in Filter \ {f} : flt'[h] = flt[h]
    BY <1>1, EditFacts DEF ShareInv
  <2>4. /\ flt'[f].state = "SET" /\ flt'[f].feed = flt[g].feed
        /\ flt'[f].par = flt[f].par /\ flt'[f].unread = <<>>
    <3> DEFINE r == Flushed(flt[f])
               d == flt[g].feed
               q == flt'[f]
    <3>1. q = [r EXCEPT !.sec = None, !.feed = d, !.state = "SET"] /\ r \in SlotType
      BY <1>3, <2>3
    <3> HIDE DEF r, d, q
    <3>2. q.state = "SET" /\ q.feed = d /\ q.par = r.par /\ q.unread = r.unread
      BY <3>1 DEF SlotType
    <3> QED
      BY <1>3, <3>2 DEF r, d, q
  <2>5. \A h \in Filter \ {f} : /\ Holds(h) <=> Running(h)
                                /\ Holds(h)' <=> Running(h)
                                /\ Linked(h) <=> Running(h)
                                /\ Linked(h)' <=> Running(h)
                                /\ Keeps(h) <=> Running(h)
                                /\ Keeps(h)' <=> Running(h)
                                /\ Running(h)' <=> Running(h)
    BY <1>1, <2>1, <2>3 DEF Holds, Linked, Keeps, Running
  <2>6. \A h \in {f} : ~Holds(h) /\ ~Linked(h) /\ ~Running(h)'
    BY <1>1, <1>2, <2>4 DEF Holds, Linked, Running
  <2>7. FeedInv'
    <3>1. ASSUME NEW h \in Filter, Running(h)
          PROVE  flt[h].feed \in Feed /\ feed[flt[h].feed].pid = flt[h].par.pid
      <4>1. Holds(h)
        BY <3>1 DEF Holds
      <4> QED
        BY <4>1 DEF ShareInv, HeldInv, Served, FeedInv
    <3>2. ASSUME NEW h \in Filter, Holds(h)
          PROVE  \E k \in Filter : Holds(k)' /\ flt'[k].feed = flt[h].feed
      BY <2>3, <2>5, <2>6, <3>2
    <3>3. ASSUME NEW h \in Filter, Holds(h)'
          PROVE  flt'[h].feed \in Feed /\ feed[flt'[h].feed].pid = flt'[h].par.pid
      <4>1. CASE h = f
        BY <2>2, <2>4, <3>1, <4>1
      <4>2. CASE h # f
        BY <2>3, <2>5, <3>1, <3>3, <4>2
      <4> QED
        BY <4>1, <4>2
    <3> QED
      BY <1>4, <3>2, <3>3, FeedFrame DEF Served
  <2>8. SecInv'
    BY <1>1, <2>3, <2>5, <2>6, SecFrame DEF Served
  <2>9. RunInv'
    <3>1. ASSUME NEW h \in Filter, Running(h)' PROVE feed'[flt'[h].feed].filtering
      <4>1. h # f /\ Running(h)
        BY <2>5, <2>6, <3>1
      <4>2. flt[h].feed \in Feed
        BY <4>1 DEF ShareInv, HeldInv, Holds
      <4> QED
        BY <1>1, <1>4, <2>3, <4>1, <4>2 DEF Served, RunInv
    <3> QED
      BY <2>1, <3>1 DEF RunInv
  <2>10. UnreadInv'
    <3>1. ASSUME NEW h \in Filter
          PROVE  \/ flt'[h].unread = <<>>
                 \/ /\ flt'[h].unread = flt[h].unread /\ flt'[h].par = flt[h].par
                    /\ Keeps(h) => Keeps(h)'
      BY <2>3, <2>4, <2>5
    <3> QED
      BY <3>1, UnreadFrame DEF Served
  <2>11. DispInv'
    BY <1>1, DispFrame DEF Served, ShareInv
  <2> QED
    BY <2>7, <2>8, <2>9, <2>10, <2>11 DEF Served
<1> QED
  BY <1>5, <1>6

(* A restart is for the first filter that is left on the feed. *)
LEMMA RestartServes ==
    ASSUME ShareInv, Served, RestartOther
    PROVE  Served'
<1> DEFINE f == op.f
<1> PICK g \in Filter :
      /\ op.pc = "restart" /\ g \in Active(flt[f].par.pid)
      /\ flt' = [flt EXCEPT ![g].state = "GO"]
      /\ op' = [op EXCEPT !.pc = "restarting", !.g = g]
      /\ UNCHANGED <<timer, opened, feed, sec, disp>>
  BY DEF RestartOther, First
<1>1. op'.pc = "restarting" /\ op'.f = f /\ op'.g = g /\ op'.back = op.back
  BY DEF ShareInv, TypeOK, OpType
<1>2. flt'[g] = [flt[g] EXCEPT !.state = "GO"] /\ \A h \in Filter \ {g} : flt'[h] = flt[h]
  BY DEF ShareInv, TypeOK
<1>3. flt[g] \in SlotType /\ Running(g) /\ f \in Filter
  BY DEF ShareInv, TypeOK, Active
<1>4. \A h \in Filter : Kept(h) /\ (Running(h)' <=> Running(h)) /\ flt'[h].unread = flt[h].unread
  BY <1>2, <1>3 DEF Kept, Running, SlotType
<1>5. ~Running(f)
  BY DEF ShareInv, SlotInv
<1>6. \A h \in Filter : /\ Holds(h)' <=> Running(h)
                        /\ Linked(h)' <=> Running(h)
                        /\ Linked(h) <=> Running(h)
                        /\ Keeps(h)' <=> Keeps(h)
                        /\ Holds(h) => Running(h) \/ h = f
  BY <1>1, <1>4 DEF Holds, Linked, Keeps
<1>7. /\ \A h \in {f, g} : Holds(h)
      /\ flt[g].par.pid = flt[f].par.pid
  BY <1>3 DEF Holds, Active
<1>8. flt[g].feed = flt[f].feed /\ flt[f].feed \in Feed
  BY <1>3, <1>7 DEF ShareInv, HeldInv
<1>9. SameFeeds
  BY DEF SameFeeds
<1>10. FeedInv'
  <2>1. ASSUME NEW h \in Filter, Holds(h)
        PROVE  \E k \in Filter : Holds(k)' /\ flt'[k].feed = flt[h].feed
    <3>1. CASE Running(h)
      BY <1>4, <1>6, <3>1 DEF Kept
    <3>2. CASE h = f
      BY <1>3, <1>4, <1>6, <1>8, <3>2 DEF Kept
    <3> QED
      BY <1>6, <2>1, <3>1, <3>2
  <2>2. ASSUME NEW h \in Filter, Holds(h)'
        PROVE  flt'[h].feed \in Feed /\ feed[flt'[h].feed].pid = flt'[h].par.pid
    <3>1. Holds(h)
      BY <1>6, <2>2 DEF Holds
    <3> QED
      BY <1>4, <3>1 DEF Kept, ShareInv, HeldInv, Served, FeedInv
  <2> QED
    BY <1>9, <2>1, <2>2, FeedFrame DEF Served
<1>11. SecInv'
  BY <1>4, <1>6, SecFrame DEF Kept, Served
<1>12. RunInv'
  <2>1. ASSUME NEW h \in Filter, Running(h)'
        PROVE  (feed[flt[h].feed].filtering \/ Paused(flt[h].feed))'
    BY <1>1, <1>4, <1>8, <2>1 DEF Kept, Paused, Served, RunInv
  <2>2. flt'[f].feed \in Feed
    BY <1>3, <1>4, <1>8 DEF Kept
  <2> QED
    BY <1>1, <2>1, <2>2 DEF RunInv
<1>13. UnreadInv'
  BY <1>4, <1>6, UnreadFrame DEF Kept, Served
<1>14. DispInv'
  BY DispFrame DEF Served, ShareInv
<1> QED
  BY <1>10, <1>11, <1>12, <1>13, <1>14 DEF Served

(* The feed that is released has no section filter left: its chain held only those
   of filters that run on it, and nobody is active on its PID. *)
LEMMA ReleaseFeedServes ==
    ASSUME ShareInv, ChainsAreSound, Served, ReleaseFeed
    PROVE  Served'
<1> DEFINE f == op.f
           d == flt[f].feed
<1>1. /\ op.pc = "restart" /\ f \in Filter /\ Active(flt[f].par.pid) = {}
      /\ UNCHANGED <<flt, timer, opened, sec, disp>> /\ disp = Quiet
  BY DEF ReleaseFeed, ShareInv, TypeOK
<1>2. /\ op'.pc \in {"idle", "stopped", "retry"} /\ (op'.pc = "idle" \/ op'.f = f)
      /\ op'.pc = "stopped" <=> op.back = "stopped"
  BY <1>1, PcTypes, GotoFacts DEF ReleaseFeed, ShareInv
<1>3. /\ \A g \in Filter : /\ Running(g)' <=> Running(g)
                           /\ Holds(g) <=> Running(g) \/ g = f
                           /\ Holds(g)' <=> Running(g)
                           /\ Linked(g) <=> Running(g)
                           /\ Linked(g)' <=> Running(g)
                           /\ Keeps(g)' <=> Keeps(g)
      /\ ~Running(f)
  <2>1. ~Running(f)
    BY <1>1 DEF ShareInv, SlotInv
  <2>2. \A g \in Filter : Running(g)' <=> Running(g)
    BY <1>1 DEF Running
  <2> QED
    BY <1>1, <1>2, <2>1, <2>2 DEF Holds, Linked, Keeps
<1>4. d \in Feed /\ feed[d].state # "FREE" /\ feed[d].listed
  BY <1>1, <1>3 DEF ShareInv, HeldInv, Served, FeedInv
<1>5. ASSUME NEW g \in Filter, Running(g)
      PROVE  flt[g].feed \in Feed \ {d} /\ feed[flt[g].feed].pid = flt[g].par.pid
  <2>1. Holds(g) /\ Holds(f)
    BY <1>1, <1>3, <1>5
  <2>2. flt[g].section /\ flt[g].feed \in Feed /\ feed[flt[g].feed].pid = flt[g].par.pid
    BY <2>1 DEF ShareInv, HeldInv, Served, FeedInv
  <2>3. g \notin Active(flt[f].par.pid)
    BY <1>1
  <2>4. flt[g].par.pid # flt[f].par.pid
    BY <1>5, <2>2, <2>3 DEF Active
  <2> QED
    BY <1>1, <2>1, <2>2, <2>4 DEF ShareInv, HeldInv
<1>6. feed[d].chain = <<>>
  <2> DEFINE c == feed[d].chain
  <2>1. c \in Seq(Sec)
    BY <1>4 DEF ShareInv, TypeOK, FeedType
  <2> SUFFICES ASSUME c # <<>> PROVE FALSE
    OBVIOUS
  <2>2. 1 \in 1 .. Len(c) /\ c[1] \in Sec
    BY <2>1, EmptySeq, ElementOfSeq
  <2>3. sec[c[1]].state = "READY" /\ sec[c[1]].feed = d
    BY <1>4, <2>2 DEF ChainsAreSound
  <2>4. PICK g \in Filter : Linked(g) /\ flt[g].sec = c[1]
    BY <2>2, <2>3 DEF Served, SecInv
  <2>5. flt[g].feed = d
    BY <2>3, <2>4 DEF ShareInv, LinkInv
  <2> QED
    BY <1>3, <1>5, <2>4, <2>5
<1>7. /\ feed'[d] = [feed[d] EXCEPT !.state = "FREE", !.listed = FALSE, !.pid = NoPid]
      /\ \A e \in Feed \ {d} : feed'[e] = feed[e]
  <2>1. feed' = [feed EXCEPT ![d] = [feed[d] EXCEPT !.state = "FREE", !.listed = FALSE, !.pid = NoPid]]
    BY <1>4 DEF ReleaseFeed
  <2> QED
    BY <1>4, <2>1 DEF ShareInv, TypeOK
<1>8. feed'[d].state = "FREE" /\ feed'[d].chain = <<>>
  BY <1>4, <1>6, <1>7 DEF ShareInv, TypeOK, FeedType
<1>9. FeedInv'
  <2>1. ASSUME NEW e \in Feed, feed'[e].state # "FREE"
        PROVE  feed'[e].listed /\ \E g \in Filter : Holds(g)' /\ flt'[g].feed = e
    <3>1. e # d /\ feed'[e] = feed[e]
      BY <1>7, <1>8, <2>1
    <3>2. feed[e].listed /\ \E g \in Filter : Holds(g) /\ flt[g].feed = e
      BY <2>1, <3>1 DEF Served, FeedInv
    <3> QED
      BY <1>1, <1>3, <3>1, <3>2
  <2>2. ASSUME NEW e \in Feed, feed'[e].state = "FREE" PROVE feed'[e].chain = <<>>
    BY <1>7, <1>8, <2>2 DEF Served, FeedInv
  <2>3. ASSUME NEW g \in Filter, Holds(g)' PROVE feed'[flt'[g].feed].pid = flt'[g].par.pid
    BY <1>1, <1>3, <1>5, <1>7, <2>3
  <2> QED
    BY <2>1, <2>2, <2>3 DEF FeedInv
<1>10. SecInv'
  BY <1>1, <1>3, SecFrame DEF Served
<1>11. RunInv'
  <2>1. ASSUME NEW g \in Filter, Running(g)' PROVE feed'[flt'[g].feed].filtering
    <3>1. flt[g].feed \in Feed \ {d} /\ Running(g)
      BY <1>3, <1>5, <2>1
    <3>2. ~Paused(flt[g].feed)
      BY <1>1, <3>1 DEF Paused
    <3> QED
      BY <1>1, <1>7, <3>1, <3>2 DEF Served, RunInv
  <2> QED
    BY <1>1, <1>2, <1>4, <2>1 DEF RunInv
<1>12. UnreadInv'
  BY <1>1, <1>3, UnreadFrame DEF Served
<1>13. DispInv'
  BY <1>1, DispFrame DEF Served, ShareInv
<1> QED
  BY <1>9, <1>10, <1>11, <1>12, <1>13 DEF Served

(* A filter that stops gives up its section filter, the others of the feed keep theirs. *)
LEMMA ReleaseFilterServes ==
    ASSUME ShareInv, Served, ReleaseFilter
    PROVE  Served'
<1> DEFINE f == op.f
           x == flt[f].sec
           d == flt[f].feed
           c == feed[d].chain
<1>1. op.pc = "release" /\ f \in Filter /\ UNCHANGED <<flt, timer, opened, disp>>
  BY DEF ReleaseFilter, ShareInv, SlotInv, TypeOK
<1>2. Holds(f) /\ Linked(f)
  BY <1>1 DEF Holds, Linked
<1>3. /\ d \in Feed /\ feed[d].state # "FREE"
      /\ x \in Sec /\ InChain(x, d) /\ sec[x].feed = d /\ sec[x].priv = f
  BY <1>1, <1>2 DEF ShareInv, HeldInv, LinkInv
<1>4. x # None
  BY <1>3 DEF Sec, None
<1>5. /\ disp = Quiet
      /\ \E i \in 1 .. Len(c) :
           feed' = [feed EXCEPT ![d].chain = RemoveAt(c, i), ![d].filtering = FALSE]
      /\ sec' = [sec EXCEPT ![x].state = "FREE"]
      /\ op' = [op EXCEPT !.pc = "restart", !.back = "stopped"]
  BY <1>3, <1>4, Zenon DEF ReleaseFilter
<1>6. op'.pc = "restart" /\ op'.f = f /\ op'.back = "stopped"
  BY <1>5 DEF ShareInv, TypeOK, OpType
<1>7. /\ feed'[d].state = feed[d].state /\ feed'[d].pid = feed[d].pid
      /\ feed'[d].listed = feed[d].listed
      /\ \A e \in Feed \ {d} : feed'[e] = feed[e]
  <2>1. feed \in [Feed -> FeedType]
    BY DEF ShareInv, TypeOK
  <2>2. PICK r : feed' = [feed EXCEPT ![d].chain = r, ![d].filtering = FALSE]
    BY <1>5
  <2>3. /\ feed'[d] = [feed[d] EXCEPT !.chain = r, !.filtering = FALSE]
        /\ \A e \in Feed \ {d} : feed'[e] = feed[e]
    BY ONLY <1>3, <2>1, <2>2
  <2>4. feed[d] \in FeedType
    BY <1>3, <2>1
  <2> QED
    BY ONLY <2>3, <2>4 DEF FeedType
<1>8. SameFeeds
  BY <1>3, <1>7 DEF SameFeeds
<1>9. ~Running(f)
  BY <1>1 DEF ShareInv, SlotInv
<1>10. \A g \in Filter : /\ Running(g)' <=> Running(g)
                         /\ Holds(g)' <=> Holds(g)
                         /\ Linked(g) <=> Running(g) \/ g = f
                         /\ Linked(g)' <=> Running(g)
                         /\ Keeps(g) => Keeps(g)'
                         /\ flt'[g] = flt[g]
  <2>1. \A g \in Filter : Running(g)' <=> Running(g)
    BY <1>1 DEF Running
  <2> QED
    BY <1>1, <1>2, <1>6, <2>1 DEF Holds, Linked, Keeps
<1>11. FeedInv'
  <2>1. \A g \in Filter : Holds(g) => \E h \in Filter : Holds(h)' /\ flt'[h].feed = flt[g].feed
    BY <1>10
  <2>2. ASSUME NEW g \in Filter, Holds(g)'
        PROVE  flt'[g].feed \in Feed /\ feed[flt'[g].feed].pid = flt'[g].par.pid
    BY <1>10, <2>2 DEF ShareInv, HeldInv, Served, FeedInv
  <2> QED
    BY <1>8, <2>1, <2>2, FeedFrame DEF Served
<1>12. SecInv'
  <2>1. sec'[x].state = "FREE" /\ \A y \in Sec \ {x} : sec'[y] = sec[y]
    <3>1. sec \in [Sec -> SecType]
      BY DEF ShareInv, TypeOK
    <3> QED
      BY <1>3, <1>5, <3>1 DEF SecType
  <2>2. ASSUME NEW y \in Sec, sec'[y].state # "FREE"
        PROVE  \E g \in Filter : Linked(g)' /\ flt'[g].sec = y
    <3>1. y # x /\ sec[y].state # "FREE"
      BY <2>1, <2>2
    <3>2. PICK g \in Filter : Linked(g) /\ flt[g].sec = y
      BY <3>1 DEF Served, SecInv
    <3> QED
      BY <1>10, <3>1, <3>2
  <2> QED
    BY <2>2 DEF SecInv
<1>13. RunInv'
  <2>1. ASSUME NEW g \in Filter, Running(g)'
        PROVE  (feed[flt[g].feed].filtering \/ Paused(flt[g].feed))'
    <3>1. CASE flt[g].feed = d
      BY <1>1, <1>6, <3>1 DEF Paused
    <3>2. CASE flt[g].feed # d
      <4>1. Running(g) /\ flt[g].feed \in Feed
        BY <1>10, <2>1 DEF ShareInv, HeldInv, Holds
      <4>2. ~Paused(flt[g].feed)
        BY <1>1, <3>2 DEF Paused
      <4> QED
        BY <1>1, <1>7, <3>2, <4>1, <4>2 DEF Served, RunInv
    <3> QED
      BY <3>1, <3>2
  <2> QED
    BY <1>6, <2>1 DEF RunInv
<1>14. UnreadInv'
  BY <1>10, UnreadFrame DEF Served
<1>15. DispInv'
  BY <1>1, <1>5, DispFrame DEF Served, ShareInv
<1> QED
  BY <1>11, <1>12, <1>13, <1>14, <1>15 DEF Served

(* A feed that is free becomes the one of a filter on whose PID nobody is active. *)
LEMMA AllocServes ==
    ASSUME ShareInv, Served, ~failed', AllocFeed
    PROVE  Served'
<1> DEFINE f == op.f
           p == flt[f].par.pid
<1>1. /\ op.pc = "alloc" /\ f \in Filter /\ flt[f] \in SlotType
      /\ UNCHANGED <<timer, opened, sec, disp>> /\ disp = Quiet
  BY DEF AllocFeed, ShareInv, TypeOK
<1>2. ~Running(f)
  BY <1>1 DEF ShareInv, SlotInv
<1>3. \A d \in Feed : ~Paused(d)
  BY <1>1 DEF Paused
<1>4. ~Holds(f) /\ ~Linked(f) /\ ~Keeps(f)
  BY <1>1, <1>2 DEF Holds, Linked, Keeps
<1>5. CASE Goto("end") /\ UNCHANGED <<flt, feed>>
  <2>1. op'.pc = "idle"
    BY <1>5, GotoFacts DEF ShareInv
  <2>2. SameFeeds
    BY <1>5 DEF SameFeeds
  <2>3. flt[f].unread = <<>>
    BY <1>1, <1>4 DEF Served, UnreadInv
  <2>4. \A g \in {f} : ~Holds(g) /\ ~Holds(g)' /\ ~Linked(g) /\ ~Linked(g)' /\ ~Running(g)'
    BY <1>2, <1>4, <1>5, <2>1 DEF Holds, Linked, Running
  <2> QED
    BY <1>1, <1>3, <1>5, <2>1, <2>2, <2>3, <2>4, OwnServes
<1>6. ASSUME NEW d \in Feed, feed[d].state = "FREE", flt' = [flt EXCEPT ![f].feed = d],
             feed' = [feed EXCEPT ![d] = [FreeFeed EXCEPT
                         !.state = "READY", !.pid = p, !.listed = TRUE]],
             Goto("link")
      PROVE  Served'
  <2>1. op'.pc = "link" /\ op'.f = f
    BY <1>6, GotoFacts DEF ShareInv
  <2>2. /\ flt'[f] = [flt[f] EXCEPT !.feed = d]
        /\ \A h \in Filter \ {f} : flt'[h] = flt[h]
        /\ feed'[d] = [FreeFeed EXCEPT !.state = "READY", !.pid = p, !.listed = TRUE]
        /\ \A e \in Feed \ {d} : feed'[e] = feed[e]
    BY <1>1, <1>6 DEF ShareInv, TypeOK
  <2>3. /\ flt'[f].state = flt[f].state /\ flt'[f].feed = d
        /\ flt'[f].unread = flt[f].unread /\ flt'[f].par = flt[f].par
        /\ feed'[d].state = "READY" /\ feed'[d].pid = p /\ feed'[d].listed /\ ~feed'[d].filtering
    BY <1>1, <2>2 DEF SlotType, FreeFeed
  <2>4. \A h \in Filter \ {f} : /\ Holds(h) <=> Running(h)
                                /\ Holds(h)' <=> Running(h)
                                /\ Linked(h) <=> Running(h)
                                /\ Linked(h)' <=> Running(h)
                                /\ Keeps(h) => Keeps(h)'
                                /\ Running(h)' <=> Running(h)
    BY <1>1, <2>1, <2>2 DEF Holds, Linked, Keeps, Running
  <2>5. \A h \in {f} : ~Running(h)' /\ Holds(h)'
    BY <1>2, <2>1, <2>3 DEF Running, Holds
  <2>6. ASSUME NEW h \in Filter \ {f}, Running(h)
        PROVE  /\ flt[h].feed \in Feed \ {d} /\ feed[flt[h].feed].pid = flt[h].par.pid
               /\ feed'[flt[h].feed] = feed[flt[h].feed]
    <3>1. Holds(h)
      BY <2>6 DEF Holds
    <3>2. flt[h].feed \in Feed /\ feed[flt[h].feed].state # "FREE"
          /\ feed[flt[h].feed].pid = flt[h].par.pid
      BY <3>1 DEF ShareInv, HeldInv, Served, FeedInv
    <3> QED
      BY <1>6, <2>2, <3>2
  <2>7. FeedInv'
    <3>1. ASSUME NEW e \in Feed, feed'[e].state # "FREE"
          PROVE  feed'[e].listed /\ \E g \in Filter : Holds(g)' /\ flt'[g].feed = e
      <4>1. CASE e = d
        BY <1>1, <2>3, <2>5, <4>1
      <4>2. CASE e # d
        <5>1. feed[e].state # "FREE" /\ feed'[e] = feed[e]
          BY <2>2, <3>1, <4>2
        <5>2. feed[e].listed
          BY <5>1 DEF Served, FeedInv
        <5>3. PICK g \in Filter : Holds(g) /\ flt[g].feed = e
          BY <5>1 DEF Served, FeedInv
        <5>4. g # f /\ Running(g)
          BY <1>4, <2>4, <5>3
        <5> QED
          BY <2>2, <2>4, <5>1, <5>2, <5>3, <5>4
      <4> QED
        BY <4>1, <4>2
    <3>2. ASSUME NEW e \in Feed, feed'[e].state = "FREE" PROVE feed'[e].chain = <<>>
      <4>1. e # d /\ feed'[e] = feed[e]
        BY <2>2, <2>3, <3>2
      <4> QED
        BY <3>2, <4>1 DEF Served, FeedInv
    <3>3. ASSUME NEW h \in Filter, Holds(h)' PROVE feed'[flt'[h].feed].pid = flt'[h].par.pid
      <4>1. CASE h = f
        BY <2>3, <4>1
      <4>2. CASE h # f
        BY <2>2, <2>4, <2>6, <3>3, <4>2
      <4> QED
        BY <4>1, <4>2
    <3> QED
      BY <3>1, <3>2, <3>3 DEF FeedInv
  <2>8. SecInv'
    BY <1>1, <1>4, <2>2, <2>4, SecFrame DEF Served
  <2>9. RunInv'
    <3>1. ASSUME NEW h \in Filter, Running(h)' PROVE feed'[flt'[h].feed].filtering
      <4>1. h # f /\ Running(h)
        BY <2>4, <2>5, <3>1
      <4>2. flt[h].feed \in Feed /\ feed'[flt[h].feed] = feed[flt[h].feed]
        BY <2>6, <4>1
      <4>3. feed[flt[h].feed].filtering
        BY <1>3, <4>1, <4>2 DEF Served, RunInv
      <4> QED
        BY <2>2, <4>1, <4>2, <4>3
    <3> QED
      BY <2>1, <2>3, <3>1 DEF RunInv
  <2>10. UnreadInv'
    <3>1. ASSUME NEW h \in Filter
          PROVE  \/ flt'[h].unread = <<>>
                 \/ /\ flt'[h].unread = flt[h].unread /\ flt'[h].par = flt[h].par
                    /\ Keeps(h) => Keeps(h)'
      BY <1>4, <2>2, <2>3, <2>4
    <3> QED
      BY <3>1, UnreadFrame DEF Served
  <2>11. DispInv'
    BY <1>1 DEF DispInv
  <2> QED
    BY <2>7, <2>8, <2>9, <2>10, <2>11 DEF Served
<1> QED
  BY <1>5, <1>6 DEF AllocFeed, First, FreeFeeds

(* The new section filter is the caller's; the feed still stands still. *)
LEMMA LinkServes ==
    ASSUME ShareInv, Served, LinkFilter
    PROVE  Served'
<1> DEFINE f == op.f
           d == flt[f].feed
           c == feed[d].chain
<1>1. /\ op.pc = "link" /\ f \in Filter /\ flt[f] \in SlotType
      /\ UNCHANGED <<timer, opened, disp>> /\ disp = Quiet
  BY DEF LinkFilter, ShareInv, TypeOK
<1>2. ~Running(f) /\ Holds(f) /\ ~Linked(f) /\ ~Keeps(f)
  BY <1>1 DEF ShareInv, SlotInv, Holds, Linked, Running, Keeps
<1>3. d \in Feed /\ feed[d].state # "FREE" /\ ~feed[d].filtering /\ feed[d].pid = flt[f].par.pid
  BY <1>1, <1>2 DEF ShareInv, HeldInv, Served, RunInv, FeedInv
<1>4. CASE op' = [op EXCEPT !.pc = "restart", !.back = "retry"] /\ UNCHANGED <<flt, feed, sec>>
  <2>1. op'.pc = "restart" /\ op'.f = f
    BY <1>4 DEF ShareInv, TypeOK, OpType
  <2>2. SameFeeds
    BY <1>4 DEF SameFeeds
  <2>3. flt[f].unread = <<>>
    BY <1>1, <1>2 DEF Served, UnreadInv
  <2>4. \A g \in {f} : Holds(g) /\ Holds(g)' /\ ~Linked(g) /\ ~Linked(g)' /\ ~Running(g)' /\ Kept(g)
    BY <1>2, <1>4, <2>1 DEF Holds, Linked, Running, Kept
  <2>5. \A e \in Feed : Paused(e) => Paused(e)'
    BY <1>1, <1>4, <2>1 DEF Paused
  <2> QED
    BY <1>1, <1>4, <2>1, <2>2, <2>3, <2>4, <2>5, OwnServes
<1>5. ASSUME NEW x \in Sec, sec[x].state = "FREE",
             sec' = [sec EXCEPT ![x] = [state |-> "READY", feed |-> d, priv |-> f]],
             feed' = [feed EXCEPT ![d].chain = <<x>> \o c],
             flt' = [flt EXCEPT ![f].sec = x], Goto("run")
      PROVE  Served'
  <2>1. op'.pc = "run" /\ op'.f = f
    BY <1>5, GotoFacts DEF ShareInv
  <2>2. flt'[f] = [flt[f] EXCEPT !.sec = x] /\ \A g \in Filter \ {f} : flt'[g] = flt[g]
    BY <1>1, <1>5 DEF ShareInv, TypeOK
  <2>3. /\ flt'[f].state = flt[f].state /\ flt'[f].feed = d /\ flt'[f].sec = x
        /\ flt'[f].unread = flt[f].unread /\ flt'[f].par = flt[f].par
    BY <1>1, <2>2 DEF SlotType
  <2>4. /\ feed'[d].state = feed[d].state /\ feed'[d].pid = feed[d].pid
        /\ feed'[d].listed = feed[d].listed /\ feed'[d].filtering = feed[d].filtering
        /\ \A e \in Feed \ {d} : feed'[e] = feed[e]
    <3>1. feed \in [Feed -> FeedType]
      BY DEF ShareInv, TypeOK
    <3> QED
      BY <1>3, <1>5, <3>1 DEF FeedType
  <2>5. SameFeeds
    BY <1>3, <2>4 DEF SameFeeds
  <2>6. \A g \in Filter \ {f} : /\ Holds(g) <=> Running(g)
                                /\ Holds(g)' <=> Running(g)
                                /\ Linked(g) <=> Running(g)
                                /\ Linked(g)' <=> Running(g)
                                /\ Keeps(g) => Keeps(g)'
                                /\ Running(g)' <=> Running(g)
                                /\ flt'[g] = flt[g]
    BY <1>1, <2>1, <2>2 DEF Holds, Linked, Keeps, Running
  <2>7. \A g \in {f} : ~Running(g)' /\ Holds(g)' /\ Linked(g)'
    BY <1>2, <2>1, <2>3 DEF Running, Holds, Linked
  <2>8. FeedInv'
    <3>1. ASSUME NEW g \in Filter, Holds(g)
          PROVE  \E h \in Filter : Holds(h)' /\ flt'[h].feed = flt[g].feed
      BY <1>2, <2>3, <2>6, <2>7, <3>1
    <3>2. ASSUME NEW g \in Filter, Holds(g)'
          PROVE  flt'[g].feed \in Feed /\ feed[flt'[g].feed].pid = flt'[g].par.pid
      <4>1. CASE g = f
        BY <1>3, <2>3, <4>1
      <4>2. CASE g # f
        <5>1. Holds(g) /\ flt'[g] = flt[g]
          BY <2>6, <3>2, <4>2
        <5> QED
          BY <5>1 DEF ShareInv, HeldInv, Served, FeedInv
      <4> QED
        BY <4>1, <4>2
    <3> QED
      BY <2>5, <3>1, <3>2, FeedFrame DEF Served
  <2>9. SecInv'
    <3>1. ASSUME NEW y \in Sec, sec'[y].state # "FREE"
          PROVE  \E g \in Filter : Linked(g)' /\ flt'[g].sec = y
      <4>1. CASE y = x
        BY <1>1, <2>3, <2>7, <4>1
      <4>2. CASE y # x
        <5>1. sec[y].state # "FREE"
          BY <1>5, <3>1, <4>2 DEF ShareInv, TypeOK
        <5>2. PICK g \in Filter : Linked(g) /\ flt[g].sec = y
          BY <5>1 DEF Served, SecInv
        <5>3. g # f
          BY <1>2, <5>2
        <5> QED
          BY <2>6, <5>2, <5>3
      <4> QED
        BY <4>1, <4>2
    <3> QED
      BY <3>1 DEF SecInv
  <2>10. RunInv'
    <3>1. ASSUME NEW g \in Filter, Running(g)'
          PROVE  (feed[flt[g].feed].filtering \/ Paused(flt[g].feed))'
      <4>1. g # f /\ Running(g) /\ flt'[g] = flt[g]
        BY <2>6, <2>7, <3>1
      <4>2. CASE flt[g].feed = d
        BY <2>1, <2>3, <4>1, <4>2 DEF Paused
      <4>3. CASE flt[g].feed # d
        <5>1. flt[g].feed \in Feed
          BY <4>1 DEF ShareInv, HeldInv, Holds
        <5>2. ~Paused(flt[g].feed)
          BY <1>1, <4>3 DEF Paused
        <5> QED
          BY <2>4, <4>1, <4>3, <5>1, <5>2 DEF Served, RunInv
      <4> QED
        BY <4>2, <4>3
    <3> QED
      BY <1>3, <2>1, <2>3, <2>4, <3>1 DEF RunInv
  <2>11. UnreadInv'
    <3>1. ASSUME NEW g \in Filter
          PROVE  \/ flt'[g].unread = <<>>
                 \/ /\ flt'[g].unread = flt[g].unread /\ flt'[g].par = flt[g].par
                    /\ Keeps(g) => Keeps(g)'
      BY <1>2, <2>3, <2>6
    <3> QED
      BY <3>1, UnreadFrame DEF Served
  <2>12. DispInv'
    BY <1>1 DEF DispInv
  <2> QED
    BY <2>8, <2>9, <2>10, <2>11, <2>12 DEF Served
<1> QED
  BY <1>4, <1>5 DEF LinkFilter, First, FreeSecs

LEMMA ServePreserved ==
    ASSUME ~LateTimer, ServeInv, [Next]_vars
    PROVE  ServeInv'
<1>1. ShareInv' /\ ChainsAreSound'
  BY SharingPreserved, ChainsPreserved DEF ServeInv, ShareInv
<1> SUFFICES ASSUME ~failed' PROVE Served'
  BY <1>1 DEF ServeInv
<1>2. Served /\ ShareInv /\ ChainsAreSound
  BY FailedStays DEF ServeInv, ShareInv
<1>3. CASE OpStep
  BY <1>2, <1>3, StopServes, QuietStepsServe, StartServes, RestartServes, ReleaseFilterServes,
     ReleaseFeedServes, AllocServes, LinkServes DEF OpStep
<1>4. CASE \E f \in Filter : SetFilter(f) \/ Start(f) \/ Stop(f) \/ Close(f)
  BY <1>2, <1>4, CallsServe
<1>5. CASE \/ UNCHANGED vars
           \/ \E f \in Filter : Read(f) \/ TimerExpires(f) \/ TimerEnds(f)
           \/ \E d \in Feed : SectionArrives(d)
           \/ SectionIgnored \/ SectionStored \/ Open
  BY <1>2, <1>5, OthersServe
<1> QED
  BY <1>3, <1>4, <1>5 DEF Next

LEMMA ServeInit == Init => ServeInv
<1> SUFFICES ASSUME Init PROVE ServeInv
  OBVIOUS
<1>1. op.pc = "idle" /\ disp = Quiet
  BY DEF Init, NoOp
<1>2. /\ \A f \in Filter : flt[f].state = "FREE" /\ flt[f].unread = <<>>
      /\ \A d \in Feed : feed[d].state = "FREE" /\ feed[d].chain = <<>> /\ ~feed[d].listed
      /\ \A x \in Sec : sec[x].state = "FREE"
  BY DEF Init, FreeSlot, FreeFeed, FreeSec
<1>3. \A f \in Filter : ~Running(f) /\ ~Holds(f) /\ ~Linked(f)
  BY <1>1, <1>2 DEF Running, Holds, Linked
<1>4. FeedInv /\ SecInv
  BY <1>2, <1>3 DEF FeedInv, SecInv
<1>5. RunInv /\ DispInv
  BY <1>1, <1>3 DEF RunInv, DispInv
<1>6. UnreadInv
  <2>1. Len(<<>>) = 0
    OBVIOUS
  <2> QED
    BY <1>2, <2>1 DEF UnreadInv
<1>7. ChainsAreSound
  BY <1>2 DEF ChainsAreSound
<1> QED
  BY <1>4, <1>5, <1>6, <1>7, SharingInit DEF ServeInv, Served

LEMMA Serving ==
    ASSUME ~LateTimer
    PROVE  Spec => []ServeInv
<1>1. ServeInv /\ [Next]_vars => ServeInv'
  BY ServePreserved
<1> QED
  BY <1>1, ServeInit, PTL DEF Spec

(* A filter that runs is served between two calls, whoever joined or left its feed in
   the meantime and whatever the tables had no room for: dvb_dmxdev_feed_restart has
   set the feed going again, and the filter is still in its chain.  No demux call has
   failed that had what it needed. *)
THEOREM RunningAreServed ==
    ASSUME ~LateTimer
    PROVE  Spec => []RunningIsServed
<1>1. ServeInv => RunningIsServed
  <2> SUFFICES ASSUME ShareInv, Served, op.pc = "idle", NEW f \in Filter, Running(f)
               PROVE  LET d == flt[f].feed IN
                      /\ d # None /\ feed[d].listed /\ feed[d].filtering
                      /\ feed[d].pid = flt[f].par.pid
                      /\ flt[f].sec # None
                      /\ InChain(flt[f].sec, d) /\ sec[flt[f].sec].priv = f
    BY DEF ServeInv, RunningIsServed
  <2>1. Holds(f) /\ Linked(f)
    BY DEF Holds, Linked
  <2>2. flt[f].feed \in Feed /\ feed[flt[f].feed].listed /\ feed[flt[f].feed].pid = flt[f].par.pid
    BY <2>1 DEF ShareInv, HeldInv, Served, FeedInv
  <2>3. feed[flt[f].feed].filtering
    BY DEF Served, RunInv, Paused
  <2>4. /\ flt[f].sec \in Sec /\ InChain(flt[f].sec, flt[f].feed)
        /\ sec[flt[f].sec].priv = f
    BY <2>1 DEF ShareInv, LinkInv
  <2> QED
    BY <2>2, <2>3, <2>4 DEF Feed, Sec, None
<1> QED
  BY <1>1, Serving, PTL

(* Between two calls every allocated feed and section filter belongs to a filter that
   runs: dvb_dmxdev_filter_stop and the error paths of dvb_dmxdev_filter_start give back
   what they took.  No demux call has failed that had what it needed. *)
THEOREM NoSlotKeepsWhatItDropped ==
    ASSUME ~LateTimer
    PROVE  Spec => []NothingLeaks
<1>1. ServeInv => NothingLeaks
  <2> SUFFICES ASSUME Served, op.pc = "idle"
               PROVE  /\ \A d \in Feed : feed[d].state # "FREE" =>
                            \E f \in Filter : Running(f) /\ flt[f].feed = d
                      /\ \A x \in Sec : sec[x].state # "FREE" =>
                            \E f \in Filter : Running(f) /\ flt[f].sec = x
    BY DEF ServeInv, NothingLeaks
  <2>1. \A f \in Filter : (Holds(f) => Running(f)) /\ (Linked(f) => Running(f))
    BY DEF Holds, Linked
  <2> QED
    BY <2>1 DEF Served, FeedInv, SecInv
<1> QED
  BY <1>1, Serving, PTL

(* dvb_dmxdev_section_callback writes into the buffer of a filter only sections of the
   PID the filter is set to, and no call leaves a section there for the next PID.  No
   demux call has failed that had what it needed. *)
THEOREM BuffersAreOfTheirPid ==
    ASSUME ~LateTimer
    PROVE  Spec => []BufferIsOfItsPid
<1>1. ServeInv => BufferIsOfItsPid
  BY DEF ServeInv, Served, UnreadInv, BufferIsOfItsPid
<1> QED
  BY <1>1, Serving, PTL
=============================================================================
