---------------------------- MODULE UsbStick_proofs ----------------------------
(***************************************************************************)
(* Proofs about UsbStick, for any number of read-only users and feeds and  *)
(* any of the windows open.  Every step of the stick is a step of Frontend *)
(* or leaves the frontend alone, so what is proved of the frontend holds   *)
(* of the frontend in a stick.  PowerInv says where fe_init and fe_sleep   *)
(* can be while the thread is somewhere and what a suspend leaves behind;  *)
(* CountInv that feed_count never runs below the feeds that are on;        *)
(* StreamInv what StreamsWhileFed leaves out: the state while a feed is    *)
(* starting or stopping, and during a suspend.                             *)
(***************************************************************************)
EXTENDS UsbStick, Frontend_proofs, FiniteSetTheorems

\* One feed may be counted before it is on.
Starting == IF fop.kind = "start" THEN 1 ELSE 0

PowerInv ==
    /\ sra => suspended /\ active
    /\ fpc = "init" => tpc = "init"
    /\ fpc \in {"wait", "sleep"} => tpc = "sleep"
    /\ active <=> InUse
    /\ active /\ ~(suspended /\ sra) => powered > 0
    /\ suspended => fpc \in {"idle", "init"} /\ tpc \notin {"sleep", "quit"}

QuietInv ==
    window # "init" /\ suspended => tpc \in {"none", "loop"} /\ (sra <=> active)

CountInv == IsFiniteSet(on) /\ feed_count >= Cardinality(on) + Starting

Changing == fop.kind \in {"start", "stop"}

Stream ==
    /\ feed_count = Cardinality(on) + Starting
    /\ "streaming" \in bits <=> on # {} \/ Changing
    /\ Changing => on = {}
    /\ on # {} \/ Changing => active
    /\ fop.kind \in {"enter", "start"} => fop.feed \notin on
    /\ fpc = "sleep" => "streaming" \notin bits
    /\ IF suspended
       THEN fop = NoOp /\ ~hw /\ ~flowing /\ (active <=> on # {})
       ELSE (hw <=> on # {}) /\ (flowing <=> on # {} \/ fop.kind = "stop")

GoodWindow == window \notin {"late_feed", "idle_resume", "init", "feed_error"}

StreamInv == GoodWindow /\ gone = "no" => Stream

-----------------------------------------------------------------------------
(* The stick and the frontend in it. *)
LEMMA StickActions ==
    ASSUME Next
    PROVE  \/ Users \/ Thread
           \/ FeInit \/ FeInitDone \/ FeSleep \/ FeSleepPasses \/ FeSleepDone
           \/ \E f \in Feeds : StartFeed(f)
           \/ \E f \in Feeds : StopFeed(f)
           \/ FeedEnters \/ FeedStarted \/ FeedStopped
           \/ Suspend \/ Resume
           \/ Disconnect \/ UrbsReturned \/ StreamExit \/ FrontendExit
BY DEF Next, FeStep, FeedStep, ExitStep

LEMMA StepMaps == Next => [FrontendNext]_frontendVars
<1> SUFFICES ASSUME Next PROVE FrontendNext \/ UNCHANGED frontendVars
  OBVIOUS
<1>1. CASE Users \/ Thread
  BY <1>1 DEF Users, Thread, FrontendNext
<1>2. CASE FeInitDone \/ FeSleepDone
  BY <1>2 DEF FeInitDone, FeSleepDone, FrontendNext
<1>3. CASE FeInit \/ FeSleep \/ FeSleepPasses
  BY <1>3 DEF FeInit, FeSleep, FeSleepPasses
<1>4. CASE \E f \in Feeds : StartFeed(f) \/ StopFeed(f)
  BY <1>4 DEF StartFeed, StopFeed
<1>5. CASE FeedEnters \/ FeedStarted \/ FeedStopped
  BY <1>5 DEF FeedEnters, FeedStarted, FeedStopped
<1>6. CASE Suspend
  BY <1>6 DEF Suspend
<1>7. CASE Resume
  <2>1. CASE active
    BY <1>7, <2>1 DEF Resume, FrontendNext
  <2>2. CASE ~active
    BY <1>7, <2>2 DEF Resume, frontendVars
  <2> QED
    BY <2>1, <2>2
<1>8. CASE Disconnect \/ UrbsReturned \/ StreamExit
  BY <1>8 DEF Disconnect, UrbsReturned, StreamExit
<1>9. CASE FrontendExit
  BY <1>9 DEF FrontendExit, FrontendNext
<1> QED
  BY <1>1, <1>2, <1>3, <1>4, <1>5, <1>6, <1>7, <1>8, <1>9, StickActions

(* Whatever the stick does, its frontend behaves as dvb_frontend.c alone   *)
(* allows: the driver only calls it, it never reaches into its state.      *)
THEOREM StickIsAFrontend == Spec => FrontendSpec
<1>1. Init => FrontendInit
  BY DEF Init
<1>2. [Next]_vars => [FrontendNext]_frontendVars
  BY StepMaps DEF vars
<1> QED
  BY <1>1, <1>2, PTL DEF Spec, FrontendSpec

(* Where the thread can go in one step. *)
LEMMA ThreadMoves ==
    ASSUME FrontendTypeOK, Users \/ Thread
    PROVE  /\ ~suspended /\ UNCHANGED stickVars
           /\ \/ tpc' = tpc
              \/ tpc = "none" /\ tpc' = "init"
              \/ tpc \in {"loop", "tune", "quit"} /\ tpc' \in {"loop", "tune", "quit", "sleep"}
              \/ tpc = "end" /\ tpc' = "none"
<1>1. CASE Users /\ AppStep
  BY <1>1 DEF Users, AppStep, OpenNode, IoctlDown, IoctlUp, Release, ReleaseTail,
              EventStep, EventSleeps, EventWakes, EventDown, EventInterrupted
<1>2. CASE Users /\ OpenStep
  BY <1>2 DEF Users, OpenStep, FoundThread, FoundNone, FoundRunning, FoundExiting, OpenStops, OpenAsks,
              OpenStopped, OpenInterrupted,
              StartThread, StartFails
<1>3. CASE Thread
  BY <1>3 DEF Thread, ThreadStep, UnregStep, ThreadDecides, ThreadDown, ThreadTunes, ThreadQuits,
              ThreadEnds, UnregAsks, UnregStopped, UnregWaits
<1> QED
  BY <1>1, <1>2, <1>3 DEF Users

LEMMA WindowStays == ASSUME [FrontendNext]_frontendVars PROVE window' = window
<1>1. CASE FrontendNext
  <2>1. ASSUME NEW a \in Apps, OpenNode(a) \/ IoctlDown(a) \/ IoctlUp(a) \/ Release(a) \/ ReleaseTail(a)
        PROVE  window' = window
    BY <2>1 DEF OpenNode, IoctlDown, IoctlUp, Release, ReleaseTail
  <2> QED
    BY <1>1, <2>1, FrontendActions
       DEF EventSleeps, EventWakes, EventDown, EventInterrupted,
           FoundThread, FoundNone, FoundRunning, FoundExiting, OpenStops, OpenAsks,
           OpenStopped, OpenInterrupted, StartThread, StartFails,
           ThreadInit, ThreadDecides, ThreadDown, ThreadTunes, ThreadQuits, ThreadEnds, ThreadSleeps,
           FrontendResume, UnregStop, UnregAsks, UnregStopped, UnregWaits
<1> QED
  BY <1>1 DEF frontendVars
-----------------------------------------------------------------------------
(* The frontend's power and the bits that go with it. *)
LEMMA PowerPreserved ==
    ASSUME TypeOK, PowerInv, QuietInv, PowerFollowsFrontend, Next
    PROVE  (PowerInv /\ QuietInv /\ PowerFollowsFrontend)'
<1> USE DEF TypeOK, PowerInv, QuietInv, PowerFollowsFrontend, InUse, Open
<1>0. FrontendTypeOK /\ window' = window
  BY StepMaps, WindowStays
<1> USE <1>0
<1>1. CASE Users \/ Thread
  BY <1>1, ThreadMoves DEF stickVars
<1>2. CASE FeInit
  <2>1. ~active /\ ~sra /\ (window # "init" => ~suspended)
    BY <1>2 DEF FeInit
  <2>2. /\ tpc = "init" /\ tpc' = tpc /\ fpc' = "init" /\ active' = TRUE /\ bits' = bits \union {"init"}
        /\ powered' = powered + 1 /\ UNCHANGED <<sra, suspended>>
    BY <1>2, <2>1 DEF FeInit, frontendVars
  <2>3. powered \in Nat /\ (window \notin {"init", "sleep_error"} => powered = 0)
    BY <1>2, <2>1 DEF FeInit
  <2>4. PowerInv' /\ QuietInv'
    BY <2>1, <2>2, <2>3
  <2>5. InUse' /\ (window \notin {"init", "sleep_error"} => powered' = 1 /\ ~suspended')
    BY <2>1, <2>2, <2>3
  <2>6. PowerFollowsFrontend'
    BY <2>2, <2>5
  <2> QED
    BY <2>4, <2>6
<1>3. CASE FeInitDone
  BY <1>3 DEF FeInitDone, ThreadInit
<1>4. CASE FeSleep
  BY <1>4 DEF FeSleep, frontendVars
<1>5. CASE FeSleepPasses
  BY <1>5 DEF FeSleepPasses, frontendVars
<1>6. CASE FeSleepDone
  <2>1. active /\ ~sra /\ ~suspended /\ fpc = "sleep" /\ tpc = "sleep"
    BY <1>6 DEF FeSleepDone
  <2>2. /\ tpc' = "end" /\ fpc' = "idle" /\ active' = FALSE /\ bits' = bits \ {"sleep"}
        /\ UNCHANGED <<sra, suspended>>
    BY <1>6 DEF FeSleepDone, ThreadSleeps
  <2>3. PowerInv' /\ QuietInv'
    BY <2>1, <2>2
  <2>4. window \notin {"init", "sleep_error"} => powered' = 0
    BY <1>6, <2>1 DEF FeSleepDone
  <2>5. PowerFollowsFrontend'
    BY <2>1, <2>2, <2>4
  <2> QED
    BY <2>3, <2>5
<1>7. ASSUME NEW f \in Feeds, StartFeed(f)
      PROVE  (PowerInv /\ QuietInv /\ PowerFollowsFrontend)'
  BY <1>7 DEF StartFeed, frontendVars, Op
<1>8. ASSUME NEW f \in Feeds, StopFeed(f)
      PROVE  (PowerInv /\ QuietInv /\ PowerFollowsFrontend)'
  BY <1>8 DEF StopFeed, frontendVars, Op
<1>9. CASE FeedEnters
  BY <1>9 DEF FeedEnters, frontendVars, Op
<1>10. CASE FeedStarted
  BY <1>10 DEF FeedStarted, frontendVars
<1>11. CASE FeedStopped
  BY <1>11 DEF FeedStopped, frontendVars
<1>12. CASE Suspend
  BY <1>12 DEF Suspend, Frozen, GoesQuiet, frontendVars
<1>13. CASE Resume
  BY <1>13 DEF Resume, FrontendResume, frontendVars
<1>14. CASE Disconnect
  BY <1>14 DEF Disconnect, frontendVars
<1>15. CASE UrbsReturned
  BY <1>15 DEF UrbsReturned, frontendVars
<1>16. CASE StreamExit
  BY <1>16 DEF StreamExit, frontendVars
<1>17. CASE FrontendExit
  BY <1>17 DEF FrontendExit, UnregStop, stickVars
<1> QED
  BY <1>1, <1>2, <1>3, <1>4, <1>5, <1>6, <1>7, <1>8, <1>9, <1>10, <1>11, <1>12,
     <1>13, <1>14, <1>15, <1>16, <1>17, StickActions

(* Types; what is subtracted is there. *)
LEMMA StickTypesPreserved ==
    ASSUME TypeOK, PowerInv, CountInv, Next
    PROVE  TypeOK'
<1> USE DEF TypeOK
<1>0. FrontendTypeOK'
  BY StepMaps, TypesPreserved DEF FrontendTypeOK, frontendVars
<1> USE <1>0
<1>1. CASE Users \/ Thread
  BY <1>1, ThreadMoves DEF stickVars
<1>2. CASE FeInit
  <2>1. active' \in BOOLEAN /\ bits' \subseteq {"init", "sleep", "streaming"}
    BY <1>2 DEF FeInit
  <2> QED
    BY <1>2, <2>1 DEF FeInit
<1>3. CASE FeInitDone
  BY <1>3 DEF FeInitDone, ThreadInit
<1>4. CASE FeSleep
  BY <1>4 DEF FeSleep, frontendVars
<1>5. CASE FeSleepPasses
  BY <1>5 DEF FeSleepPasses, frontendVars
<1>6. CASE FeSleepDone
  <2>1. powered > 0
    BY <1>6 DEF FeSleepDone, ThreadSleeps, PowerInv, InUse
  <2>2. powered' \in Nat
    BY <1>6, <2>1 DEF FeSleepDone
  <2> QED
    BY <1>6, <2>2 DEF FeSleepDone
<1>7. ASSUME NEW f \in Feeds, StartFeed(f)
      PROVE  TypeOK'
  BY <1>7 DEF StartFeed, frontendVars, Op
<1>8. ASSUME NEW f \in Feeds, StopFeed(f)
      PROVE  TypeOK'
  <2>1. Cardinality(on) > 0
    BY <1>8, FS_EmptySet, FS_CardinalityType DEF StopFeed, CountInv
  <2>2. feed_count - 1 \in Nat
    BY <2>1, FS_CardinalityType DEF CountInv, Starting
  <2> QED
    BY <1>8, <2>2 DEF StopFeed, Op
<1>9. CASE FeedEnters
  <2>1. fop.feed \in Feeds
    BY <1>9 DEF FeedEnters, NoOp, Op
  <2>2. fop' = NoOp \/ fop' = Op("start", fop.feed)
    BY <1>9 DEF FeedEnters
  <2>3. bits' = bits \/ bits' = bits \union {"streaming"}
    BY <1>9 DEF FeedEnters
  <2>4. on' \subseteq Feeds /\ feed_count' \in Nat
    BY <1>9, <2>1 DEF FeedEnters
  <2> QED
    BY <1>9, <2>1, <2>2, <2>3, <2>4 DEF FeedEnters
<1>10. CASE FeedStarted
  <2>1. fop.feed \in Feeds
    BY <1>10 DEF FeedStarted, NoOp, Op
  <2> QED
    BY <1>10, <2>1 DEF FeedStarted, Submitted
<1>11. CASE FeedStopped
  BY <1>11 DEF FeedStopped, frontendVars
<1>12. CASE Suspend
  <2>1. active => powered > 0
    BY <1>12 DEF Suspend, PowerInv
  <2>2. powered' \in Nat /\ hw' \in BOOLEAN /\ flowing' \in BOOLEAN
    <3>1. CASE active
      <4>1. hw' = FALSE /\ flowing' = FALSE /\ powered' = powered - 1
        BY <1>12, <3>1 DEF Suspend, GoesQuiet
      <4>2. powered' \in Nat
        BY <2>1, <3>1, <4>1
      <4> QED
        BY <4>1, <4>2
    <3>2. CASE ~active
      BY <1>12, <3>2 DEF Suspend, GoesQuiet
    <3> QED
      BY <3>1, <3>2
  <2>3. sra' \in BOOLEAN /\ suspended' \in BOOLEAN
    BY <1>12 DEF Suspend
  <2> QED
    BY <1>12, <2>2, <2>3 DEF Suspend
<1>13. CASE Resume
  <2>1. powered' \in Nat /\ hw' \in BOOLEAN /\ flowing' \in BOOLEAN
    <3>1. CASE active
      BY <1>13, <3>1 DEF Resume, Submitted
    <3>2. CASE ~active
      BY <1>13, <3>2 DEF Resume
    <3> QED
      BY <3>1, <3>2
  <2> QED
    BY <1>13, <2>1 DEF Resume
<1>14. CASE Disconnect
  BY <1>14 DEF Disconnect, frontendVars
<1>15. CASE UrbsReturned
  BY <1>15 DEF UrbsReturned, frontendVars
<1>16. CASE StreamExit
  BY <1>16 DEF StreamExit, frontendVars
<1>17. CASE FrontendExit
  BY <1>17 DEF FrontendExit, UnregStop, stickVars
<1> QED
  BY <1>1, <1>2, <1>3, <1>4, <1>5, <1>6, <1>7, <1>8, <1>9, <1>10, <1>11, <1>12,
     <1>13, <1>14, <1>15, <1>16, <1>17, StickActions

(* feed_count, for any number of feeds. *)
LEMMA CountPreserved ==
    ASSUME TypeOK, TypeOK', CountInv, Next
    PROVE  CountInv'
<1> USE DEF CountInv, Starting
<1>0. feed_count \in Nat /\ feed_count' \in Nat /\ Cardinality(on) \in Nat
  BY FS_CardinalityType DEF TypeOK
<1> USE <1>0
<1>1. CASE Users \/ Thread
  BY <1>1, ThreadMoves DEF stickVars, TypeOK
<1>2. CASE FeInit
  BY <1>2 DEF FeInit, frontendVars
<1>3. CASE FeInitDone
  BY <1>3 DEF FeInitDone, ThreadInit
<1>4. CASE FeSleep
  BY <1>4 DEF FeSleep, frontendVars
<1>5. CASE FeSleepPasses
  BY <1>5 DEF FeSleepPasses, frontendVars
<1>6. CASE FeSleepDone
  BY <1>6 DEF FeSleepDone, ThreadSleeps
<1>7. ASSUME NEW f \in Feeds, StartFeed(f)
      PROVE  CountInv'
  BY <1>7 DEF StartFeed, Op, NoOp
<1>8. ASSUME NEW f \in Feeds, StopFeed(f)
      PROVE  CountInv'
  <2>1. IsFiniteSet(on \ {f}) /\ Cardinality(on \ {f}) = Cardinality(on) - 1
    BY <1>8, FS_RemoveElement DEF StopFeed
  <2>2. fop'.kind # "start"
    BY <1>8 DEF StopFeed, NoOp, Op
  <2>3. feed_count' >= feed_count - 1
    BY <1>8 DEF StopFeed
  <2>4. on' = on \ {f}
    BY <1>8 DEF StopFeed
  <2> QED
    BY <2>1, <2>2, <2>3, <2>4
<1>9. CASE FeedEnters
  <2>1. /\ IsFiniteSet(on \union {fop.feed})
        /\ Cardinality(on \union {fop.feed}) \in {Cardinality(on), Cardinality(on) + 1}
    BY FS_AddElement
  <2>2. CASE active /\ feed_count = 0
    BY <1>9, <2>2 DEF FeedEnters, Op
  <2>3. CASE active /\ feed_count # 0
    <3>1. fop'.kind = "none" /\ fop.kind = "enter" /\ feed_count' = feed_count + 1
      BY <1>9, <2>3 DEF FeedEnters, NoOp
    <3>2. on' = on \union {fop.feed} \/ on' = on
      BY <1>9 DEF FeedEnters
    <3>3. IsFiniteSet(on') /\ Cardinality(on') \in {Cardinality(on), Cardinality(on) + 1}
      BY <2>1, <3>2
    <3>4. Starting = 0 /\ Starting' = 0
      BY <3>1
    <3> QED
      BY <3>1, <3>3, <3>4
  <2>4. CASE ~active
    BY <1>9, <2>4 DEF FeedEnters, NoOp
  <2> QED
    BY <2>2, <2>3, <2>4
<1>10. CASE FeedStarted
  <2>1. /\ IsFiniteSet(on \union {fop.feed})
        /\ Cardinality(on \union {fop.feed}) \in {Cardinality(on), Cardinality(on) + 1}
    BY FS_AddElement
  <2>2. fop'.kind = "none" /\ fop.kind = "start" /\ (on' = on \union {fop.feed} \/ on' = on) /\ feed_count' = feed_count
    BY <1>10 DEF FeedStarted, NoOp
  <2> QED
    BY <2>1, <2>2
<1>11. CASE FeedStopped
  BY <1>11 DEF FeedStopped, NoOp
<1>12. CASE Suspend
  BY <1>12 DEF Suspend, Frozen, GoesQuiet, frontendVars
<1>13. CASE Resume
  BY <1>13 DEF Resume, FrontendResume, frontendVars
<1>14. CASE Disconnect
  BY <1>14 DEF Disconnect, frontendVars
<1>15. CASE UrbsReturned
  BY <1>15 DEF UrbsReturned, frontendVars
<1>16. CASE StreamExit
  BY <1>16 DEF StreamExit, frontendVars
<1>17. CASE FrontendExit
  BY <1>17 DEF FrontendExit, UnregStop, stickVars
<1> QED
  BY <1>1, <1>2, <1>3, <1>4, <1>5, <1>6, <1>7, <1>8, <1>9, <1>10, <1>11, <1>12,
     <1>13, <1>14, <1>15, <1>16, <1>17, StickActions

(* A device that is gone does not come back. *)
LEMMA GoneStays == Next => gone' = gone \/ gone' # "no"
<1> SUFFICES ASSUME Next PROVE gone' = gone \/ gone' # "no"
  OBVIOUS
<1> USE DEF stickVars
<1>1. ASSUME NEW f \in Feeds, StartFeed(f) \/ StopFeed(f)
      PROVE  gone' = gone
  BY <1>1 DEF StartFeed, StopFeed
<1>2. CASE Users \/ Thread
  BY <1>2 DEF Users, Thread
<1> QED
  BY <1>1, <1>2, StickActions
     DEF FeInit, FeInitDone, FeSleep, FeSleepPasses, FeSleepDone, FeedEnters, FeedStarted, FeedStopped,
         Suspend, Resume, Disconnect, UrbsReturned, StreamExit, FrontendExit

(* The stream. *)
LEMMA StreamPreserved ==
    ASSUME TypeOK, TypeOK', PowerInv, QuietInv, CountInv, StreamInv, GoodWindow, gone' = "no", Next
    PROVE  Stream'
<1> USE DEF Stream, Changing, Starting
<1>0. /\ feed_count \in Nat /\ Cardinality(on) \in Nat /\ IsFiniteSet(on)
      /\ Cardinality(on) = 0 <=> on = {}
  BY FS_CardinalityType, FS_EmptySet DEF TypeOK, CountInv
<1>18. Stream
  BY GoneStays DEF StreamInv
<1> USE <1>0, <1>18
<1>1. CASE Users \/ Thread
  BY <1>1, ThreadMoves DEF stickVars, TypeOK
<1>2. CASE FeInit
  <2>1. ~suspended /\ UNCHANGED <<feed_count, on, fop, flowing, hw, suspended>> /\ fpc' = "init"
    BY <1>2 DEF FeInit, QuietInv, GoodWindow
  <2>2. (active => active') /\ ("streaming" \in bits' <=> "streaming" \in bits)
    BY <1>2 DEF FeInit
  <2> QED
    BY <2>1, <2>2
<1>3. CASE FeInitDone
  BY <1>3 DEF FeInitDone, ThreadInit
<1>4. CASE FeSleep
  BY <1>4 DEF FeSleep, frontendVars
<1>5. CASE FeSleepPasses
  BY <1>5 DEF FeSleepPasses, frontendVars
<1>6. CASE FeSleepDone
  <2>1. on = {} /\ ~Changing /\ ~suspended /\ fpc' = "idle" /\ "streaming" \notin bits'
    BY <1>6 DEF FeSleepDone
  <2>2. UNCHANGED <<feed_count, on, fop, flowing, hw, suspended>>
    BY <1>6 DEF FeSleepDone
  <2> QED
    BY <2>1, <2>2
<1>7. ASSUME NEW f \in Feeds, StartFeed(f)
      PROVE  Stream'
  <2>1. fop.kind = "none" /\ fop'.kind = "enter" /\ fop'.feed = f /\ f \notin on /\ ~suspended
    BY <1>7 DEF StartFeed, Op, NoOp
  <2>2. UNCHANGED <<active, bits, feed_count, on, flowing, hw, suspended, fpc>>
    BY <1>7 DEF StartFeed
  <2> QED
    BY <2>1, <2>2
<1>8. ASSUME NEW f \in Feeds, StopFeed(f)
      PROVE  Stream'
  <2>1. /\ fop.kind = "none" /\ on' = on \ {f} /\ f \in on /\ on # {} /\ active /\ ~suspended
        /\ feed_count' = feed_count - 1
        /\ UNCHANGED <<active, bits, flowing, suspended, fpc>>
    BY <1>8 DEF StopFeed, NoOp
  <2>2. Cardinality(on') = Cardinality(on) - 1 /\ IsFiniteSet(on')
    BY <2>1, FS_RemoveElement
  <2>3. Cardinality(on') = 0 <=> on' = {}
    BY <2>2, FS_EmptySet
  <2>4. CASE feed_count > 1
    <3>1. fop' = fop /\ hw' = hw
      BY <1>8, <2>1, <2>4 DEF StopFeed
    <3>2. on' # {} /\ feed_count' = Cardinality(on')
      BY <2>1, <2>2, <2>3, <2>4
    <3> QED
      BY <2>1, <3>1, <3>2
  <2>5. CASE ~(feed_count > 1)
    <3>1. fop'.kind = "stop" /\ ~hw'
      BY <1>8, <2>1, <2>5 DEF StopFeed, Op
    <3>2. on' = {} /\ feed_count' = Cardinality(on')
      BY <2>1, <2>2, <2>3, <2>5
    <3> QED
      BY <2>1, <3>1, <3>2
  <2> QED
    BY <2>4, <2>5
<1>9. CASE FeedEnters
  <2>1. /\ fop.kind = "enter" /\ fpc # "sleep" /\ ~suspended /\ fop.feed \notin on
        /\ UNCHANGED <<active, flowing, hw, suspended, fpc>>
    BY <1>9 DEF FeedEnters, GoodWindow, Open, NoOp
  <2>2. CASE ~active
    <3>1. on = {} /\ fop'.kind = "none" /\ UNCHANGED <<on, bits, feed_count>>
      BY <1>9, <2>1, <2>2 DEF FeedEnters, NoOp, GoodWindow, Open
    <3> QED
      BY <2>1, <3>1
  <2>3. CASE active /\ feed_count = 0
    <3>1. /\ on = {} /\ fop'.kind = "start" /\ fop'.feed = fop.feed /\ feed_count' = 1
          /\ bits' = bits \union {"streaming"} /\ on' = on
      <4>1. /\ fop' = Op("start", fop.feed) /\ feed_count' = feed_count + 1
            /\ bits' = bits \union {"streaming"}
        BY ONLY <1>9, <2>3 DEF FeedEnters
      <4>2. on' = on
        BY ONLY <1>9, <2>3, feed_count \in Nat, GoodWindow DEF FeedEnters, GoodWindow, Open
      <4>3. on = {}
        <5>1. Cardinality(on) + 0 = 0
          BY ONLY <2>1, <2>3, Stream DEF Stream, Starting
        <5> QED
          BY ONLY <5>1, <1>0
      <4> QED
        BY ONLY <2>3, <4>1, <4>2, <4>3 DEF Op
    <3> QED
      BY <2>1, <2>3, <3>1
  <2>4. CASE active /\ feed_count # 0
    <3>1. /\ on # {} /\ fop'.kind = "none" /\ feed_count' = feed_count + 1
          /\ bits' = bits /\ on' = on \union {fop.feed}
      BY <1>9, <2>1, <2>4 DEF FeedEnters, NoOp, GoodWindow, Open
    <3>2. Cardinality(on') = Cardinality(on) + 1
      BY <2>1, <3>1, FS_AddElement
    <3>3. feed_count' = Cardinality(on') + Starting'
      BY <2>1, <3>1, <3>2
    <3> QED
      BY <2>1, <2>4, <3>1, <3>3
  <2> QED
    BY <2>2, <2>3, <2>4
<1>10. CASE FeedStarted
  <2>1. /\ fop.kind = "start" /\ fop'.kind = "none" /\ on = {} /\ active /\ ~suspended
        /\ ~flowing /\ flowing' = Submitted /\ hw' = TRUE /\ on' = on \union {fop.feed}
        /\ UNCHANGED <<active, bits, feed_count, suspended, fpc>>
    BY <1>10 DEF FeedStarted, NoOp, GoodWindow, Open
  <2>2. Cardinality(on') = Cardinality(on) + 1 /\ on' # {}
    BY <2>1, FS_AddElement
  <2>3. flowing' /\ hw' /\ "streaming" \in bits
    BY <2>1 DEF Submitted
  <2>4. /\ feed_count' = Cardinality(on') /\ fop'.kind = "none" /\ ~suspended'
        /\ "streaming" \in bits' /\ active' /\ fpc' = fpc
    BY <2>1, <2>2, <2>3
  <2>5. fpc # "sleep"
    BY <2>3
  <2> QED
    BY <2>2, <2>3, <2>4, <2>5
<1>11. CASE FeedStopped
  <2>1. /\ fop.kind = "stop" /\ fop'.kind = "none" /\ on = {} /\ ~suspended
        /\ ~flowing' /\ "streaming" \notin bits'
        /\ UNCHANGED <<active, feed_count, on, hw, suspended, fpc>>
    BY <1>11 DEF FeedStopped, NoOp
  <2> QED
    BY <2>1
<1>12. CASE Suspend
  <2>1. /\ ~suspended /\ suspended' /\ fop = NoOp /\ fop.kind = "none"
        /\ (active => feed_count # 0)
        /\ UNCHANGED <<active, bits, feed_count, on, fop, fpc>>
    BY <1>12 DEF Suspend, GoodWindow, Open, NoOp
  <2>2. active <=> on # {}
    BY <2>1
  <2>3. ~hw' /\ ~flowing'
    <3>1. CASE active
      BY <1>12, <3>1 DEF Suspend, GoesQuiet
    <3>2. CASE ~active
      BY <1>12, <2>1, <2>2, <3>2 DEF Suspend, GoesQuiet
    <3> QED
      BY <3>1, <3>2
  <2> QED
    BY <2>1, <2>2, <2>3
<1>13. CASE Resume
  <2>1. /\ suspended /\ ~suspended' /\ fop = NoOp /\ fop.kind = "none" /\ ~flowing /\ ~hw
        /\ (active <=> on # {})
        /\ UNCHANGED <<active, bits, feed_count, on, fop, fpc>>
    BY <1>13 DEF Resume, NoOp
  <2>2. CASE active
    <3>1. hw' /\ flowing'
      BY <1>13, <2>1, <2>2 DEF Resume, Submitted
    <3> QED
      BY <2>1, <2>2, <3>1
  <2>3. CASE ~active
    <3>1. ~hw' /\ ~flowing'
      BY <1>13, <2>1, <2>3 DEF Resume
    <3> QED
      BY <2>1, <2>3, <3>1
  <2> QED
    BY <2>2, <2>3
<1>14. CASE Disconnect
  BY <1>14 DEF Disconnect, frontendVars
<1>15. CASE UrbsReturned
  BY <1>15 DEF UrbsReturned, frontendVars
<1>16. CASE StreamExit
  BY <1>16 DEF StreamExit, frontendVars
<1>17. CASE FrontendExit
  BY <1>17 DEF FrontendExit, UnregStop, stickVars
<1> QED
  BY <1>1, <1>2, <1>3, <1>4, <1>5, <1>6, <1>7, <1>8, <1>9, <1>10, <1>11, <1>12,
     <1>13, <1>14, <1>15, <1>16, <1>17, StickActions

-----------------------------------------------------------------------------
StickInv ==
    /\ TypeOK /\ PowerInv /\ QuietInv /\ PowerFollowsFrontend
    /\ CountInv /\ StreamInv

LEMMA StickInit == Init => StickInv
<1> SUFFICES ASSUME Init PROVE StickInv
  OBVIOUS
<1> USE DEF Init, FrontendInit
<1>1. FrontendTypeOK
  BY InitInv DEF FrontendInv
<1>2. TypeOK
  BY <1>1 DEF TypeOK
<1>3. fop.kind = "none" /\ Cardinality(on) = 0 /\ IsFiniteSet(on)
  BY FS_EmptySet DEF NoOp
<1>4. PowerInv /\ QuietInv /\ PowerFollowsFrontend
  BY DEF PowerInv, QuietInv, PowerFollowsFrontend, InUse
<1>5. CountInv
  BY <1>3 DEF CountInv, Starting
<1>6. StreamInv
  BY <1>3 DEF StreamInv, Stream, Starting, Changing
<1> QED
  BY <1>2, <1>4, <1>5, <1>6 DEF StickInv

LEMMA StickPreserved ==
    ASSUME StickInv, [Next]_vars
    PROVE  StickInv'
<1> USE DEF StickInv
<1>1. CASE Next
  <2>1. TypeOK'
    BY <1>1, StickTypesPreserved
  <2>2. (PowerInv /\ QuietInv /\ PowerFollowsFrontend)'
    BY <1>1, PowerPreserved
  <2>3. CountInv'
    BY <1>1, <2>1, CountPreserved
  <2>4. StreamInv'
    <3> SUFFICES ASSUME GoodWindow', gone' = "no" PROVE Stream'
      BY DEF StreamInv
    <3>1. GoodWindow
      BY <1>1, StepMaps, WindowStays DEF GoodWindow
    <3> QED
      BY <1>1, <2>1, <3>1, StreamPreserved
  <2> QED
    BY <2>1, <2>2, <2>3, <2>4
<1>2. CASE UNCHANGED vars
  <2> USE <1>2 DEF vars, frontendVars, stickVars
  <2>1. TypeOK'
    BY DEF TypeOK, FrontendTypeOK
  <2>2. (PowerInv /\ QuietInv /\ PowerFollowsFrontend)'
    BY DEF PowerInv, QuietInv, PowerFollowsFrontend, InUse
  <2>3. CountInv' /\ StreamInv'
    BY DEF CountInv, StreamInv, GoodWindow, Stream, Changing, Starting
  <2> QED
    BY <2>1, <2>2, <2>3
<1> QED
  BY <1>1, <1>2

THEOREM StickInvariant == Spec => []StickInv
BY StickInit, StickPreserved, PTL DEF Spec

(* Every variable has its type: the feed count and the power count never   *)
(* go below zero, in any window and however many feeds there are.          *)
THEOREM StickTypes == Spec => []TypeOK
<1>1. StickInv => TypeOK
  BY DEF StickInv
<1> QED
  BY <1>1, StickInvariant, PTL

(* With feeds on, ADAP_STREAMING is set, the device streams and the URBs   *)
(* are submitted; with none, nothing is: for any number of feeds.          *)
THEOREM FedDeviceStreams == Spec => []StreamsWhileFed
<1>1. StickInv => StreamsWhileFed
  <2> SUFFICES ASSUME StickInv, GoodWindow, ~suspended, gone = "no", fop = NoOp
               PROVE  /\ feed_count = Cardinality(on)
                      /\ ("streaming" \in bits) = (on # {})
                      /\ hw = (on # {}) /\ flowing = (on # {})
    BY DEF StreamsWhileFed, Streams, GoodWindow
  <2>1. fop.kind = "none" /\ Stream
    BY DEF StickInv, StreamInv, NoOp
  <2>2. feed_count = Cardinality(on)
    BY <2>1, FS_CardinalityType DEF Stream, Starting, StickInv, CountInv
  <2>3. ("streaming" \in bits <=> on # {}) /\ (hw <=> on # {}) /\ (flowing <=> on # {})
    BY <2>1 DEF Stream, Changing
  <2>4. hw \in BOOLEAN /\ flowing \in BOOLEAN
    BY DEF StickInv, TypeOK
  <2> QED
    BY <2>2, <2>3, <2>4
<1> QED
  BY <1>1, StickInvariant, PTL

(* The device is powered exactly while its frontend is in use and the      *)
(* system runs.                                                            *)
THEOREM PowerIsBalanced == Spec => []PowerFollowsFrontend
<1>1. StickInv => PowerFollowsFrontend
  BY DEF StickInv
<1> QED
  BY <1>1, StickInvariant, PTL

(* In a stick too, whatever its driver does with feeds, suspend and        *)
(* disconnect, and with the windows that each of the three names: the      *)
(* semaphore is a mutex, the open node serves, and nothing freed is used.  *)
THEOREM FrontendInStick == Spec => [](OneHolder /\ NodeServes /\ FreedIsUnused)
BY StickIsAFrontend, SemaphoreIsAMutex, OpenNodeServes, NothingUsesFreed, PTL
=============================================================================
