---------------------------- MODULE Frontend_proofs ----------------------------
(***************************************************************************)
(* Proofs about Frontend, for any number of read-only users and any of the *)
(* windows open: its types, that the semaphore is a mutex, that the node   *)
(* serves until it is removed, and that nothing freed is in use.           *)
(*                                                                         *)
(* None of the three is inductive.  ThreadInv ties fepriv->thread to where *)
(* the thread is, says when it can have been told to stop, and that an     *)
(* open between its two reads finds the thread or fe->exit still set;      *)
(* SemInv that no ioctl has the semaphore when dvb_frontend_stop           *)
(* reinitialises it, and that none gives up what it does not have;         *)
(* RemovalInv what is already over while the frontend is unregistered.     *)
(***************************************************************************)
EXTENDS Frontend, TLAPS

Alive == {"init", "loop", "tune", "quit", "sleep"}

ThreadInv ==
    /\ thread <=> tpc \in Alive
    /\ app["writer"] = "run" => ~thread
    /\ unreg \in {"no", "asking"} /\ app["writer"] # "stopping" => ~should_stop
    /\ tpc = "sleep" => exit # "no"
    /\ app["writer"] = "check" /\ window # "reopen" =>
           tpc # "none" /\ (tpc = "end" => exit # "no")

SemInv ==
    /\ window \notin {"sema", "event"} /\ StopPending => InIoctl = {}
    /\ window # "event" => \A a \in Apps : app[a] # "interrupted"

RemovalInv ==
    /\ unreg # "no" /\ window # "overlap" => ~Opening
    /\ unreg = "asking" /\ window \notin {"overlap", "ending"} => tpc # "end"
    /\ unreg \in {"wait", "asleep", "freed"} /\ window \notin {"overlap", "ending"} => tpc = "none"
    /\ window # "tail" => \A a \in Apps : app[a] # "tail"

FrontendInv ==
    /\ FrontendTypeOK /\ ThreadInv
    /\ OneHolder /\ SemInv
    /\ NodeServes
    /\ RemovalInv /\ FreedIsUnused

-----------------------------------------------------------------------------
(* FrontendNext, action by action. *)
LEMMA FrontendActions ==
    ASSUME FrontendNext
    PROVE  \/ \E a \in Apps : OpenNode(a) \/ IoctlDown(a) \/ IoctlUp(a) \/ Release(a) \/ ReleaseTail(a)
           \/ EventSleeps \/ EventWakes \/ EventDown \/ EventInterrupted
           \/ FoundThread \/ FoundNone \/ FoundRunning \/ FoundExiting \/ OpenStops \/ OpenAsks
           \/ OpenStopped \/ OpenInterrupted
           \/ StartThread \/ StartFails
           \/ ThreadInit \/ ThreadDecides \/ ThreadDown \/ ThreadTunes \/ ThreadQuits \/ ThreadEnds
           \/ ThreadSleeps
           \/ FrontendResume \/ UnregStop \/ UnregAsks \/ UnregStopped \/ UnregWaits
BY DEF FrontendNext, AppStep, EventStep, OpenStep, ThreadStep, UnregStep

LEMMA InitInv == FrontendInit => FrontendInv
<1> SUFFICES ASSUME FrontendInit PROVE FrontendInv
  OBVIOUS
<1> USE DEF FrontendInit, Apps
<1>1. FrontendTypeOK
  BY DEF FrontendTypeOK, Places, HasNode
<1>2. ThreadInv
  BY DEF ThreadInv, Alive
<1>3. OneHolder /\ SemInv
  BY DEF OneHolder, SemInv, StopPending, InIoctl, ThreadHolds
<1>4. NodeServes
  BY DEF NodeServes, Opening, HasNode
<1>5. RemovalInv /\ FreedIsUnused
  BY DEF RemovalInv, FreedIsUnused
<1> QED
  BY <1>1, <1>2, <1>3, <1>4, <1>5 DEF FrontendInv

LEMMA TypesPreserved ==
    ASSUME FrontendTypeOK, FrontendNext
    PROVE  FrontendTypeOK'
<1> USE DEF FrontendTypeOK, Places, HasNode, At
<1>0. "writer" \in Apps
  BY DEF Apps
<1>1. ASSUME NEW a \in Apps, OpenNode(a) \/ IoctlDown(a) \/ IoctlUp(a)
      PROVE  FrontendTypeOK'
  BY <1>1 DEF OpenNode, IoctlDown, CanDown, IoctlUp
<1>2. ASSUME NEW a \in Apps, Release(a) \/ ReleaseTail(a)
      PROVE  FrontendTypeOK'
  BY <1>2 DEF Release, ReleaseTail, Woken
<1>3. CASE FoundRunning
  BY <1>3 DEF FoundRunning
<1>4. CASE FoundExiting
  BY <1>4 DEF FoundExiting
<1>5. CASE FoundNone
  BY <1>5 DEF FoundNone
<1>6. CASE OpenStopped
  BY <1>6 DEF OpenStopped, AfterStop
<1>7. CASE OpenInterrupted
  BY <1>7 DEF OpenInterrupted
<1>8. CASE StartThread
  BY <1>0, <1>8 DEF StartThread
<1>16. CASE StartFails
  BY <1>0, <1>16 DEF StartFails
<1>9. CASE ThreadInit \/ ThreadDecides \/ ThreadDown \/ ThreadTunes \/ ThreadQuits
  BY <1>9 DEF ThreadInit, ThreadDecides, ThreadDown, ThreadTunes, ThreadQuits
<1>10. CASE ThreadSleeps
  BY <1>10 DEF ThreadSleeps
<1>11. CASE ThreadEnds
  BY <1>11 DEF ThreadEnds
<1>12. CASE FrontendResume
  BY <1>12 DEF FrontendResume
<1>13. CASE UnregStop
  BY <1>13 DEF UnregStop, WriteExit
<1>17. CASE FoundThread
  BY <1>17 DEF FoundThread
<1>18. CASE OpenStops
  BY <1>18 DEF OpenStops, WriteExit
<1>19. CASE OpenAsks
  BY <1>19 DEF OpenAsks, AskToStop
<1>20. CASE UnregAsks
  BY <1>20 DEF UnregAsks, AskToStop
<1>21. CASE EventSleeps \/ EventWakes \/ EventDown \/ EventInterrupted
  BY <1>0, <1>21 DEF EventSleeps, EventWakes, EventDown, CanDown, EventInterrupted
<1>14. CASE UnregStopped
  BY <1>14 DEF UnregStopped, AfterStop
<1>15. CASE UnregWaits
  BY <1>15 DEF UnregWaits
<1> QED
  BY <1>1, <1>2, <1>3, <1>4, <1>5, <1>6, <1>7, <1>8, <1>9, <1>10, <1>11, <1>12, <1>13, <1>14, <1>15,
     <1>16, <1>17, <1>18, <1>19, <1>20, <1>21, FrontendActions

-----------------------------------------------------------------------------
(* ThreadInv: only what is in its conjuncts moves. *)
LEMMA ThreadPreserved ==
    ASSUME FrontendTypeOK, ThreadInv, FrontendNext
    PROVE  ThreadInv'
<1> USE DEF FrontendTypeOK, ThreadInv, Alive, At, Frozen, StopPending, Opening
<1>0. "writer" \in Apps
  BY DEF Apps
<1>1. ASSUME NEW a \in Apps, OpenNode(a)
      PROVE  ThreadInv'
  BY <1>0, <1>1 DEF OpenNode
<1>2. ASSUME NEW a \in Apps, IoctlDown(a)
      PROVE  ThreadInv'
  BY <1>0, <1>2 DEF IoctlDown, CanDown
<1>3. ASSUME NEW a \in Apps, IoctlUp(a)
      PROVE  ThreadInv'
  BY <1>0, <1>3 DEF IoctlUp
<1>4. ASSUME NEW a \in Apps, Release(a)
      PROVE  ThreadInv'
  BY <1>0, <1>4 DEF Release, Woken
<1>5. ASSUME NEW a \in Apps, ReleaseTail(a)
      PROVE  ThreadInv'
  BY <1>0, <1>5 DEF ReleaseTail, Woken
<1>6. CASE FoundRunning
  BY <1>0, <1>6 DEF FoundRunning
<1>7. CASE FoundExiting
  BY <1>0, <1>7 DEF FoundExiting
<1>8. CASE FoundNone
  BY <1>0, <1>8 DEF FoundNone
<1>9. CASE OpenStopped
  BY <1>0, <1>9 DEF OpenStopped, AfterStop
<1>10. CASE OpenInterrupted
  BY <1>0, <1>10 DEF OpenInterrupted
<1>11. CASE StartThread
  BY <1>0, <1>11 DEF StartThread
<1>12. CASE StartFails
  BY <1>0, <1>12 DEF StartFails
<1>13. CASE ThreadInit
  BY <1>0, <1>13 DEF ThreadInit
<1>14. CASE ThreadDecides
  BY <1>0, <1>14 DEF ThreadDecides
<1>15. CASE ThreadDown
  BY <1>0, <1>15 DEF ThreadDown
<1>16. CASE ThreadTunes
  BY <1>0, <1>16 DEF ThreadTunes
<1>17. CASE ThreadQuits
  BY <1>0, <1>17 DEF ThreadQuits
<1>18. CASE ThreadSleeps
  BY <1>0, <1>18 DEF ThreadSleeps
<1>19. CASE ThreadEnds
  BY <1>0, <1>19 DEF ThreadEnds, Open
<1>20. CASE FrontendResume
  BY <1>0, <1>20 DEF FrontendResume
<1>21. CASE UnregStop
  BY <1>0, <1>21 DEF UnregStop, WriteExit
<1>22. CASE UnregStopped
  BY <1>0, <1>22 DEF UnregStopped, AfterStop
<1>23. CASE UnregWaits
  BY <1>0, <1>23 DEF UnregWaits
<1>24. CASE FoundThread
  BY <1>0, <1>24 DEF FoundThread
<1>25. CASE OpenStops
  BY <1>0, <1>25 DEF OpenStops, WriteExit
<1>26. CASE OpenAsks
  BY <1>0, <1>26 DEF OpenAsks, AskToStop
<1>27. CASE UnregAsks
  BY <1>0, <1>27 DEF UnregAsks, AskToStop
<1>28. CASE EventSleeps
  BY <1>0, <1>28 DEF EventSleeps
<1>29. CASE EventWakes
  BY <1>0, <1>29 DEF EventWakes
<1>30. CASE EventDown
  BY <1>0, <1>30 DEF EventDown, CanDown
<1>31. CASE EventInterrupted
  BY <1>0, <1>31 DEF EventInterrupted
<1> QED
  BY <1>1, <1>2, <1>3, <1>4, <1>5, <1>6, <1>7, <1>8, <1>9, <1>10, <1>11, <1>12, <1>13,
     <1>14, <1>15, <1>16, <1>17, <1>18, <1>19, <1>20, <1>21, <1>22, <1>23,
     <1>24, <1>25, <1>26, <1>27, <1>28, <1>29, <1>30, <1>31,
     FrontendActions

(* The semaphore. *)
LEMMA SemPreserved ==
    ASSUME FrontendTypeOK, ThreadInv, OneHolder, SemInv, FrontendNext
    PROVE  (OneHolder /\ SemInv)'
<1> USE DEF FrontendTypeOK, ThreadInv, Alive, At, Frozen, StopPending, Opening, OneHolder, SemInv, InIoctl, ThreadHolds
<1>0. "writer" \in Apps
  BY DEF Apps
<1>1. ASSUME NEW a \in Apps, OpenNode(a)
      PROVE  (OneHolder /\ SemInv)'
  BY <1>0, <1>1 DEF OpenNode
<1>2. ASSUME NEW a \in Apps, IoctlDown(a)
      PROVE  (OneHolder /\ SemInv)'
  <2>1. CASE window \in {"sema", "event"}
    BY <1>0, <1>2, <2>1 DEF IoctlDown, CanDown
  <2>2. CASE window \notin {"sema", "event"}
    <3>1. InIoctl = {} /\ ~ThreadHolds /\ ~StopPending /\ sem = 1
      BY <1>2, <2>2 DEF IoctlDown, CanDown, Open
    <3>2. InIoctl' = {a} /\ sem' = 0 /\ ~StopPending' /\ ~ThreadHolds'
      BY <1>2, <3>1 DEF IoctlDown, CanDown
    <3>3. \A b \in Apps : app'[b] # "interrupted"
      BY <1>2, <2>2 DEF IoctlDown
    <3> QED
      BY <2>2, <3>2, <3>3
  <2> QED
    BY <2>1, <2>2
<1>3. ASSUME NEW a \in Apps, IoctlUp(a)
      PROVE  (OneHolder /\ SemInv)'
  BY <1>0, <1>3 DEF IoctlUp
<1>4. ASSUME NEW a \in Apps, Release(a)
      PROVE  (OneHolder /\ SemInv)'
  BY <1>0, <1>4 DEF Release, Woken
<1>5. ASSUME NEW a \in Apps, ReleaseTail(a)
      PROVE  (OneHolder /\ SemInv)'
  BY <1>0, <1>5 DEF ReleaseTail, Woken
<1>6. CASE FoundRunning
  BY <1>0, <1>6 DEF FoundRunning
<1>7. CASE FoundExiting
  BY <1>0, <1>7 DEF FoundExiting
<1>8. CASE FoundNone
  BY <1>0, <1>8 DEF FoundNone
<1>9. CASE OpenStopped
  BY <1>0, <1>9 DEF OpenStopped, AfterStop
<1>10. CASE OpenInterrupted
  BY <1>0, <1>10 DEF OpenInterrupted
<1>11. CASE StartThread
  BY <1>0, <1>11 DEF StartThread
<1>12. CASE StartFails
  BY <1>0, <1>12 DEF StartFails
<1>13. CASE ThreadInit
  BY <1>0, <1>13 DEF ThreadInit
<1>14. CASE ThreadDecides
  BY <1>0, <1>14 DEF ThreadDecides
<1>15. CASE ThreadDown
  BY <1>0, <1>15 DEF ThreadDown
<1>16. CASE ThreadTunes
  BY <1>0, <1>16 DEF ThreadTunes
<1>17. CASE ThreadQuits
  BY <1>0, <1>17 DEF ThreadQuits
<1>18. CASE ThreadSleeps
  BY <1>0, <1>18 DEF ThreadSleeps
<1>19. CASE ThreadEnds
  BY <1>0, <1>19 DEF ThreadEnds
<1>20. CASE FrontendResume
  BY <1>0, <1>20 DEF FrontendResume
<1>21. CASE UnregStop
  BY <1>0, <1>21 DEF UnregStop, WriteExit
<1>22. CASE UnregStopped
  BY <1>0, <1>22 DEF UnregStopped, AfterStop
<1>23. CASE UnregWaits
  BY <1>0, <1>23 DEF UnregWaits
<1>24. CASE FoundThread
  BY <1>0, <1>24 DEF FoundThread
<1>25. CASE OpenStops
  BY <1>0, <1>25 DEF OpenStops, WriteExit
<1>26. CASE OpenAsks
  BY <1>0, <1>26 DEF OpenAsks, AskToStop
<1>27. CASE UnregAsks
  BY <1>0, <1>27 DEF UnregAsks, AskToStop
<1>28. CASE EventSleeps
  BY <1>0, <1>28 DEF EventSleeps
<1>29. CASE EventWakes
  BY <1>0, <1>29 DEF EventWakes
<1>30. CASE EventDown
  <2>1. CASE window \in {"sema", "event"}
    BY <1>0, <1>30, <2>1 DEF EventDown, CanDown
  <2>2. CASE window \notin {"sema", "event"}
    <3>1. InIoctl = {} /\ ~ThreadHolds /\ ~StopPending /\ sem = 1
      BY <1>30, <2>2 DEF EventDown, CanDown, Open
    <3>2. InIoctl' = {"writer"} /\ sem' = 0 /\ ~StopPending' /\ ~ThreadHolds'
      BY <1>0, <1>30, <3>1 DEF EventDown
    <3>3. \A b \in Apps : app'[b] # "interrupted"
      BY <1>30, <2>2 DEF EventDown
    <3> QED
      BY <2>2, <3>2, <3>3
  <2> QED
    BY <2>1, <2>2
<1>31. CASE EventInterrupted
  BY <1>0, <1>31 DEF EventInterrupted, Open
<1> QED
  BY <1>1, <1>2, <1>3, <1>4, <1>5, <1>6, <1>7, <1>8, <1>9, <1>10, <1>11, <1>12, <1>13,
     <1>14, <1>15, <1>16, <1>17, <1>18, <1>19, <1>20, <1>21, <1>22, <1>23,
     <1>24, <1>25, <1>26, <1>27, <1>28, <1>29, <1>30, <1>31,
     FrontendActions

(* The node. *)
LEMMA ServesPreserved ==
    ASSUME FrontendTypeOK, ThreadInv, OneHolder, NodeServes, FrontendNext
    PROVE  NodeServes'
<1> USE DEF FrontendTypeOK, ThreadInv, Alive, At, Frozen, StopPending, Opening, Open, NodeServes, HasNode, NoWriter
<1>0. "writer" \in Apps
  BY DEF Apps
<1>1. ASSUME NEW a \in Apps, OpenNode(a)
      PROVE  NodeServes'
  BY <1>0, <1>1 DEF OpenNode
<1>2. ASSUME NEW a \in Apps, IoctlDown(a)
      PROVE  NodeServes'
  BY <1>0, <1>2 DEF IoctlDown, CanDown
<1>3. ASSUME NEW a \in Apps, IoctlUp(a)
      PROVE  NodeServes'
  BY <1>0, <1>3 DEF IoctlUp
<1>4. ASSUME NEW a \in Apps, Release(a)
      PROVE  NodeServes'
  BY <1>0, <1>4 DEF Release, Woken
<1>5. ASSUME NEW a \in Apps, ReleaseTail(a)
      PROVE  NodeServes'
  BY <1>0, <1>5 DEF ReleaseTail, Woken
<1>6. CASE FoundRunning
  BY <1>0, <1>6 DEF FoundRunning
<1>7. CASE FoundExiting
  BY <1>0, <1>7 DEF FoundExiting
<1>8. CASE FoundNone
  BY <1>0, <1>8 DEF FoundNone
<1>9. CASE OpenStopped
  BY <1>0, <1>9 DEF OpenStopped, AfterStop
<1>10. CASE OpenInterrupted
  BY <1>0, <1>10 DEF OpenInterrupted
<1>11. CASE StartThread
  BY <1>0, <1>11 DEF StartThread
<1>12. CASE StartFails
  BY <1>0, <1>12 DEF StartFails
<1>13. CASE ThreadInit
  BY <1>0, <1>13 DEF ThreadInit
<1>14. CASE ThreadDecides
  BY <1>0, <1>14 DEF ThreadDecides
<1>15. CASE ThreadDown
  BY <1>0, <1>15 DEF ThreadDown
<1>16. CASE ThreadTunes
  BY <1>0, <1>16 DEF ThreadTunes
<1>17. CASE ThreadQuits
  BY <1>0, <1>17 DEF ThreadQuits
<1>18. CASE ThreadSleeps
  BY <1>0, <1>18 DEF ThreadSleeps
<1>19. CASE ThreadEnds
  BY <1>0, <1>19 DEF ThreadEnds
<1>20. CASE FrontendResume
  BY <1>0, <1>20 DEF FrontendResume
<1>21. CASE UnregStop
  BY <1>0, <1>21 DEF UnregStop, WriteExit
<1>22. CASE UnregStopped
  BY <1>0, <1>22 DEF UnregStopped, AfterStop
<1>23. CASE UnregWaits
  BY <1>0, <1>23 DEF UnregWaits
<1>24. CASE FoundThread
  BY <1>0, <1>24 DEF FoundThread
<1>25. CASE OpenStops
  BY <1>0, <1>25 DEF OpenStops, WriteExit
<1>26. CASE OpenAsks
  BY <1>0, <1>26 DEF OpenAsks, AskToStop
<1>27. CASE UnregAsks
  BY <1>0, <1>27 DEF UnregAsks, AskToStop
<1>28. CASE EventSleeps
  BY <1>0, <1>28 DEF EventSleeps
<1>29. CASE EventWakes
  BY <1>0, <1>29 DEF EventWakes
<1>30. CASE EventDown
  BY <1>0, <1>30 DEF EventDown, CanDown
<1>31. CASE EventInterrupted
  BY <1>0, <1>31 DEF EventInterrupted
<1> QED
  BY <1>1, <1>2, <1>3, <1>4, <1>5, <1>6, <1>7, <1>8, <1>9, <1>10, <1>11, <1>12, <1>13,
     <1>14, <1>15, <1>16, <1>17, <1>18, <1>19, <1>20, <1>21, <1>22, <1>23,
     <1>24, <1>25, <1>26, <1>27, <1>28, <1>29, <1>30, <1>31,
     FrontendActions

(* Removal. *)
LEMMA RemovalPreserved ==
    ASSUME FrontendTypeOK, ThreadInv, RemovalInv, FreedIsUnused, FrontendNext
    PROVE  (RemovalInv /\ FreedIsUnused)'
<1> USE DEF FrontendTypeOK, ThreadInv, Alive, At, Frozen, StopPending, Opening, RemovalInv, FreedIsUnused, Open, NoUsers
<1>0. "writer" \in Apps
  BY DEF Apps
<1>1. ASSUME NEW a \in Apps, OpenNode(a)
      PROVE  (RemovalInv /\ FreedIsUnused)'
  BY <1>0, <1>1 DEF OpenNode
<1>2. ASSUME NEW a \in Apps, IoctlDown(a)
      PROVE  (RemovalInv /\ FreedIsUnused)'
  BY <1>0, <1>2 DEF IoctlDown, CanDown
<1>3. ASSUME NEW a \in Apps, IoctlUp(a)
      PROVE  (RemovalInv /\ FreedIsUnused)'
  BY <1>0, <1>3 DEF IoctlUp
<1>4. ASSUME NEW a \in Apps, Release(a)
      PROVE  (RemovalInv /\ FreedIsUnused)'
  BY <1>0, <1>4 DEF Release, Woken
<1>5. ASSUME NEW a \in Apps, ReleaseTail(a)
      PROVE  (RemovalInv /\ FreedIsUnused)'
  BY <1>0, <1>5 DEF ReleaseTail, Woken
<1>6. CASE FoundRunning
  BY <1>0, <1>6 DEF FoundRunning
<1>7. CASE FoundExiting
  BY <1>0, <1>7 DEF FoundExiting
<1>8. CASE FoundNone
  BY <1>0, <1>8 DEF FoundNone
<1>9. CASE OpenStopped
  BY <1>0, <1>9 DEF OpenStopped, AfterStop
<1>10. CASE OpenInterrupted
  BY <1>0, <1>10 DEF OpenInterrupted
<1>11. CASE StartThread
  BY <1>0, <1>11 DEF StartThread
<1>12. CASE StartFails
  BY <1>0, <1>12 DEF StartFails
<1>13. CASE ThreadInit
  BY <1>0, <1>13 DEF ThreadInit
<1>14. CASE ThreadDecides
  BY <1>0, <1>14 DEF ThreadDecides
<1>15. CASE ThreadDown
  BY <1>0, <1>15 DEF ThreadDown
<1>16. CASE ThreadTunes
  BY <1>0, <1>16 DEF ThreadTunes
<1>17. CASE ThreadQuits
  BY <1>0, <1>17 DEF ThreadQuits
<1>18. CASE ThreadSleeps
  BY <1>0, <1>18 DEF ThreadSleeps
<1>19. CASE ThreadEnds
  BY <1>0, <1>19 DEF ThreadEnds
<1>20. CASE FrontendResume
  BY <1>0, <1>20 DEF FrontendResume
<1>21. CASE UnregStop
  BY <1>0, <1>21 DEF UnregStop, WriteExit
<1>22. CASE UnregStopped
  BY <1>0, <1>22 DEF UnregStopped, AfterStop
<1>23. CASE UnregWaits
  BY <1>0, <1>23 DEF UnregWaits
<1>24. CASE FoundThread
  BY <1>0, <1>24 DEF FoundThread
<1>25. CASE OpenStops
  BY <1>0, <1>25 DEF OpenStops, WriteExit
<1>26. CASE OpenAsks
  BY <1>0, <1>26 DEF OpenAsks, AskToStop
<1>27. CASE UnregAsks
  BY <1>0, <1>27 DEF UnregAsks, AskToStop
<1>28. CASE EventSleeps
  BY <1>0, <1>28 DEF EventSleeps
<1>29. CASE EventWakes
  BY <1>0, <1>29 DEF EventWakes
<1>30. CASE EventDown
  BY <1>0, <1>30 DEF EventDown, CanDown
<1>31. CASE EventInterrupted
  BY <1>0, <1>31 DEF EventInterrupted
<1> QED
  BY <1>1, <1>2, <1>3, <1>4, <1>5, <1>6, <1>7, <1>8, <1>9, <1>10, <1>11, <1>12, <1>13,
     <1>14, <1>15, <1>16, <1>17, <1>18, <1>19, <1>20, <1>21, <1>22, <1>23,
     <1>24, <1>25, <1>26, <1>27, <1>28, <1>29, <1>30, <1>31,
     FrontendActions

-----------------------------------------------------------------------------
LEMMA InvPreserved ==
    ASSUME FrontendInv, [FrontendNext]_frontendVars
    PROVE  FrontendInv'
<1>1. CASE FrontendNext
  BY <1>1, TypesPreserved, ThreadPreserved, SemPreserved, ServesPreserved, RemovalPreserved DEF FrontendInv
<1>2. CASE UNCHANGED frontendVars
  <2> USE <1>2 DEF frontendVars, FrontendInv
  <2>1. FrontendTypeOK' /\ ThreadInv'
    BY DEF FrontendTypeOK, ThreadInv
  <2>2. OneHolder' /\ SemInv'
    BY DEF OneHolder, SemInv, InIoctl, ThreadHolds, StopPending
  <2>3. NodeServes' /\ RemovalInv' /\ FreedIsUnused'
    BY DEF NodeServes, RemovalInv, FreedIsUnused, Opening, HasNode
  <2> QED
    BY <2>1, <2>2, <2>3
<1> QED
  BY <1>1, <1>2

THEOREM Invariant == FrontendSpec => []FrontendInv
BY InitInv, InvPreserved, PTL DEF FrontendSpec

(* Every variable has its type. *)
THEOREM FrontendTypes == FrontendSpec => []FrontendTypeOK
<1>1. FrontendInv => FrontendTypeOK
  BY DEF FrontendInv
<1> QED
  BY <1>1, Invariant, PTL

(* fepriv->sem is a mutex: the thread's work on the driver and the ioctls  *)
(* never overlap, unless an ioctl got in ahead of the stopper's sema_init  *)
(* or an FE_GET_EVENT was interrupted while it waited to take it back.     *)
THEOREM SemaphoreIsAMutex == FrontendSpec => []OneHolder
<1>1. FrontendInv => OneHolder
  BY DEF FrontendInv
<1> QED
  BY <1>1, Invariant, PTL

(* Whoever has the node open for writing has a thread that tunes for him   *)
(* and is not on its way out, unless his open read fepriv->thread and      *)
(* fe->exit around the thread's end; and nobody is refused before the      *)
(* removal.                                                                *)
THEOREM OpenNodeServes == FrontendSpec => []NodeServes
<1>1. FrontendInv => NodeServes
  BY DEF FrontendInv
<1> QED
  BY <1>1, Invariant, PTL

(* When dvb_unregister_frontend frees the frontend, the thread has ended   *)
(* and the node is closed everywhere.                                      *)
THEOREM NothingUsesFreed == FrontendSpec => []FreedIsUnused
<1>1. FrontendInv => FreedIsUnused
  BY DEF FrontendInv
<1> QED
  BY <1>1, Invariant, PTL
=============================================================================
