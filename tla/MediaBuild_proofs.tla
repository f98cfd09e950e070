---------------------------- MODULE MediaBuild_proofs ----------------------------
(***************************************************************************)
(* Proofs about MediaBuild, for any models, versions, architectures and    *)
(* modules, any runs one after another, and makes that fail or not.        *)
(*                                                                         *)
(* The properties speak of the end of a run; BuildInv says how a run gets  *)
(* there.  Built ties a log that names a kernel to a kernel tree that was  *)
(* configured; Kept says in which of the two places the configuration of   *)
(* the model is at each step; Delivers follows the modified configuration  *)
(* from the model directory through the kernel tree into the objects; and  *)
(* Fits says whose the objects are once the media tree has been cleaned.   *)
(***************************************************************************)
EXTENDS MediaBuild, TLAPS

Pc == {"remove_log", "open_log", "make", "find_kver", "remove_config", "save", "swap",
       "restore", "clean", "modules", "copy"}

Run == [pc : Pc, m : Model, then : {"find_kver", "restore"}, todo : SUBSET Ko,
        found : CfgFile \cup {None}, ok : BOOLEAN]

Types ==
    /\ cfg \in [Model -> CfgFile \cup {None}]
    /\ bak \in [Model -> CfgFile \cup {None}]
    /\ log \in [Model -> {None, "partial", "full"}]
    /\ conf \in [Trees -> Config \cup {NoConfig}]
    /\ tree \in [Trees -> Config \cup {NoConfig}]
    /\ objs \in [Ko -> Object \cup {NoObject}]
    /\ release \in [Targets -> [Ko -> Object \cup {NoObject}]]
    /\ op = Idle \/ op \in Run

\* In doMake, called the second time: with the modified configuration in place.
Second == op.pc \in {"remove_log", "open_log", "make"} /\ op.then = "restore"

Built ==
    /\ \A m \in Model : log[m] = "full" => tree[Tree[m]] # NoConfig
    /\ Second \/ op.pc \in {"remove_config", "save", "swap", "restore", "clean", "modules"} =>
           tree[Tree[op.m]] # NoConfig

Kept ==
    op.pc # "idle" =>
        op.found = IF Second \/ op.pc \in {"swap", "restore"} THEN bak[op.m] ELSE cfg[op.m]

Wanted == [model |-> op.m, cfg |-> "synth"]

Delivers ==
    /\ op.pc \in {"save", "swap"} => conf[Tree[op.m]] = NoConfig
    /\ Second =>
         /\ cfg[op.m] = "synth"
         /\ IF op.pc = "make" /\ log[op.m] = "full"
            THEN tree[Tree[op.m]] = Wanted
            ELSE conf[Tree[op.m]] = NoConfig
    /\ op.pc \in {"restore", "clean", "modules"} /\ op.ok => tree[Tree[op.m]] = Wanted
    /\ op.pc = "copy" /\ op.ok => \A k \in Ko :
         /\ objs[k] = [target |-> Target[op.m], conf |-> Wanted]
         /\ k \notin op.todo => release[Target[op.m]][k] = objs[k]

Fits ==
    /\ op.pc = "modules" => \A k \in Ko : objs[k] = NoObject
    /\ op.pc = "copy" => \A k \in op.todo : objs[k].target = Target[op.m]
    /\ KoFitsItsDirectory

BuildInv == Types /\ Built /\ Kept /\ Delivers /\ Fits
-----------------------------------------------------------------------------
LEMMA OpInRun == Types /\ op.pc # "idle" => op \in Run
BY DEF Types, Idle

LEMMA Maps ==
    ASSUME NEW m \in Model
    PROVE  Target[m] \in Targets /\ Tree[m] \in Trees
BY DEF Targets, Trees

(* The disk, and the run in progress. *)
LEMMA TypesPreserved ==
    ASSUME Types, Built, Next
    PROVE  Types'
<1> USE DEF Types, Run, Pc, Goto, CfgFile
<1>0. op.pc # "idle" => op \in Run /\ op.m \in Model /\ Tree[op.m] \in Trees /\ Target[op.m] \in Targets
  BY OpInRun, Maps DEF Run
<1> USE <1>0
<1>1. ASSUME NEW m \in Model, Begin(m)
      PROVE  Types'
  BY <1>1 DEF Begin
<1>2. CASE RemoveLog
  BY <1>2 DEF RemoveLog
<1>3. CASE OpenLog
  BY <1>3 DEF OpenLog
<1>4. CASE MakeConfigures
  <2> DEFINE t == Tree[op.m]
             c == IF conf[t] # NoConfig THEN conf[t] ELSE [model |-> op.m, cfg |-> cfg[op.m]]
  <2>1. c \in Config
    <3>1. CASE conf[t] # NoConfig
      BY <1>4, <3>1 DEF MakeConfigures
    <3>2. CASE conf[t] = NoConfig
      BY <1>4, <3>2 DEF MakeConfigures, Config
    <3> QED
      BY <3>1, <3>2
  <2>2. conf' = [conf EXCEPT ![t] = c] /\ tree' = [tree EXCEPT ![t] = c] /\ log' = [log EXCEPT ![op.m] = "full"]
    BY <1>4 DEF MakeConfigures
  <2>3. UNCHANGED <<cfg, bak, objs, release, op>>
    BY <1>4 DEF MakeConfigures
  <2> HIDE DEF c
  <2> QED
    BY <1>4, <2>1, <2>2, <2>3 DEF MakeConfigures
<1>5. CASE MakeEnds
  BY <1>5 DEF MakeEnds
<1>6. CASE FindKver
  BY <1>6 DEF FindKver
<1>7. CASE RemoveConfig
  BY <1>7 DEF RemoveConfig
<1>8. CASE SaveCfg
  BY <1>8 DEF SaveCfg
<1>9. CASE SwapCfg
  BY <1>9 DEF SwapCfg
<1>10. CASE RestoreCfg
  BY <1>10 DEF RestoreCfg
<1>11. CASE Clean
  BY <1>11 DEF Clean
<1>12. CASE MakeModules
  <2> DEFINE new == [target |-> Target[op.m], conf |-> tree[Tree[op.m]]]
  <2>1. PICK built \in SUBSET Ko :
           /\ objs' = [k \in Ko |-> IF k \in built THEN new ELSE objs[k]]
           /\ op' = [op EXCEPT !.pc = "copy", !.todo = {k \in Ko : objs'[k] # NoObject}, !.ok = op.ok /\ built = Ko]
    BY <1>12 DEF MakeModules
  <2>2. new \in Object
    BY <1>12 DEF MakeModules, Built, Object
  <2>3. op' \in Run
    BY <1>12, <2>1 DEF MakeModules
  <2>4. objs' \in [Ko -> Object \cup {NoObject}]
    BY <2>1, <2>2
  <2> QED
    BY <1>12, <2>3, <2>4 DEF MakeModules
<1>13. CASE CopyKo
  BY <1>13 DEF CopyKo
<1>14. CASE Ends
  BY <1>14 DEF Ends
<1>15. CASE Killed
  BY <1>15 DEF Killed
<1> QED
  BY <1>1, <1>2, <1>3, <1>4, <1>5, <1>6, <1>7, <1>8, <1>9, <1>10, <1>11, <1>12,
     <1>13, <1>14, <1>15 DEF Next

(* No log without a kernel. *)
LEMMA BuiltPreserved ==
    ASSUME Types, Built, Next
    PROVE  Built'
<1> USE DEF Types, Run, Pc, Goto, Built, Second, Idle, None
<1>0. op.pc # "idle" => op \in Run /\ op.m \in Model /\ Tree[op.m] \in Trees /\ Target[op.m] \in Targets
  BY OpInRun, Maps DEF Run
<1> USE <1>0
<1>1. ASSUME NEW m \in Model, Begin(m)
      PROVE  Built'
  BY <1>1 DEF Begin
<1>2. CASE RemoveLog
  BY <1>2 DEF RemoveLog
<1>3. CASE OpenLog
  BY <1>3 DEF OpenLog
<1>4. CASE MakeConfigures
  <2> DEFINE t == Tree[op.m]
             c == IF conf[t] # NoConfig THEN conf[t] ELSE [model |-> op.m, cfg |-> cfg[op.m]]
  <2>1. c # NoConfig
    BY <1>4 DEF MakeConfigures, NoConfig
  <2>2. tree' = [tree EXCEPT ![t] = c] /\ log' = [log EXCEPT ![op.m] = "full"] /\ op' = op /\ op.pc = "make"
    BY <1>4 DEF MakeConfigures
  <2> HIDE DEF c
  <2>3. \A m \in Model : log'[m] = "full" => tree'[Tree[m]] # NoConfig
    BY <1>4, <2>1, <2>2, Maps
  <2>4. tree'[Tree[op.m]] # NoConfig
    BY <1>4, <2>1, <2>2 DEF MakeConfigures
  <2> QED
    BY <2>2, <2>3, <2>4
<1>5. CASE MakeEnds
  BY <1>5 DEF MakeEnds
<1>6. CASE FindKver
  BY <1>6 DEF FindKver
<1>7. CASE RemoveConfig
  BY <1>7 DEF RemoveConfig
<1>8. CASE SaveCfg
  BY <1>8 DEF SaveCfg
<1>9. CASE SwapCfg
  BY <1>9 DEF SwapCfg
<1>10. CASE RestoreCfg
  BY <1>10 DEF RestoreCfg
<1>11. CASE Clean
  BY <1>11 DEF Clean
<1>12. CASE MakeModules
  BY <1>12 DEF MakeModules
<1>13. CASE CopyKo
  BY <1>13 DEF CopyKo
<1>14. CASE Ends
  BY <1>14 DEF Ends
<1>15. CASE Killed
  BY <1>15 DEF Killed
<1> QED
  BY <1>1, <1>2, <1>3, <1>4, <1>5, <1>6, <1>7, <1>8, <1>9, <1>10, <1>11, <1>12,
     <1>13, <1>14, <1>15 DEF Next

(* Where the configuration is. *)
LEMMA KeptPreserved ==
    ASSUME Types, Kept, Next
    PROVE  Kept'
<1> USE DEF Types, Run, Pc, Goto, Kept, Second, Idle
<1>0. op.pc # "idle" => op \in Run /\ op.m \in Model /\ Tree[op.m] \in Trees /\ Target[op.m] \in Targets
  BY OpInRun, Maps DEF Run
<1> USE <1>0
<1>1. ASSUME NEW m \in Model, Begin(m)
      PROVE  Kept'
  BY <1>1 DEF Begin
<1>2. CASE RemoveLog
  BY <1>2 DEF RemoveLog
<1>3. CASE OpenLog
  BY <1>3 DEF OpenLog
<1>4. CASE MakeConfigures
  BY <1>4 DEF MakeConfigures
<1>5. CASE MakeEnds
  BY <1>5 DEF MakeEnds
<1>6. CASE FindKver
  BY <1>6 DEF FindKver
<1>7. CASE RemoveConfig
  BY <1>7 DEF RemoveConfig
<1>8. CASE SaveCfg
  BY <1>8 DEF SaveCfg
<1>9. CASE SwapCfg
  BY <1>9 DEF SwapCfg
<1>10. CASE RestoreCfg
  BY <1>10 DEF RestoreCfg
<1>11. CASE Clean
  BY <1>11 DEF Clean
<1>12. CASE MakeModules
  BY <1>12 DEF MakeModules
<1>13. CASE CopyKo
  BY <1>13 DEF CopyKo
<1>14. CASE Ends
  BY <1>14 DEF Ends
<1>15. CASE Killed
  BY <1>15 DEF Killed
<1> QED
  BY <1>1, <1>2, <1>3, <1>4, <1>5, <1>6, <1>7, <1>8, <1>9, <1>10, <1>11, <1>12,
     <1>13, <1>14, <1>15 DEF Next

(* What the second doMake makes, and what is made against it. *)
LEMMA DeliversPreserved ==
    ASSUME Types, Built, Delivers, Next
    PROVE  Delivers'
<1> USE DEF Types, Run, Pc, Goto, Delivers, Wanted, Second, Idle
<1>0. op.pc # "idle" => op \in Run /\ op.m \in Model /\ Tree[op.m] \in Trees /\ Target[op.m] \in Targets
  BY OpInRun, Maps DEF Run
<1> USE <1>0
<1>1. ASSUME NEW m \in Model, Begin(m)
      PROVE  Delivers'
  BY <1>1 DEF Begin
<1>2. CASE RemoveLog
  BY <1>2 DEF RemoveLog
<1>3. CASE OpenLog
  BY <1>3 DEF OpenLog
<1>4. CASE MakeConfigures
  BY <1>4 DEF MakeConfigures
<1>5. CASE MakeEnds
  BY <1>5 DEF MakeEnds
<1>6. CASE FindKver
  BY <1>6 DEF FindKver
<1>7. CASE RemoveConfig
  BY <1>7 DEF RemoveConfig
<1>8. CASE SaveCfg
  BY <1>8 DEF SaveCfg
<1>9. CASE SwapCfg
  BY <1>9 DEF SwapCfg
<1>10. CASE RestoreCfg
  BY <1>10 DEF RestoreCfg
<1>11. CASE Clean
  BY <1>11 DEF Clean
<1>12. CASE MakeModules
  <2> DEFINE new == [target |-> Target[op.m], conf |-> tree[Tree[op.m]]]
  <2>1. PICK built \in SUBSET Ko :
           /\ objs' = [k \in Ko |-> IF k \in built THEN new ELSE objs[k]]
           /\ op' = [op EXCEPT !.pc = "copy", !.todo = {k \in Ko : objs'[k] # NoObject}, !.ok = op.ok /\ built = Ko]
    BY <1>12 DEF MakeModules
  <2>2. new # NoObject
    BY <1>12 DEF MakeModules, Built, NoObject
  <2>3. op'.pc = "copy" /\ op'.m = op.m /\ op'.todo = {k \in Ko : objs'[k] # NoObject}
    BY <1>12, <2>1 DEF MakeModules
  <2>4. op'.ok => op.ok /\ built = Ko
    BY <1>12, <2>1 DEF MakeModules
  <2>5. ASSUME op'.ok, NEW k \in Ko
        PROVE  objs'[k] = [target |-> Target[op'.m], conf |-> Wanted'] /\ k \in op'.todo
    <3>1. op.ok /\ objs'[k] = new
      BY <2>1, <2>4, <2>5
    <3>2. tree[Tree[op.m]] = Wanted /\ Wanted' = Wanted
      BY <1>12, <2>3, <3>1 DEF MakeModules
    <3> QED
      BY <2>2, <2>3, <3>1, <3>2
  <2> QED
    BY <2>3, <2>5
<1>13. CASE CopyKo
  BY <1>13 DEF CopyKo
<1>14. CASE Ends
  BY <1>14 DEF Ends
<1>15. CASE Killed
  BY <1>15 DEF Killed
<1> QED
  BY <1>1, <1>2, <1>3, <1>4, <1>5, <1>6, <1>7, <1>8, <1>9, <1>10, <1>11, <1>12,
     <1>13, <1>14, <1>15 DEF Next

(* Whose the objects are. *)
LEMMA FitsPreserved ==
    ASSUME Types, Fits, Next
    PROVE  Fits'
<1>0. op.pc # "idle" => op \in Run /\ op.m \in Model /\ Tree[op.m] \in Trees /\ Target[op.m] \in Targets
  BY OpInRun, Maps DEF Run
<1>5. CASE MakeEnds
  <2>1. op \in Run /\ UNCHANGED <<objs, release>> /\ op'.pc = op.then
    BY <1>0, <1>5 DEF MakeEnds, Goto, Run
  <2>2. op'.pc \notin {"modules", "copy"}
    BY ONLY <2>1 DEF Run
  <2> QED
    BY ONLY Fits, <2>1, <2>2 DEF Fits, KoFitsItsDirectory
<1> USE DEF Types, Run, Pc, Goto, Fits, KoFitsItsDirectory, Idle, NoObject
<1> USE <1>0
<1>1. ASSUME NEW m \in Model, Begin(m)
      PROVE  Fits'
  BY <1>1 DEF Begin
<1>2. CASE RemoveLog
  BY <1>2 DEF RemoveLog
<1>3. CASE OpenLog
  BY <1>3 DEF OpenLog
<1>4. CASE MakeConfigures
  BY <1>4 DEF MakeConfigures
<1>6. CASE FindKver
  BY <1>6 DEF FindKver
<1>7. CASE RemoveConfig
  BY <1>7 DEF RemoveConfig
<1>8. CASE SaveCfg
  BY <1>8 DEF SaveCfg
<1>9. CASE SwapCfg
  BY <1>9 DEF SwapCfg
<1>10. CASE RestoreCfg
  BY <1>10 DEF RestoreCfg
<1>11. CASE Clean
  BY <1>11 DEF Clean
<1>12. CASE MakeModules
  BY <1>12 DEF MakeModules
<1>13. CASE CopyKo
  BY <1>13 DEF CopyKo
<1>14. CASE Ends
  BY <1>14 DEF Ends
<1>15. CASE Killed
  BY <1>15 DEF Killed
<1> QED
  BY <1>1, <1>2, <1>3, <1>4, <1>5, <1>6, <1>7, <1>8, <1>9, <1>10, <1>11, <1>12,
     <1>13, <1>14, <1>15 DEF Next

-----------------------------------------------------------------------------
LEMMA BuildInit == Init => BuildInv
<1> SUFFICES ASSUME Init PROVE BuildInv
  OBVIOUS
<1> USE DEF Init, Idle, Second
<1>1. Types
  BY DEF Types, CfgFile, Targets
<1>2. Built /\ Kept /\ Delivers
  BY DEF Built, Kept, Delivers, None
<1>3. Fits
  BY DEF Fits, KoFitsItsDirectory
<1> QED
  BY <1>1, <1>2, <1>3 DEF BuildInv

LEMMA BuildPreserved ==
    ASSUME BuildInv, [Next]_vars
    PROVE  BuildInv'
<1> USE DEF BuildInv
<1>1. CASE Next
  BY <1>1, TypesPreserved, BuiltPreserved, KeptPreserved, DeliversPreserved, FitsPreserved
<1>2. CASE UNCHANGED vars
  BY <1>2 DEF vars, Types, Built, Kept, Delivers, Wanted, Fits, KoFitsItsDirectory, Second
<1> QED
  BY <1>1, <1>2

THEOREM BuildInvariant == Spec => []BuildInv
BY BuildInit, BuildPreserved, PTL DEF Spec

(* What a build is made against has a configuration, and so has every      *)
(* object it makes: whatever models share trees and wherever runs are cut  *)
(* off.                                                                    *)
THEOREM BuildTypes == Spec => []TypeOK
<1>1. BuildInv => TypeOK
  BY OpInRun DEF BuildInv, Types, TypeOK, Run
<1> QED
  BY <1>1, BuildInvariant, PTL

(* Nothing reaches a release directory that was made for another kernel    *)
(* version or architecture, for any number of models built in turn.        *)
THEOREM ModulesFit == Spec => []KoFitsItsDirectory
<1>1. BuildInv => KoFitsItsDirectory
  BY DEF BuildInv, Fits
<1> QED
  BY <1>1, BuildInvariant, PTL

(* prepareKernel never loses the configuration it found: it is in its      *)
(* place or in .bak at every step, also of a run after one that was cut    *)
(* off.                                                                    *)
THEOREM ConfigurationKept == Spec => []ConfigIsKept
<1>1. BuildInv => ConfigIsKept
  BY DEF BuildInv, Kept, ConfigIsKept
<1> QED
  BY <1>1, BuildInvariant, PTL

(* A run whose makes succeed delivers every module built against its own   *)
(* model's kernel with the modified configuration, whatever was on disk.   *)
THEOREM GoodRunsDeliver == Spec => []GoodRunDelivers
<1>1. BuildInv => GoodRunDelivers
  BY DEF BuildInv, Delivers, Wanted, GoodRunDelivers
<1> QED
  BY <1>1, BuildInvariant, PTL
=============================================================================
