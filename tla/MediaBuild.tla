------------------------------- MODULE MediaBuild -------------------------------
(***************************************************************************)
(* mediaBuild.py and the part of QTS.py and kConfig.py it calls: one run   *)
(* for a model swaps the model's kernel configuration for a modified one,  *)
(* builds the kernel, swaps it back, builds the media modules against that *)
(* kernel and copies them into the release directory.                      *)
(*                                                                         *)
(* The runs of build-all.sh follow one another, and what a run finds is    *)
(* what the runs before it left on disk: kernel trees, the media tree and  *)
(* release directories are shared.  A run may be cut off between any two   *)
(* steps, and a make may fail; mediaBuild.py tests neither's exit status.  *)
(*                                                                         *)
(* A definition whose name ends in _broken is a plausible bug in the one   *)
(* that follows it, which the specification does not use.                  *)
(***************************************************************************)
EXTENDS FiniteSets

CONSTANTS
    Model,    \* the model directories given with -m
    Target,   \* by model: kernel version and architecture, release/<kver>/<arch>
    Tree,     \* by model: the kernel tree ../../Kernel/linux-<kver>
    Ko,       \* MOD_LIST
    Failing   \* the makes may fail

ASSUME MediaAssumption ==
    /\ DOMAIN Target = Model /\ DOMAIN Tree = Model
    /\ Failing \in BOOLEAN

Targets == {Target[m] : m \in Model}
Trees   == {Tree[m] : m \in Model}
None    == "none"  \* a file that is not there

(* A configuration file is the original or one with the modifications merged in;
   what a kernel is configured with is also known by the model it comes from. *)
CfgFile  == {"orig", "synth"}
Config   == [model : Model, cfg : CfgFile]
Object   == [target : Targets, conf : Config]
NoConfig == [model |-> None, cfg |-> None]
NoObject == [target |-> None, conf |-> NoConfig]

VARIABLES
    cfg,      \* <model>/linux-<kver>.cfg
    bak,      \* <model>/.bak
    log,      \* <model>/buildlog: "partial" until make names the kernel in it
    conf,     \* <tree>/.config
    tree,     \* the configuration the tree was last built with
    objs,     \* the .ko files in media/<kver2>
    release,  \* release/<kver>/<arch>
    op        \* the run in progress

vars == <<cfg, bak, log, conf, tree, objs, release, op>>

Idle == [pc |-> "idle"]

Init ==
    /\ cfg = [m \in Model |-> "orig"]
    /\ bak = [m \in Model |-> None]
    /\ log = [m \in Model |-> None]
    /\ conf = [t \in Trees |-> NoConfig]
    /\ tree = [t \in Trees |-> NoConfig]
    /\ objs = [k \in Ko |-> NoObject]
    /\ release = [t \in Targets |-> [k \in Ko |-> NoObject]]
    /\ op = Idle

Goto(pc) == op' = [op EXCEPT !.pc = pc]

-----------------------------------------------------------------------------
(* QTS.py *)

(* cQTSmodel: build if there is no log yet.  found and ok are not the program's:
   the configuration the run found, and whether its makes have succeeded. *)
Begin(m) ==
    /\ op.pc = "idle"
    /\ op' = [pc |-> IF log[m] = None THEN "remove_log" ELSE "find_kver",
              m |-> m, then |-> "find_kver", todo |-> {}, found |-> cfg[m], ok |-> TRUE]
    /\ UNCHANGED <<cfg, bak, log, conf, tree, objs, release>>

(* doMake *)
RemoveLog ==
    /\ op.pc = "remove_log"
    /\ log' = [log EXCEPT ![op.m] = None]
    /\ Goto("open_log")
    /\ UNCHANGED <<cfg, bak, conf, tree, objs, release>>

OpenLog ==
    /\ op.pc = "open_log"
    /\ log' = [log EXCEPT ![op.m] = "partial"]
    /\ Goto("make")
    /\ UNCHANGED <<cfg, bak, conf, tree, objs, release>>

(* make: a .config that is there is kept, otherwise the model's is taken. *)
MakeConfigures ==
    LET t == Tree[op.m]
        c == IF conf[t] # NoConfig THEN conf[t] ELSE [model |-> op.m, cfg |-> cfg[op.m]]
    IN
    /\ op.pc = "make" /\ log[op.m] = "partial" /\ c.cfg # None
    /\ log' = [log EXCEPT ![op.m] = "full"]
    /\ conf' = [conf EXCEPT ![t] = c]
    /\ tree' = [tree EXCEPT ![t] = c]
    /\ UNCHANGED <<cfg, bak, objs, release, op>>

MakeEnds ==
    /\ op.pc = "make"
    /\ \/ log[op.m] = "full" /\ Goto(op.then)
       \/ Failing /\ op' = [op EXCEPT !.pc = op.then, !.ok = FALSE]
    /\ UNCHANGED <<cfg, bak, log, conf, tree, objs, release>>

(* A log without a kernel version is not noticed. *)
FindKver_broken ==
    /\ op.pc = "find_kver"
    /\ IF cfg[op.m] # None THEN Goto("remove_config") ELSE op' = Idle
    /\ UNCHANGED <<cfg, bak, log, conf, tree, objs, release>>

(* _findKver and the search for the configuration: without either the run dies. *)
FindKver ==
    /\ op.pc = "find_kver"
    /\ IF log[op.m] = "full" /\ cfg[op.m] # None THEN Goto("remove_config") ELSE op' = Idle
    /\ UNCHANGED <<cfg, bak, log, conf, tree, objs, release>>

-----------------------------------------------------------------------------
(* prepareKernel *)

(* The .config stays. *)
RemoveConfig_broken ==
    /\ op.pc = "remove_config"
    /\ Goto("save")
    /\ UNCHANGED <<cfg, bak, log, conf, tree, objs, release>>

(* ...and .cfg is merged from the configuration, which nothing else reads. *)
RemoveConfig ==
    /\ op.pc = "remove_config"
    /\ conf' = [conf EXCEPT ![Tree[op.m]] = NoConfig]
    /\ Goto("save")
    /\ UNCHANGED <<cfg, bak, log, tree, objs, release>>

(* The new configuration is moved in before the old one is moved out. *)
SaveCfg_broken ==
    /\ op.pc = "save"
    /\ cfg' = [cfg EXCEPT ![op.m] = "synth"]
    /\ Goto("swap")
    /\ UNCHANGED <<bak, log, conf, tree, objs, release>>

(* mv cfg .bak *)
SaveCfg ==
    /\ op.pc = "save"
    /\ bak' = [bak EXCEPT ![op.m] = cfg[op.m]]
    /\ cfg' = [cfg EXCEPT ![op.m] = None]
    /\ Goto("swap")
    /\ UNCHANGED <<log, conf, tree, objs, release>>

(* mv .cfg cfg, and doMake *)
SwapCfg ==
    /\ op.pc = "swap"
    /\ cfg' = [cfg EXCEPT ![op.m] = "synth"]
    /\ op' = [op EXCEPT !.pc = "remove_log", !.then = "restore"]
    /\ UNCHANGED <<bak, log, conf, tree, objs, release>>

(* mv .bak cfg *)
RestoreCfg ==
    /\ op.pc = "restore"
    /\ cfg' = [cfg EXCEPT ![op.m] = bak[op.m]]
    /\ bak' = [bak EXCEPT ![op.m] = None]
    /\ Goto("clean")
    /\ UNCHANGED <<log, conf, tree, objs, release>>

-----------------------------------------------------------------------------
(* buildMedia *)

(* The media tree is built in as it was left. *)
Clean_broken ==
    /\ op.pc = "clean"
    /\ Goto("modules")
    /\ UNCHANGED <<cfg, bak, log, conf, tree, objs, release>>

(* make clean, which needs no configured kernel and is taken to succeed. *)
Clean ==
    /\ op.pc = "clean"
    /\ objs' = [k \in Ko |-> NoObject]
    /\ Goto("modules")
    /\ UNCHANGED <<cfg, bak, log, conf, tree, release>>

(* make M=media/<kver2>: everything is built, or something is; what is there
   afterwards is copied. *)
MakeModules ==
    /\ op.pc = "modules"
    /\ \E built \in SUBSET Ko :
         /\ built = Ko \/ Failing
         /\ objs' = [k \in Ko |-> IF k \in built
                        THEN [target |-> Target[op.m], conf |-> tree[Tree[op.m]]] ELSE objs[k]]
         /\ op' = [op EXCEPT !.pc = "copy", !.todo = {k \in Ko : objs'[k] # NoObject},
                             !.ok = @ /\ built = Ko]
    /\ UNCHANGED <<cfg, bak, log, conf, tree, release>>

CopyKo ==
    /\ op.pc = "copy"
    /\ \E k \in op.todo :
         /\ release' = [release EXCEPT ![Target[op.m]][k] = objs[k]]
         /\ op' = [op EXCEPT !.todo = @ \ {k}]
    /\ UNCHANGED <<cfg, bak, log, conf, tree, objs>>

Ends ==
    /\ op.pc = "copy" /\ op.todo = {}
    /\ op' = Idle
    /\ UNCHANGED <<cfg, bak, log, conf, tree, objs, release>>

-----------------------------------------------------------------------------
(* The run is cut off. *)
Killed ==
    /\ op.pc # "idle"
    /\ op' = Idle
    /\ UNCHANGED <<cfg, bak, log, conf, tree, objs, release>>

Next ==
    \/ \E m \in Model : Begin(m)
    \/ RemoveLog \/ OpenLog \/ MakeConfigures \/ MakeEnds \/ FindKver
    \/ RemoveConfig \/ SaveCfg \/ SwapCfg \/ RestoreCfg
    \/ Clean \/ MakeModules \/ CopyKo \/ Ends
    \/ Killed

Spec == Init /\ [][Next]_vars

-----------------------------------------------------------------------------
(* A kernel that is built against, and so every object, has a configuration: a
   run never gets to the modules of a kernel that no make has ever configured. *)
TypeOK ==
    /\ cfg \in [Model -> CfgFile \cup {None}]
    /\ bak \in [Model -> CfgFile \cup {None}]
    /\ log \in [Model -> {None, "partial", "full"}]
    /\ conf \in [Trees -> Config \cup {NoConfig}]
    /\ tree \in [Trees -> Config \cup {NoConfig}]
    /\ objs \in [Ko -> Object \cup {NoObject}]
    /\ release \in [Targets -> [Ko -> Object \cup {NoObject}]]
    /\ op.pc # "idle" => op.m \in Model /\ op.todo \subseteq Ko

(* Whatever fails and wherever runs are cut off, a release directory holds only
   modules made for its kernel version and architecture, although all models are
   built in one media tree. *)
KoFitsItsDirectory ==
    \A t \in Targets, k \in Ko : release[t][k] # NoObject => release[t][k].target = t

(* "restore configuration": at every step of a run the configuration the run
   found in the model directory is still there, in its place or in .bak. *)
ConfigIsKept == op.pc # "idle" => op.found \in {cfg[op.m], bak[op.m]}

(* A run whose makes succeed delivers every module, built against its own model's
   kernel with the modified configuration, whatever the runs before it left in
   the kernel tree, the media tree and the release directory. *)
GoodRunDelivers ==
    op.pc = "copy" /\ op.todo = {} /\ op.ok =>
        \A k \in Ko : release[Target[op.m]][k] =
            [target |-> Target[op.m], conf |-> [model |-> op.m, cfg |-> "synth"]]
=============================================================================
