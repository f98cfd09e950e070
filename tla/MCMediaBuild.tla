------------------------------ MODULE MCMediaBuild ------------------------------
(***************************************************************************)
(* MediaBuild for two models of one kernel version: of one release         *)
(* directory, or, with Arm, of two.                                        *)
(***************************************************************************)
EXTENDS MediaBuild

CONSTANT Arm  \* the models whose configuration is for an ARM machine

MCModel  == {"TS-X71", "TS-X31P"}
MCTarget == [m \in MCModel |-> IF m \in Arm THEN "3.10/arm" ELSE "3.10/x86_64"]
MCTree   == [m \in MCModel |-> "linux-3.10"]
=============================================================================
