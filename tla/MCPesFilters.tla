----------------------------- MODULE MCPesFilters -----------------------------
(***************************************************************************)
(* PesFilters in two kinds of surroundings in one run: two descriptors     *)
(* with several PIDs, which they change while they run, and every call     *)
(* succeeding; and three that compete, with one PID each, for two feeds    *)
(* and a decoder, with calls that fail.                                    *)
(***************************************************************************)
EXTENDS PesFilters

CONSTANT MaxEntries \* bound on the PIDs of the first two descriptors together

Good == INSTANCE PesFilters WITH NumFilters <- 2, NumFeeds <- MaxEntries,
                                 PesTypes <- {"other"}, Failing <- FALSE
Bad  == INSTANCE PesFilters WITH NumFeeds <- 2, Pids <- {"p"}, Outputs <- {"ts_tap"},
                                 MaxPids <- 1, Edits <- FALSE

VARIABLE good  \* the surroundings of this behaviour

mcvars == <<vars, good>>

\* What was in the memory of a feed no call of the behaviour uses tells nothing.
MCInit ==
    /\ Init /\ good \in BOOLEAN
    /\ \A d \in Feed : good \/ d \notin Bad!Feed => feed[d] = FreeFeed

MCNext ==
    \/ good /\ Good!Next /\ UNCHANGED good
       /\ Len(flt'[1].pids) + Len(flt'[2].pids) <= MaxEntries
    \/ ~good /\ Bad!Next /\ UNCHANGED good

MCSpec == MCInit /\ [][MCNext]_mcvars
=============================================================================
