--------------------------- MODULE MCSectionFilters ---------------------------
(***************************************************************************)
(* SectionFilters in two kinds of surroundings in one run: one in which    *)
(* every call succeeds, with all PIDs and one-shot filters, and one with a *)
(* single PID in which calls fail, tables run out and section timers run.  *)
(***************************************************************************)
EXTENDS SectionFilters

Good == INSTANCE SectionFilters WITH Timeouts <- {FALSE}, Failing <- FALSE
Bad  == INSTANCE SectionFilters WITH Pids <- {"p"}, Oneshots <- {FALSE}, Timeouts <- {TRUE}

VARIABLE good  \* the surroundings of this behaviour

mcvars == <<vars, good>>

(* An action in the one or in the other. *)
InGood(A) == good /\ A /\ UNCHANGED good
InBad(A)  == ~good /\ A /\ UNCHANGED good

MCInit == Init /\ good \in BOOLEAN
MCNext == InGood(Good!Next) \/ InBad(Bad!Next)

MCSpec ==
    /\ MCInit /\ [][MCNext]_mcvars
    /\ SF_mcvars(InGood(Good!OpStep) \/ InBad(Bad!OpStep))
    /\ WF_mcvars(InGood(Good!SectionIgnored) \/ InBad(Bad!SectionIgnored))
    /\ \A f \in Filter : WF_mcvars(InBad(Bad!TimerEnds(f)))

=============================================================================
