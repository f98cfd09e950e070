----------------------------- MODULE MCDmxBuffer -----------------------------
(***************************************************************************)
(* DmxBuffer for the buffers of both kinds of filters in one run: a tap's, *)
(* whose arrays of two sizes are filled, resized and restarted, and that   *)
(* of a section filter, of one size but with the timer, for less bytes.    *)
(***************************************************************************)
EXTENDS DmxBuffer

Section == INSTANCE DmxBuffer WITH Kind <- "section", Sizes <- {3}, MaxBytes <- 4

VARIABLE kind  \* which of the two this behaviour is about

mcvars == <<vars, kind>>

MCInit == \/ kind = Kind /\ Init
          \/ kind = "section" /\ Section!Init

(* An action of the one or of the other. *)
Tap(A)    == kind = Kind /\ A /\ UNCHANGED kind
Filter(A) == kind = "section" /\ A /\ UNCHANGED kind

MCNext == Tap(Next) \/ Filter(Section!Next)

MCSpec ==
    /\ MCInit /\ [][MCNext]_mcvars
    /\ WF_mcvars(Tap(WriterStep) \/ Filter(Section!WriterStep))
    /\ WF_mcvars(Filter(Section!TimerState \/ Section!TimerWake))
    /\ WF_mcvars(Tap(ReaderStep) \/ Filter(Section!ReaderStep))

(* NoGapInsideRead is about a tap: a section filter's timer may clear the error
   that stands for the gap. *)
NoGapInsideTapRead == kind = Kind => NoGapInsideRead
=============================================================================
