------------------------------ MODULE FsmMiter ------------------------------
(***************************************************************************)
(* The miter verdict/miter.py generates for the fsm design: two copies of  *)
(* the module with the inputs in common, any contents of the registers at  *)
(* power-up, reset assumed at the first step and nowhere else, and at      *)
(* every step out of reset an assertion that the outputs agree.  Here both *)
(* copies are the golden module: the check that shows the harness fit to   *)
(* judge a mutant.  bmc stops at a depth; this miter runs on for ever.     *)
(*                                                                         *)
(* "waited" is a history variable: the edges since a start was accepted,   *)
(* or LAST + 3 when no run is under way.                                   *)
(***************************************************************************)
EXTENDS Fsm

VARIABLES ref_i, uut_i, rst_n, start, initial, waited

miterVars == <<ref_i, uut_i, rst_n, start, initial, waited>>

NoRun == LAST + 3

(* Mutant of InitialAssume: it is not generated. *)
NoAssume == TRUE

(* The assumption on the first step. *)
InitialAssume == rst_n = 0

MiterInit ==
  /\ ref_i \in Registers
  /\ uut_i \in Registers
  /\ rst_n \in Bit
  /\ InitialAssume
  /\ start \in Bit
  /\ initial = TRUE
  /\ waited = NoRun

(* Mutant of RefEdge: a start is accepted in every state. *)
RefRestart ==
  IF rst_n = 1 /\ ref_i.state = RUN /\ start = 1
  THEN [ref_i EXCEPT !.counter = 0, !.done = 0]
  ELSE Edge(ref_i, rst_n, start)

(* The two instances. *)
RefEdge == Edge(ref_i, rst_n, start)
UutEdge == Edge(uut_i, rst_n, start)

Waited ==
  IF rst_n = 0 THEN NoRun
  ELSE IF ref_i.state = IDLE /\ start = 1 THEN 0
  ELSE IF waited < LAST + 3 THEN waited + 1
  ELSE NoRun

MiterClock ==
  /\ ref_i' = RefEdge
  /\ uut_i' = UutEdge
  /\ rst_n' \in Bit
  /\ start' \in Bit
  /\ initial' = FALSE
  /\ waited' = Waited

MiterNext == MiterClock

MiterSpec == MiterInit /\ [][MiterNext]_miterVars

-----------------------------------------------------------------------------
(* PROPERTIES                                                              *)

(* Type invariant; once reset, the golden module never leaves its three      *)
(* encodings.                                                               *)
MiterTypeOK ==
  /\ ref_i \in Registers
  /\ ~initial => ref_i.state # 3
  /\ uut_i \in Registers
  /\ rst_n \in Bit
  /\ start \in Bit
  /\ initial \in BOOLEAN
  /\ waited \in 0 .. NoRun

(***************************************************************************)
(* The assertions of the miter.  Golden against golden they hold at every  *)
(* depth and from any power-up: the one assumption the miter makes is      *)
(* enough to align the copies, so a failed assertion is about the mutant.  *)
(***************************************************************************)
OutputsAgree ==
  rst_n = 1 => ref_i.busy = uut_i.busy /\ ref_i.done = uut_i.done

(***************************************************************************)
(* What the golden module is for: done comes LAST + 2 edges after the one  *)
(* that accepts a start and lasts one cycle, busy covers the edges before  *)
(* it, and a start while it is on changes nothing.                         *)
(***************************************************************************)
DoneOnTime ==
  ~initial => /\ ref_i.done = 1 <=> waited = LAST + 2
              /\ ref_i.busy = 1 <=> waited < LAST + 2

(***************************************************************************)
(* Why: once reset, the copies are the same, and the state and the counter *)
(* say how long the run has lasted.                                        *)
(***************************************************************************)
Aligned == IF initial THEN rst_n = 0 ELSE ref_i = uut_i

Phase ==
  ~initial =>
    /\ ref_i.state = IDLE <=> waited >= LAST + 2
    /\ ref_i.state = RUN <=> waited <= LAST
    /\ ref_i.state = FINISH <=> waited = LAST + 1
    /\ ref_i.state = RUN => ref_i.counter = waited
    /\ ref_i.done = 1 <=> waited = LAST + 2
    /\ ref_i.busy = 1 <=> waited < LAST + 2
=============================================================================
