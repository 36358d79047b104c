----------------------------- MODULE FsmMutants -----------------------------
(***************************************************************************)
(* The bounded check of what the forge made of designs/fsm/fsm.v: golden   *)
(* and mutant in the miter of FsmMiter, one step of sby deeper at a time.  *)
(* All mutants of corpus_v2 but those of the TIMING operators, whose       *)
(* meaning is the tools'.                                                  *)
(***************************************************************************)
EXTENDS Fsm, Sequences

VARIABLES
  mutant,   \* the task that is checked
  depth,    \* the last step that was looked at
  pairs,    \* the pairs of registers, golden and mutant, possible there
  reached,  \* and at any step from the first edge on
  diverged  \* the first step with an assertion that fails, or Never

bmcVars == <<mutant, depth, pairs, reached, diverged>>

(* formal_k of corpus.py, after a mutant of it: steps 0 to k - 1 are checked. *)
FormalDepthShort == 6
FormalDepth == 40

Never == FormalDepth

-----------------------------------------------------------------------------
(* Where the always block is with these registers and inputs. *)
Place(r, rst_n, start) ==
  IF rst_n = 0 THEN "reset"
  ELSE IF r.state = IDLE THEN IF start = 1 THEN "start" ELSE "idle"
  ELSE IF r.state = RUN THEN IF r.counter = LAST THEN "last" ELSE "count"
  ELSE IF r.state = FINISH THEN "finish" ELSE "other"

(* Tasks that put another constant or state into a register, by the number  *)
(* in their task_id: where, which register and what.                        *)
Places == {"reset", "idle", "start", "last", "count", "finish", "other"}
Assigned == [
  n2 |-> <<{"reset"}, "counter", 1>>, n3 |-> <<{"reset"}, "busy", 1>>,
  n4 |-> <<{"reset"}, "done", 1>>, n5 |-> <<Places \ {"reset", "finish"}, "done", 1>>,
  n6 |-> <<{"idle"}, "busy", 1>>, n7 |-> <<{"start"}, "counter", 1>>,
  n8 |-> <<{"start"}, "busy", 0>>, n11 |-> <<{"finish"}, "busy", 1>>,
  n12 |-> <<{"finish"}, "done", 0>>, n32 |-> <<{"reset"}, "state", RUN>>,
  n33 |-> <<{"start"}, "state", IDLE>>, n34 |-> <<{"last"}, "state", IDLE>>,
  n35 |-> <<{"finish"}, "state", RUN>>, n36 |-> <<{"other"}, "state", RUN>> ]

(* A run whose counter ends at another place, or moves otherwise.           *)
Running(r, last, next) ==
  IF last THEN [r EXCEPT !.state = FINISH, !.done = 0]
  ELSE [r EXCEPT !.counter = next % 8, !.done = 0]
Runs(m, r) ==
  CASE m = "n0" -> Running(r, r.counter # LAST, r.counter + 1)
    [] m = "n1" -> Running(r, r.counter = LAST, r.counter + 7)
    [] m = "n9" -> Running(r, r.counter = LAST + 1, r.counter + 1)
    [] m = "n10" -> Running(r, r.counter = LAST, r.counter + 2)

(* What the edge makes of a mutant; clk, read instead of rst_n (n30) or of   *)
(* start (n31), is up at a rising edge.                                     *)
MutantEdge(m, r, rst_n, start) ==
  CASE m \in DOMAIN Assigned ->
         IF Place(r, rst_n, start) \in Assigned[m][1]
         THEN [Edge(r, rst_n, start) EXCEPT ![Assigned[m][2]] = Assigned[m][3]]
         ELSE Edge(r, rst_n, start)
    [] m = "n30" -> Edge(r, 1, start)
    [] m = "n31" -> Edge(r, rst_n, 1)
    [] OTHER -> IF rst_n = 1 /\ r.state = RUN THEN Runs(m, r) ELSE Edge(r, rst_n, start)

Mutants == DOMAIN Assigned \cup {"n0", "n1", "n9", "n10", "n30", "n31"}

-----------------------------------------------------------------------------
(* The assertions of the miter at a step; a mutant of them: done is left out. *)
SameBusy(r, u) == r.busy = u.busy
SameOutputs(r, u) == r.busy = u.busy /\ r.done = u.done

BmcInit ==
  /\ mutant \in Mutants
  /\ depth = 0
  /\ pairs = {}
  /\ reached = {}
  /\ diverged = Never

(* Registers are free at step 0, reset is assumed there and free later.     *)
Earlier == IF depth = 0 THEN Registers \X Registers ELSE pairs
Resets == IF depth = 0 THEN {0} ELSE Bit

Later ==
  { <<Edge(p[1], rst_n, start), MutantEdge(mutant, p[2], rst_n, start)>> :
      p \in Earlier, rst_n \in Resets, start \in Bit }

Deepen ==
  /\ depth < FormalDepth - 1
  /\ diverged = Never
  /\ depth' = depth + 1
  /\ pairs' = Later
  /\ reached' = reached \cup Later
  /\ diverged' = IF \A p \in Later : SameOutputs(p[1], p[2]) THEN Never ELSE depth + 1
  /\ UNCHANGED mutant

BmcDone == depth = FormalDepth - 1 \/ diverged # Never

BmcNext == Deepen \/ (BmcDone /\ UNCHANGED bmcVars)

BmcSpec == BmcInit /\ [][BmcNext]_bmcVars

-----------------------------------------------------------------------------
(* PROPERTIES                                                              *)

(***************************************************************************)
(* corpus.py quarantines a mutant that bmc passes at k = 40 because such a *)
(* pass is not a proof.  For the fsm design it is one: what a further step *)
(* of golden and mutant can reach was already reached, and agreed, within  *)
(* the bound.                                                              *)
(***************************************************************************)
BoundSuffices ==
  BmcDone /\ diverged = Never => Later \subseteq reached

(***************************************************************************)
(* The verdict and the cycle of divergence of every mutant are the ones    *)
(* benchmarks/corpus_v2/tasks.json records for it (no cycle: PROVEN-BMC).  *)
(***************************************************************************)
RecordedCycles == [
  n0 |-> 4, n1 |-> Never, n2 |-> Never, n3 |-> 1, n4 |-> 1, n5 |-> 2, n6 |-> 2,
  n7 |-> 7, n8 |-> 2, n9 |-> 8, n10 |-> 6, n11 |-> 8, n12 |-> 8, n30 |-> 1,
  n31 |-> 2, n32 |-> 2, n33 |-> 3, n34 |-> 8, n35 |-> 9, n36 |-> Never ]
DepthsRecorded == BmcDone => diverged = RecordedCycles[mutant]
=============================================================================
