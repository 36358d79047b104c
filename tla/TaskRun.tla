------------------------------ MODULE TaskRun ------------------------------
(***************************************************************************)
(* What one task run promises to the batch that started it: it is running, *)
(* then it either records exactly one verdict, justified by the patch that *)
(* was submitted (or by the absence of one), or it aborts and records      *)
(* nothing.  AgentLoop implements this specification.                      *)
(***************************************************************************)
CONSTANTS
  Patches,   \* the patches an agent may submit
  NoPatch    \* "nothing submitted"

(***************************************************************************)
(* A patch is described by what the checks can tell about it: the parser   *)
(* accepts it, the elaborator accepts it against the testbench, it still   *)
(* declares the top module, its ports are the golden ports, and it agrees  *)
(* with the golden design for the first k cycles after reset.              *)
(***************************************************************************)
PatchFeatures ==
  [parses: BOOLEAN, elaborates: BOOLEAN, hasTop: BOOLEAN,
   samePorts: BOOLEAN, equivalent: BOOLEAN]

VARIABLES
  status,      \* "running", "recorded" or "aborted"
  submission,  \* NoPatch, or the patch submitted
  verdict      \* "None" until one is recorded

vars == <<status, submission, verdict>>

Acceptable(p) == p.parses /\ p.elaborates /\ p.hasTop /\ p.samePorts

(***************************************************************************)
(* The verdicts that may be recorded for a submission.  An elaboration or  *)
(* a formal run that exceeds its time makes INVALID-PATCH and              *)
(* INDETERMINATE possible for any patch; the two verdicts that say         *)
(* something about the design are possible only when they are true.        *)
(***************************************************************************)
Justified(s) ==
  IF s = NoPatch THEN {"NO-PATCH", "ERROR"}
  ELSE {"INVALID-PATCH"}
       \cup { v \in {"INDETERMINATE"} : Acceptable(s) }
       \cup { v \in {"PLAUSIBLE"} : Acceptable(s) /\ s.equivalent }
       \cup { v \in {"REFUTED"} : Acceptable(s) /\ ~s.equivalent }

Verdicts == {"NO-PATCH", "ERROR", "INVALID-PATCH", "INDETERMINATE",
             "PLAUSIBLE", "REFUTED"}

TypeOK ==
  /\ status \in {"running", "recorded", "aborted"}
  /\ submission \in Patches \cup {NoPatch}
  /\ verdict \in Verdicts \cup {"None"}

Init ==
  /\ status = "running"
  /\ submission = NoPatch
  /\ verdict = "None"

Submit(p) ==
  /\ status = "running"
  /\ submission = NoPatch
  /\ submission' = p
  /\ UNCHANGED <<status, verdict>>

Record(v) ==
  /\ status = "running"
  /\ v \in Justified(submission)
  /\ status' = "recorded"
  /\ verdict' = v
  /\ UNCHANGED submission

Abort ==
  /\ status = "running"
  /\ status' = "aborted"
  /\ UNCHANGED <<submission, verdict>>

Next ==
  \/ \E p \in Patches : Submit(p)
  \/ \E v \in Verdicts : Record(v)
  \/ Abort

Spec == Init /\ [][Next]_vars
=============================================================================
