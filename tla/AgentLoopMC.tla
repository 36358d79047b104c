---------------------------- MODULE AgentLoopMC ----------------------------
(* Instances of AgentLoop: one patch per way check_patch can fail, a patch *)
(* that passes it and is wrong, one that is right; turns of every shape.   *)
EXTENDS AgentLoop

Features(parses, elaborates, hasTop, samePorts, equivalent) ==
  [parses |-> parses, elaborates |-> elaborates, hasTop |-> hasTop,
   samePorts |-> samePorts, equivalent |-> equivalent]

Right == Features(TRUE, TRUE, TRUE, TRUE, TRUE)
Wrong == Features(TRUE, TRUE, TRUE, TRUE, FALSE)
MCPatches ==
  {Right, Wrong,
   Features(FALSE, FALSE, FALSE, FALSE, FALSE),
   Features(TRUE, FALSE, TRUE, TRUE, TRUE),
   Features(TRUE, TRUE, FALSE, TRUE, FALSE),
   Features(TRUE, TRUE, TRUE, FALSE, TRUE)}

MCReplies ==
  {[others |-> 0, submits |-> <<>>, cost |-> 1],
   [others |-> 2, submits |-> <<>>, cost |-> 2],
   [others |-> 1, submits |-> <<>>, cost |-> 3],
   [others |-> 1, submits |-> <<Wrong, Right>>, cost |-> 2]}
  \cup {[others |-> 0, submits |-> <<p>>, cost |-> 1] : p \in MCPatches}

(* Seconds have two ticks: a duration may end within one. *)
MCDurations == {0, 1, 2, 4}
=============================================================================
