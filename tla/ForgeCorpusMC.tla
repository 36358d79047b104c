--------------------------- MODULE ForgeCorpusMC ---------------------------
(* Two designs; the first repeats a mutant.  In the second state of the     *)
(* sources the operators find the mutants in another order.                 *)
EXTENDS ForgeCorpus

MCCandidates ==
  [s \in Sources |->
    IF s = "s1" THEN <<<<"m1", "m2", "m1">>, <<"m3">>>>
    ELSE <<<<"m2", "m2">>, <<"m3">>>>]

Nature(in40, in200, test) == [in40 |-> in40, in200 |-> in200, test |-> test]

(* Every mix of a bug found at once, a deep bug, and no bug, with every     *)
(* outcome of the testbench, occurs at some mutant.                         *)
MCNatures ==
  { [m1 |-> Nature(TRUE, TRUE, "FAIL"),
     m2 |-> Nature(TRUE, TRUE, "PASS"),
     m3 |-> Nature(FALSE, TRUE, "PASS")],
    [m1 |-> Nature(FALSE, TRUE, "FAIL"),
     m2 |-> Nature(FALSE, FALSE, "PASS"),
     m3 |-> Nature(TRUE, TRUE, "SIM-INVALID")],
    [m1 |-> Nature(FALSE, FALSE, "SIM-INVALID"),
     m2 |-> Nature(FALSE, FALSE, "FAIL"),
     m3 |-> Nature(TRUE, TRUE, "FAIL")] }
=============================================================================
