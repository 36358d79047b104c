----------------------------- MODULE ScriptsMC -----------------------------
EXTENDS Scripts

(* Two tasks; an invocation runs both arms of the first, or of both, or is *)
(* given one arm twice.                                                    *)
MCTasks == <<"t1", "t2">>
MCArmLists == {<<"A", "B">>, <<"A", "A">>}

(* Three designs, the last with a file of its own; the corpora of the      *)
(* first file have the same totals, or the same counts per design, or a    *)
(* design without real bugs, or a task whose evaluation failed.            *)
MCFormalK == [d \in {"fsm", "uart", "fifo"} |-> IF d = "fifo" THEN 25 ELSE 40]
Bns == "blocking_nonblocking_swap"
Task(id, design, operator, decision, depth) ==
  [id |-> id, design |-> design, operator |-> operator, decision |-> decision,
   depth |-> IF decision = "KEEP" THEN depth ELSE Unknown,
   k |-> IF decision = "ERROR" THEN Unknown ELSE MCFormalK[design]]
Main(f1, f2, u1, u2) ==
  { Task("f1", "fsm", Bns, f1, 3), Task("f2", "fsm", "edge_swap", f2, 12),
    Task("u1", "uart", "edge_swap", u1, 12), Task("u2", "uart", Bns, u2, 3) }
Addition(m) == { Task("m1", "fifo", Bns, m, 7) }
MCCorpora ==
  ("corpus_v2" :>
     { Main("KEEP", "SILENT", "KEEP", "SILENT"), Main("SILENT", "KEEP", "SILENT", "KEEP"),
       Main("KEEP", "SILENT", "SILENT", "SILENT"), Main("KEEP", "QUARANTINE", "SILENT", "ERROR"),
       Main("KEEP", "SILENT", "QUARANTINE", "ERROR") })
  @@ ("fifo_addition" :> { Addition("KEEP"), Addition("QUARANTINE"), {} })
MCDesignOrder == <<"fsm", "uart", "fifo">>
MCHomeOf == [d \in {"fsm", "uart", "fifo"} |-> IF d = "fifo" THEN "fifo_addition" ELSE "corpus_v2"]
MCGenerates == [d \in {"fsm", "uart", "fifo"} |-> IF d = "fifo" THEN 1 ELSE 2]

(* More tasks of one design than the pilot takes, two of them equally deep, *)
(* and another corpus in which one of them has another depth; a golden file *)
(* that knows one check.                                                    *)
KeepTask(id, design, depth) == [id |-> id, design |-> design, depth |-> depth]
MCKeepLists ==
  { << KeepTask("s1", "fsm", 3), KeepTask("s2", "fsm", 9), KeepTask("s3", "fsm", 3) >>,
    << KeepTask("f1", "fifo", 6), KeepTask("s1", "fsm", 5) >> }
MCOldGolden == { NoFile, [is |-> "whole", rows |-> ("C2" :> "REFUTED")] }
MCDesignsByName == <<"fifo", "fsm">>
=============================================================================
