------------------------------- MODULE RtlMC -------------------------------
EXTENDS Rtl, FiniteSets

(* The bytes of eight bits with at most one one, and their complements.    *)
Ones(byte) == Cardinality({ i \in 0 .. 7 : byte[i] = 1 })
MCBytes == { byte \in [0 .. 7 -> {0, 1}] : Ones(byte) \in {0, 1, 7, 8} }

(* Golden sources of up to three nodes of every kind, and every literal of *)
(* one or two digits.                                                      *)
MCDeclared == << [name |-> "clk", width |-> 1], [name |-> "q", width |-> 4],
                 [name |-> "d", width |-> 4], [name |-> "e", width |-> 4],
                 [name |-> "state", width |-> 2] >>
MCGroups == << <<"IDLE", "RUN", "STOP">>, <<"LIMIT">> >>
MCNodes ==
  { Operation("=="), Operation("<="), Operation("&"), Assign("<=", FALSE), Assign("=", TRUE),
    Event("posedge"), Event("any"), Name("q", "target"), Name("q", "right"), Name("d", "other"),
    Name("state", "right"), Name("RUN", "right"), Name("IDLE", "other"), Name("LIMIT", "right"),
    Literal(1, 2, <<1>>, FALSE), Literal(3, 10, <<7>>, FALSE), Literal(3, 10, <<7>>, TRUE) }
MCLiterals ==
  UNION { { Literal(size, base, digits, FALSE) :
              size \in {0, 1, 2, 4, 8},
              digits \in UNION { [1 .. n -> 0 .. base - 1 \cup {XZ}] : n \in 1 .. 2 } } :
          base \in {2, 8, 10, 16} }
MCCodes ==
  UNION { [1 .. n -> MCNodes] : n \in 2 .. 3 } \cup { <<n>> : n \in MCNodes \cup MCLiterals }


(* Two scopes with their own divergences: the DUT and the whole testbench.  *)
MCDivergences ==
  {[signal |-> "busy", time |-> 20], [signal |-> "errors", time |-> 30]}

(* Two paths with one last component and one with another.                  *)
MCPaths == <<"dut.busy", "dut.done", "dut.sub.busy">>
MCBase == [p \in Signal |-> IF p = "dut.done" THEN "done" ELSE "busy"]
MCBaseNames == <<"busy", "done">>
MCMaxLines == [f \in Traces |-> IF f = "golden" THEN 4 ELSE 3]

(* Sources with one assignment per signal, at lines 1 to 3 and maybe under  *)
(* the condition at line 4; m may be an array, written at an element and    *)
(* read through a select.                                                   *)
MCSignals == {"a", "b", "m"}
MCLines == 1 .. 4
LineOf == [s \in MCSignals |-> CASE s = "a" -> 1 [] s = "b" -> 2 [] s = "m" -> 3]
Few == { S \in SUBSET MCSignals : \A s, t \in S : s = t }
Source(right, conditional, reads, arrays, index) ==
  { [target |-> s, indexed |-> s \in arrays,
     index |-> IF s \in arrays THEN index ELSE {},
     whole |-> right[s] \ arrays, part |-> right[s] \cap arrays,
     conditions |->
       { c \in {[line |-> 4, whole |-> reads \ arrays, part |-> reads \cap arrays]} :
           conditional[s] },
     line |-> LineOf[s]] : s \in MCSignals }
MCSources ==
  { Source(right, conditional, reads, arrays, index) :
      right \in [MCSignals -> Few], conditional \in [MCSignals -> BOOLEAN],
      reads \in Few, arrays \in {{}, {"m"}}, index \in Few }
=============================================================================
