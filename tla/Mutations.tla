----------------------------- MODULE Mutations -----------------------------
(***************************************************************************)
(* The mutation operators of rtlverdict/forge/operators and the list of    *)
(* candidates corpus.py makes with them.  A source is the nodes of its     *)
(* tree that some operator looks at, in the order of walk; a candidate is  *)
(* one node and what is spliced in for it.                                 *)
(***************************************************************************)
EXTENDS Integers, Sequences, SequencesExt

CONSTANTS
  Codes,    \* golden sources: sequences of nodes
  Declared, \* ports and variables in order, [name, width]
  Groups    \* localparam declarations in order, each a sequence of names

(* A literal with a base.  size 0: none is given; digits are numbers, XZ is *)
(* one of x, z and ?.                                                       *)
XZ == 16
Literal(size, base, digits, parameter) ==
  [is |-> "literal", size |-> size, base |-> base, digits |-> digits, parameter |-> parameter]
(* role: "target" of an assignment, its whole "right" side, or "other"; the *)
(* names of a concatenated target are "other" too.                          *)
Name(name, role) == [is |-> "name", name |-> name, role |-> role]
Operation(symbol) == [is |-> "operation", symbol |-> symbol]
Assign(symbol, continuous) ==
  [is |-> "assign", symbol |-> symbol, continuous |-> continuous]
Event(edge) == [is |-> "event", edge |-> edge]

SyntaxNodes ==
  [is : {"literal"}, size : Nat, base : {2, 8, 10, 16}, digits : Seq(Nat), parameter : BOOLEAN]
  \cup [is : {"name"}, name : STRING, role : {"target", "right", "other"}]
  \cup [is : {"operation"}, symbol : STRING]
  \cup [is : {"assign"}, symbol : STRING, continuous : BOOLEAN]
  \cup [is : {"event"}, edge : {"posedge", "negedge", "any"}]

ASSUME CodesAssumption == \A source \in Codes : source \in Seq(SyntaxNodes)

(* Names are unique, and no signal has the name of a constant.              *)
ASSUME DeclaredAssumption ==
  /\ Declared \in Seq(ToSet(Declared))
  /\ \A i \in DOMAIN Declared :
       /\ \A j \in DOMAIN Declared : Declared[i].name = Declared[j].name => i = j
       /\ \A g \in ToSet(Groups) : Declared[i].name \notin ToSet(g)
ASSUME GroupsAssumption ==
  /\ Groups \in Seq(ToSet(Groups))
  /\ \A g \in ToSet(Groups) : g \in Seq(ToSet(g))

VARIABLES
  code,       \* the golden source
  candidates, \* what the operators found, in order
  applied,    \* how many operators have been applied
  walked      \* how many nodes the next one has looked at

mutationVars == <<code, candidates, applied, walked>>

-----------------------------------------------------------------------------
(* The operators: what a node becomes, one node or none.                    *)

When(condition, new) == IF condition THEN {new} ELSE {}

Swaps == { <<"==", "!=">>, <<"!=", "==">>, <<"&", "|">>, <<"|", "&">>,
           <<"&&", "||">>, <<"||", "&&">>, <<"+", "-">>, <<"-", "+">>,
           <<"<", "<=">>, <<">", ">=">> }

OperatorSwap(n) ==
  IF n.is = "operation"
  THEN { Operation(swap[2]) : swap \in { s \in Swaps : s[1] = n.symbol } }
  ELSE {}

(* What digits are worth in a base, and the decimal digits of a number.     *)
Number(base, digits) ==
  LET worth[k \in 0 .. Len(digits)] ==
        IF k = 0 THEN 0 ELSE worth[k - 1] * base + digits[k] IN
    worth[Len(digits)]
Decimal[n \in Nat] == IF n < 10 THEN <<n>> ELSE Append(Decimal[n \div 10], n % 10)
Power2[n \in Nat] == IF n = 0 THEN 1 ELSE 2 * Power2[n - 1]

(* Mutant of Perturbed: no wrap at the width of the literal. *)
PerturbedUnbound(n) == Number(n.base, n.digits) + 1

Perturbed(n) ==
  LET next == Number(n.base, n.digits) + 1 IN
    IF n.size = 0 THEN next ELSE next % Power2[n.size]

(* The new value is spelt in decimal behind the old size and base.          *)
ConstantPerturbation(n) ==
  IF n.is = "literal"
  THEN When(~n.parameter /\ \A i \in DOMAIN n.digits : n.digits[i] < n.base,
            [n EXCEPT !.digits = Decimal[Perturbed(n)]])
  ELSE {}

BlockingNonblockingSwap(n) ==
  IF n.is = "assign"
  THEN {[n EXCEPT !.symbol = IF @ = "<=" THEN "=" ELSE "<="]}
  ELSE {}

EdgeSwap(n) ==
  IF n.is = "event"
  THEN When(n.edge # "any", Event(IF n.edge = "posedge" THEN "negedge" ELSE "posedge"))
  ELSE {}

(* Mutant of Peers: a name is its own peer. *)
PeersAndSelf(name) ==
  { i \in DOMAIN Declared :
      \E d \in ToSet(Declared) : d.name = name /\ d.width = Declared[i].width }

(* The places of the other signals that have the width of a name.           *)
Peers(name) ==
  { i \in DOMAIN Declared :
      /\ Declared[i].name # name
      /\ \E d \in ToSet(Declared) : d.name = name /\ d.width = Declared[i].width }

SignalSubstitution(n) ==
  IF n.is = "name"
  THEN When(n.role # "target" /\ Peers(n.name) # {},
            [n EXCEPT !.name = Declared[Min(Peers(@))].name])
  ELSE {}

(* The declarations that have a name and another one; the last one counts.  *)
GroupsOf(name) == { g \in DOMAIN Groups : Len(Groups[g]) >= 2 /\ name \in ToSet(Groups[g]) }

Siblings(name) ==
  LET group == Groups[Max(GroupsOf(name))] IN { i \in DOMAIN group : group[i] # name }

NextStateRedirect(n) ==
  IF n.is = "name"
  THEN When(n.role = "right" /\ GroupsOf(n.name) # {} /\ Siblings(n.name) # {},
            [n EXCEPT !.name = Groups[Max(GroupsOf(@))][Min(Siblings(@))]])
  ELSE {}

AllOperators ==
  <<"operator_swap", "constant_perturbation", "blocking_nonblocking_swap",
    "edge_swap", "signal_substitution", "next_state_redirect">>

Becomes(operator, n) ==
  CASE operator = "operator_swap" -> OperatorSwap(n)
    [] operator = "constant_perturbation" -> ConstantPerturbation(n)
    [] operator = "blocking_nonblocking_swap" -> BlockingNonblockingSwap(n)
    [] operator = "edge_swap" -> EdgeSwap(n)
    [] operator = "signal_substitution" -> SignalSubstitution(n)
    [] operator = "next_state_redirect" -> NextStateRedirect(n)

(* apply_candidate. *)
Mutated(c) == [code EXCEPT ![c.at] = c.new]

-----------------------------------------------------------------------------
MutationsStart(source) == code = source /\ candidates = <<>> /\ applied = 0 /\ walked = 0

MutationsInit == \E source \in Codes : MutationsStart(source)

(* One operator after the other walks the whole tree.                       *)
LookAt ==
  /\ applied < Len(AllOperators) /\ walked < Len(code)
  /\ walked' = walked + 1
  /\ LET operator == AllOperators[applied + 1]
         becomes == Becomes(operator, code[walked + 1]) IN
       \/ becomes = {} /\ UNCHANGED candidates
       \/ \E n \in becomes :
            candidates' = Append(candidates, [at |-> walked + 1, new |-> n, operator |-> operator])
  /\ UNCHANGED <<code, applied>>

OperatorApplied ==
  /\ applied < Len(AllOperators) /\ walked = Len(code)
  /\ applied' = applied + 1 /\ walked' = 0
  /\ UNCHANGED <<code, candidates>>

Generated == applied = Len(AllOperators)

MutationsNext == LookAt \/ OperatorApplied \/ (Generated /\ UNCHANGED mutationVars)

MutationsSpec == MutationsInit /\ [][MutationsNext]_mutationVars

-----------------------------------------------------------------------------
(* PROPERTIES                                                              *)

(***************************************************************************)
(* No two candidates of all six operators make the same text, and none     *)
(* makes the golden text again.  build_stats.py asserts this of every      *)
(* design (generated = distinct), and the corpus would count a golden copy *)
(* among its equivalent mutants.                                           *)
(***************************************************************************)
MutantsDistinct ==
  Generated =>
    \A i \in DOMAIN candidates :
      /\ Mutated(candidates[i]) # code
      /\ \A j \in DOMAIN candidates :
           Mutated(candidates[i]) = Mutated(candidates[j]) => i = j

(* What a literal is worth, as Verilog reads it; Unreadable if a digit is   *)
(* not one of its base.                                                     *)
Unreadable == -1
Worth(n) ==
  IF \E i \in DOMAIN n.digits : n.digits[i] >= n.base THEN Unreadable
  ELSE LET v == Number(n.base, n.digits) IN IF n.size = 0 THEN v ELSE v % Power2[n.size]

ByOne(old, new) ==
  Worth(new) = IF old.size = 0 THEN Worth(old) + 1 ELSE (Worth(old) + 1) % Power2[old.size]

Perturbations ==
  { c \in ToSet(candidates) : c.operator = "constant_perturbation" }

(***************************************************************************)
(* A perturbed literal is worth one more than the golden one, modulo its   *)
(* width, if it is decimal or has one bit: such are all the literals of    *)
(* the four designs.                                                       *)
(***************************************************************************)
DecimalsPerturbedByOne ==
  \A c \in Perturbations :
    code[c.at].base = 10 \/ code[c.at].size = 1 => ByOne(code[c.at], c.new)

(***************************************************************************)
(* What logic.py says of every literal.  Of a wider literal in another     *)
(* base it does not hold: the new value is spelt in decimal digits, which  *)
(* the base reads as another value or not at all.                          *)
(***************************************************************************)
PerturbedByOne == \A c \in Perturbations : ByOne(code[c.at], c.new)
=============================================================================
