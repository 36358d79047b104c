-------------------------------- MODULE Coi --------------------------------
(***************************************************************************)
(* The backward slice of rtlverdict/witness/coi.py: which source lines can *)
(* affect a signal.  A source is what its syntax tree says of assignments: *)
(* the target, the names read, the enclosing conditions and the lines of   *)
(* all of them.  A name with a select, x[i], is not an identifier node but *)
(* a node of another kind, of which the walk sees the names in the select. *)
(***************************************************************************)
CONSTANTS
  Signals, \* names in a source, parameters included
  Lines,   \* its lines
  Sources  \* the sources that may be sliced, sets of assignments

(* whole: names read as they are; part: names read through a select.        *)
Conditions == [line: Lines, whole: SUBSET Signals, part: SUBSET Signals]

(* indexed: the target has a select; index: the names in it.                *)
Assignments == [target: Signals, indexed: BOOLEAN, index: SUBSET Signals,
                whole: SUBSET Signals, part: SUBSET Signals,
                conditions: SUBSET Conditions, line: Lines]

ASSUME SourcesAssumption == Sources \subseteq SUBSET Assignments

VARIABLES
  source,   \* the buggy RTL
  signal,   \* the signal that is asked for
  frontier, \* the names still to be looked at
  visited,  \* the names looked at
  seen      \* the lines collected

coiVars == <<source, signal, frontier, visited, seen>>

-----------------------------------------------------------------------------
(* build_dependency_index.                                                  *)

ConditionLines(a) == { c.line : c \in a.conditions }
ConditionReads(a) == UNION { c.whole : c \in a.conditions }

(* Mutant of OwnLines: the line of a condition is left out. *)
AssignmentLine(a) == {a.line}

OwnLines(a) == {a.line} \cup ConditionLines(a)

ReadSignals(a) == (a.whole \cup ConditionReads(a)) \ {a.target}

(* An assignment whose target is not an identifier node is passed over.     *)
Recorded == { a \in source : ~a.indexed }
Sites(s) == { a \in Recorded : a.target = s }

-----------------------------------------------------------------------------
(* cone_of_influence.                                                       *)

CoiStart(src, sig) ==
  /\ source = src /\ signal = sig
  /\ frontier = {sig} /\ visited = {} /\ seen = {}

CoiInit == \E src \in Sources, sig \in Signals : CoiStart(src, sig)

(* Mutant of Pushed: names already visited are pushed again. *)
PushedAgain(s) == UNION { ReadSignals(a) : a \in Sites(s) }

Pushed(s) == (UNION { ReadSignals(a) : a \in Sites(s) }) \ (visited \cup {s})

(* One pass of the loop.  The list the code pops from may hold a name more  *)
(* than once; only the first is looked at, so a set of names will do, from  *)
(* which any is taken (the order of a Python set is not defined).           *)
Visit(s) ==
  /\ s \in frontier
  /\ visited' = visited \cup {s}
  /\ seen' = seen \cup UNION { OwnLines(a) : a \in Sites(s) }
  /\ frontier' = (frontier \ {s}) \cup Pushed(s)
  /\ UNCHANGED <<source, signal>>

Sliced == frontier = {}

(* The loop is over; the lines are returned. *)
CoiEnded == Sliced /\ UNCHANGED coiVars

CoiNext == (\E s \in Signals : Visit(s)) \/ CoiEnded

CoiSpec == CoiInit /\ [][CoiNext]_coiVars

-----------------------------------------------------------------------------
(* PROPERTIES                                                              *)

(* Type invariant. *)
CoiTypeOK ==
  /\ source \subseteq Assignments /\ signal \in Signals
  /\ frontier \subseteq Signals /\ visited \subseteq Signals
  /\ seen \subseteq Lines

(* What the value of an assigned signal depends on in hardware: a part of a *)
(* signal is a part of it, and where an array is written depends on the     *)
(* index.  A bug in any line of Affecting(a) can show in the target of a.   *)
Depends(a) ==
  a.index \cup a.whole \cup a.part \cup UNION { c.whole \cup c.part : c \in a.conditions }
Affecting(a) == {a.line} \cup { c.line : c \in a.conditions }

(* A set of signals that depend on nothing outside it.                      *)
Closed(S) == \A a \in source : a.target \in S => Depends(a) \subseteq S

(* The lines that affect the signal: those of every closed set around it.   *)
AffectingLines ==
  { l \in Lines : \A S \in SUBSET Signals :
      signal \in S /\ Closed(S) =>
        \E a \in source : a.target \in S /\ l \in Affecting(a) }

(***************************************************************************)
(* The slice of a source without selects is exactly the set of lines that  *)
(* affect the signal: none is missing, in whatever order the names are     *)
(* taken and whatever cycles they form, and none is there that has no      *)
(* bearing on it.                                                          *)
(***************************************************************************)
NoSelects ==
  \A a \in source : /\ ~a.indexed /\ a.index = {} /\ a.part = {}
                    /\ \A c \in a.conditions : c.part = {}

SliceExact == Sliced /\ NoSelects => seen = AffectingLines

(***************************************************************************)
(* No name is looked at twice, so the loop ends for every finite source,   *)
(* also where registers depend on each other in a circle.                  *)
(***************************************************************************)
NeverTwice == frontier \cap visited = {}

(***************************************************************************)
(* What coi.py says of itself: it never omits a real dependency.  It does, *)
(* of whatever is read or written through a select: the writes of an       *)
(* array, and the assignments of a vector of which one bit is read, are    *)
(* not in the slice.                                                       *)
(***************************************************************************)
SliceSound == Sliced => AffectingLines \subseteq seen
=============================================================================
