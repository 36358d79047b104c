------------------------------- MODULE Traces -------------------------------
(***************************************************************************)
(* Two value change dumps read and compared: VCDTrace of                   *)
(* rtlverdict/witness/vcd.py and diff_traces.  The golden dump is read     *)
(* first, line by line, then the mutant's; then both are sampled.  wave is *)
(* what the dumps say, kept apart from what the reader makes of them.      *)
(***************************************************************************)
EXTENDS Naturals, Sequences

CONSTANTS
  Paths,     \* the signals in scope, sorted by path, as both dumps declare them
  Base,      \* Base[p]: the last component of path p
  BaseNames, \* the last components, sorted
  Bits,      \* the values a dump may state
  MaxTime,   \* bound: the last timestamp
  MaxLines,  \* bound: MaxLines[f] lines of dump f after its declarations
  Period     \* clock_period

Traces == {"golden", "mutant"}
Signal == { Paths[n] : n \in 1 .. Len(Paths) }
Bases == { BaseNames[n] : n \in 1 .. Len(BaseNames) }
Times == 0 .. MaxTime
Values == Bits \cup {"x"}

ASSUME TracesAssumption ==
  /\ MaxTime \in Nat /\ MaxLines \in [Traces -> Nat] /\ Period \in Nat \ {0}
  /\ Paths \in Seq(Signal) /\ BaseNames \in Seq(Bases)
  /\ Base \in [Signal -> Bases] /\ Bases = { Base[p] : p \in Signal }
  /\ \A n, m \in 1 .. Len(BaseNames) : BaseNames[n] = BaseNames[m] => n = m

VARIABLES
  stage,   \* "golden" or "mutant" is being read, "compare" or "done"
  lines,   \* lines[f]: how many of dump f have been read
  time,    \* time[f]: the last timestamp read
  pending, \* pending[f]: the values read since, a function on some signals
  changes, \* changes[f][p]: the changes kept, a sequence of [t, v]
  at,      \* the time of the next sample
  first,   \* the divergence found
  wave     \* wave[f][p][t]: the value that dump f gives p at the end of time t

tracesVars == <<stage, lines, time, pending, changes, at, first, wave>>

None == [found |-> FALSE]
Nothing == [p \in {} |-> "x"]

TracesInit ==
  /\ stage = "golden"
  /\ lines = [f \in Traces |-> 0]
  /\ time = [f \in Traces |-> 0]
  /\ pending = [f \in Traces |-> Nothing]
  /\ changes = [f \in Traces |-> [p \in Signal |-> <<>>]]
  /\ at = 0
  /\ first = None
  /\ wave = [f \in Traces |-> [p \in Signal |-> [t \in Times |-> "x"]]]

-----------------------------------------------------------------------------
(* _parse.                                                                  *)

Repeats(c, v) == c # <<>> /\ c[Len(c)].v = v

(* Mutant of Flushed: every value read is kept. *)
FlushedAll(f) ==
  [p \in Signal |->
     IF p \in DOMAIN pending[f]
     THEN Append(changes[f][p], [t |-> time[f], v |-> pending[f][p]])
     ELSE changes[f][p]]

(* flush: what was read since the last timestamp, where it is a change.     *)
Flushed(f) ==
  [p \in Signal |->
     IF p \in DOMAIN pending[f] /\ ~Repeats(changes[f][p], pending[f][p])
     THEN Append(changes[f][p], [t |-> time[f], v |-> pending[f][p]])
     ELSE changes[f][p]]

NextLine(f) ==
  /\ stage = f
  /\ lines[f] < MaxLines[f]
  /\ lines' = [lines EXCEPT ![f] = @ + 1]
  /\ UNCHANGED <<stage, at, first>>

(* "#t"; a timestamp may be repeated.                                       *)
Timestamp(f, t) ==
  /\ NextLine(f)
  /\ t >= time[f]
  /\ changes' = [changes EXCEPT ![f] = Flushed(f)]
  /\ pending' = [pending EXCEPT ![f] = Nothing]
  /\ time' = [time EXCEPT ![f] = t]
  /\ UNCHANGED wave

(* A value; a later one for the same signal and time replaces it.           *)
Value(f, p, v) ==
  /\ NextLine(f)
  /\ pending' = [pending EXCEPT ![f] =
                   [q \in DOMAIN @ \cup {p} |-> IF q = p THEN v ELSE @[q]]]
  /\ wave' = [wave EXCEPT ![f][p] =
                [t \in Times |-> IF t >= time[f] THEN v ELSE @[t]]]
  /\ UNCHANGED <<changes, time>>

EndOfFile(f) ==
  /\ stage = f
  /\ changes' = [changes EXCEPT ![f] = Flushed(f)]
  /\ pending' = [pending EXCEPT ![f] = Nothing]
  /\ stage' = IF f = "golden" THEN "mutant" ELSE "compare"
  /\ UNCHANGED <<lines, time, at, first, wave>>

-----------------------------------------------------------------------------
(* value_at: the last change at or before t, found by bisection.            *)

(* Mutant of UpTo: a change at t itself does not count, as bisect_left      *)
(* would have it.                                                           *)
Before(c, t) == { n \in 1 .. Len(c) : c[n].t < t }

UpTo(c, t) == { n \in 1 .. Len(c) : c[n].t <= t }

ValueAt(f, p, t) ==
  LET c == changes[f][p] IN
    IF UpTo(c, t) = {} THEN "x"
    ELSE c[CHOOSE n \in UpTo(c, t) : \A m \in UpTo(c, t) : m <= n].v

(* gold_by_base and mut_by_base: of the paths with one last component, the  *)
(* last stays in the dictionary.                                            *)
ByBase(b) ==
  Paths[CHOOSE n \in 1 .. Len(Paths) :
          Base[Paths[n]] = b /\ \A m \in n + 1 .. Len(Paths) : Base[Paths[m]] # b]

Differing(t) ==
  { n \in 1 .. Len(BaseNames) :
      ValueAt("golden", ByBase(BaseNames[n]), t) # ValueAt("mutant", ByBase(BaseNames[n]), t) }

(* Mutant of EndTime: the end of the longer trace. *)
LongerEnd == IF time["golden"] <= time["mutant"] THEN time["mutant"] ELSE time["golden"]

EndTime == IF time["golden"] <= time["mutant"] THEN time["golden"] ELSE time["mutant"]

Compare ==
  /\ stage = "compare" /\ at <= EndTime /\ Differing(at) = {}
  /\ at' = at + Period
  /\ UNCHANGED <<stage, lines, time, pending, changes, first, wave>>

Diverge ==
  /\ stage = "compare" /\ at <= EndTime /\ Differing(at) # {}
  /\ first' = [found |-> TRUE, t |-> at,
               base |-> BaseNames[CHOOSE n \in Differing(at) : \A m \in Differing(at) : n <= m]]
  /\ stage' = "done"
  /\ UNCHANGED <<lines, time, pending, changes, at, wave>>

Agree ==
  /\ stage = "compare" /\ at > EndTime
  /\ stage' = "done"
  /\ UNCHANGED <<lines, time, pending, changes, at, first, wave>>

Compared == stage = "done" /\ UNCHANGED tracesVars

TracesNext ==
  \/ \E f \in Traces :
       \/ \E t \in Times : Timestamp(f, t)
       \/ \E p \in Signal, v \in Values : Value(f, p, v)
       \/ EndOfFile(f)
  \/ Compare \/ Diverge \/ Agree \/ Compared

TracesSpec == TracesInit /\ [][TracesNext]_tracesVars

-----------------------------------------------------------------------------
(* PROPERTIES                                                              *)

IsRead(f) ==
  \/ f = "golden" /\ stage # "golden"
  \/ f = "mutant" /\ stage \in {"compare", "done"}

(***************************************************************************)
(* A trace that has been read gives every signal at every time the value   *)
(* of the dump, through values stated before the first timestamp, stated   *)
(* twice for one time, stated again without a change, or after a timestamp *)
(* that is repeated, and through the absence of any.                       *)
(***************************************************************************)
ReadsFaithfully ==
  \A f \in Traces : IsRead(f) =>
    \A p \in Signal, t \in Times : ValueAt(f, p, t) = wave[f][p][t]

(***************************************************************************)
(* What the tests of transitions require: its times ascend and no value    *)
(* repeats the one before.                                                 *)
(***************************************************************************)
OnlyChanges ==
  \A f \in Traces, p \in Signal :
    LET c == changes[f][p] IN
      \A n \in 1 .. Len(c) - 1 : c[n].t <= c[n + 1].t /\ c[n].v # c[n + 1].v

(***************************************************************************)
(* diff_traces finds the first sample, and the first name in it, at which  *)
(* the two dumps differ, up to the end of the shorter one; when it finds   *)
(* none there is no such sample.                                           *)
(***************************************************************************)
DiffersAt(t, b) == wave["golden"][ByBase(b)][t] # wave["mutant"][ByBase(b)][t]
Samples ==
  { t \in { n * Period : n \in 0 .. MaxTime } : t <= time["golden"] /\ t <= time["mutant"] }
Precedes(b, c) ==
  \E n, m \in 1 .. Len(BaseNames) : n < m /\ BaseNames[n] = b /\ BaseNames[m] = c

FirstDivergence ==
  stage = "done" =>
    IF first = None
    THEN \A t \in Samples, b \in Bases : ~DiffersAt(t, b)
    ELSE /\ first.t \in Samples /\ DiffersAt(first.t, first.base)
         /\ \A t \in Samples, b \in Bases :
              t < first.t \/ (t = first.t /\ Precedes(b, first.base)) => ~DiffersAt(t, b)
=============================================================================
