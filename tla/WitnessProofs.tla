--------------------------- MODULE WitnessProofs ---------------------------
(***************************************************************************)
(* The backward slice is exact for every source without selects, whatever  *)
(* its size and its cycles and in whatever order names are taken.  The     *)
(* investigation tools answer from traces of their own run and rank by a   *)
(* divergence that is there, whatever is called and whichever simulation   *)
(* fails.  Reading a dump loses nothing and the comparison finds the first *)
(* sample that differs, for dumps of any length over any signals and       *)
(* values.                                                                 *)
(***************************************************************************)
EXTENDS Coi, WitnessTools, Traces, WellFoundedInduction, TLAPS

-----------------------------------------------------------------------------
(* THE SLICE                                                               *)

LEMMA CoiTypeInit == CoiInit => CoiTypeOK
  BY SourcesAssumption DEF CoiInit, CoiStart, CoiTypeOK

(* What an assignment is: names in Signals, lines in Lines. *)
LEMMA AssignmentType ==
  ASSUME NEW a \in Assignments
  PROVE  /\ a.target \in Signals /\ a.line \in Lines
         /\ ConditionReads(a) \subseteq Signals /\ ConditionLines(a) \subseteq Lines
         /\ ReadSignals(a) \subseteq Signals /\ OwnLines(a) \subseteq Lines
<1>1. /\ a.target \in Signals /\ a.line \in Lines
      /\ a.whole \subseteq Signals /\ a.conditions \subseteq Conditions
  BY DEF Assignments
<1>2. ASSUME NEW c \in a.conditions
      PROVE  c.line \in Lines /\ c.whole \subseteq Signals
  BY <1>1 DEF Conditions
<1>3. ConditionReads(a) \subseteq Signals /\ ConditionLines(a) \subseteq Lines
  BY <1>2 DEF ConditionReads, ConditionLines
<1>4. QED BY <1>1, <1>3 DEF ReadSignals, OwnLines

LEMMA CoiTypeStep == CoiTypeOK /\ [CoiNext]_coiVars => CoiTypeOK'
<1> SUFFICES ASSUME CoiTypeOK, [CoiNext]_coiVars PROVE CoiTypeOK'
  OBVIOUS
<1>1. ASSUME NEW s \in Signals, Visit(s)
      PROVE  CoiTypeOK'
  <2>1. ASSUME NEW a \in Sites(s)
        PROVE  ReadSignals(a) \subseteq Signals /\ OwnLines(a) \subseteq Lines
    BY <2>1, AssignmentType DEF Sites, Recorded, CoiTypeOK
  <2>2. Pushed(s) \subseteq Signals
    BY <2>1 DEF Pushed
  <2>3. UNION { OwnLines(a) : a \in Sites(s) } \subseteq Lines
    BY <2>1
  <2>4. QED BY <1>1, <2>2, <2>3 DEF Visit, CoiTypeOK
<1>2. CASE UNCHANGED coiVars
  BY <1>2 DEF coiVars, CoiTypeOK
<1>3. QED BY <1>1, <1>2 DEF CoiNext, CoiEnded

(* The type invariant of the slice. *)
THEOREM CoiTypeCorrect == CoiSpec => []CoiTypeOK
<1>1. QED BY CoiTypeInit, CoiTypeStep, PTL DEF CoiSpec

(* No name is looked at twice. *)
THEOREM NeverTwiceCorrect == CoiSpec => []NeverTwice
<1>1. CoiInit => NeverTwice
  BY DEF CoiInit, CoiStart, NeverTwice
<1>2. NeverTwice /\ [CoiNext]_coiVars => NeverTwice'
  BY DEF NeverTwice, CoiNext, Visit, Pushed, CoiEnded, coiVars
<1>3. QED BY <1>1, <1>2, PTL DEF CoiSpec

-----------------------------------------------------------------------------
(* What the loop keeps true: the signal is known; every name that a visited *)
(* signal reads is known; the lines are those of the visited signals; and   *)
(* what is known belongs to every closed set around the signal.             *)
Known == visited \cup frontier

ReadsKnown ==
  \A a \in Recorded : a.target \in visited => ReadSignals(a) \subseteq Known

SeenIsVisited ==
  \A l : l \in seen <=> \E a \in Recorded : a.target \in visited /\ l \in OwnLines(a)

KnownIsNeeded ==
  \A S \in SUBSET Signals :
    signal \in S /\ (\A a \in Recorded : a.target \in S => ReadSignals(a) \subseteq S)
      => Known \subseteq S

SliceInv == signal \in Known /\ ReadsKnown /\ SeenIsVisited /\ KnownIsNeeded

LEMMA SliceInit == CoiInit => SliceInv
  BY DEF CoiInit, CoiStart, SliceInv, Known, ReadsKnown, SeenIsVisited, KnownIsNeeded

LEMMA SliceStep == SliceInv /\ [CoiNext]_coiVars => SliceInv'
<1> SUFFICES ASSUME SliceInv, [CoiNext]_coiVars PROVE SliceInv'
  OBVIOUS
<1>1. ASSUME NEW s \in Signals, Visit(s)
      PROVE  SliceInv'
  <2> USE DEF Visit
  <2>1. /\ source' = source /\ Recorded' = Recorded /\ signal' = signal /\ s \in frontier
        /\ visited' = visited \cup {s}
        /\ Known' = Known \cup UNION { ReadSignals(a) : a \in Sites(s) }
    BY <1>1 DEF Known, Pushed, Recorded
  <2>2. (signal \in Known)'
    BY <2>1 DEF SliceInv
  <2>3. ReadsKnown'
    <3> SUFFICES ASSUME NEW a \in Recorded, a.target \in visited \cup {s}
                 PROVE  ReadSignals(a) \subseteq Known'
      BY <2>1 DEF ReadsKnown, ReadSignals, ConditionReads
    <3>1. CASE a.target \in visited
      BY <3>1, <2>1 DEF SliceInv, ReadsKnown
    <3>2. CASE a.target = s
      BY <3>2, <2>1 DEF Sites
    <3>3. QED BY <3>1, <3>2
  <2>4. SeenIsVisited'
    <3>1. seen' = seen \cup UNION { OwnLines(a) : a \in Sites(s) }
      BY <1>1
    <3> SUFFICES ASSUME NEW l
                 PROVE  l \in seen' <=>
                          \E a \in Recorded : a.target \in visited \cup {s} /\ l \in OwnLines(a)
      BY <2>1 DEF SeenIsVisited, OwnLines, ConditionLines
    <3>2. l \in seen <=> \E a \in Recorded : a.target \in visited /\ l \in OwnLines(a)
      BY DEF SliceInv, SeenIsVisited
    <3>3. l \in UNION { OwnLines(a) : a \in Sites(s) } <=>
            \E a \in Recorded : a.target = s /\ l \in OwnLines(a)
      BY DEF Sites
    <3>4. QED BY <3>1, <3>2, <3>3
  <2>5. KnownIsNeeded'
    <3> SUFFICES ASSUME NEW S \in SUBSET Signals, signal \in S,
                        \A a \in Recorded : a.target \in S => ReadSignals(a) \subseteq S
                 PROVE  Known' \subseteq S
      BY <2>1 DEF KnownIsNeeded, ReadSignals, ConditionReads
    <3>1. Known \subseteq S
      BY DEF SliceInv, KnownIsNeeded
    <3>2. s \in S
      BY <3>1, <2>1 DEF Known
    <3>3. UNION { ReadSignals(a) : a \in Sites(s) } \subseteq S
      BY <3>2 DEF Sites
    <3>4. QED BY <3>1, <3>3, <2>1
  <2>6. QED BY <2>2, <2>3, <2>4, <2>5 DEF SliceInv
<1>2. CASE UNCHANGED coiVars
  BY <1>2 DEF coiVars, SliceInv, Known, ReadsKnown, SeenIsVisited, KnownIsNeeded,
              ReadSignals, ConditionReads, OwnLines, ConditionLines, Recorded
<1>3. QED BY <1>1, <1>2 DEF CoiNext, CoiEnded

(* Without selects every assignment is found, and a set is closed if and    *)
(* only if it is closed under the names the index records.                  *)
LEMMA ClosedReads ==
  ASSUME NoSelects, NEW S
  PROVE  /\ Recorded = source
         /\ Closed(S) <=> \A a \in source : a.target \in S => ReadSignals(a) \subseteq S
<1>1. ASSUME NEW a \in source, a.target \in S
      PROVE  Depends(a) \subseteq S <=> ReadSignals(a) \subseteq S
  <2>1. Depends(a) = a.whole \cup ConditionReads(a)
    BY DEF NoSelects, Depends, ConditionReads
  <2>2. QED BY <1>1, <2>1 DEF ReadSignals
<1>2. Recorded = source
  BY DEF Recorded, NoSelects
<1>3. QED BY <1>1, <1>2 DEF Closed

(* When the loop ends, what is visited is the least closed set.             *)
LEMMA SliceEnds == CoiTypeOK /\ SliceInv => SliceExact
<1> SUFFICES ASSUME CoiTypeOK, SliceInv, Sliced, NoSelects
             PROVE  seen = AffectingLines
  BY DEF SliceExact
<1>1. Known = visited /\ signal \in visited /\ visited \in SUBSET Signals
  BY DEF Sliced, Known, SliceInv, CoiTypeOK
<1>2. Closed(visited)
  BY <1>1, ClosedReads DEF SliceInv, ReadsKnown
<1>3. ASSUME NEW S \in SUBSET Signals, signal \in S, Closed(S)
      PROVE  visited \subseteq S
  BY <1>1, <1>3, ClosedReads DEF SliceInv, KnownIsNeeded
<1>4. ASSUME NEW l \in seen
      PROVE  l \in AffectingLines
  <2>1. PICK a \in source : a.target \in visited /\ l \in OwnLines(a)
    BY <1>4, ClosedReads DEF SliceInv, SeenIsVisited
  <2>2. l \in Lines
    BY <1>4 DEF CoiTypeOK
  <2>3. ASSUME NEW S \in SUBSET Signals, signal \in S, Closed(S)
        PROVE  \E b \in source : b.target \in S /\ l \in Affecting(b)
    BY <2>1, <2>3, <1>3 DEF Affecting, OwnLines, ConditionLines
  <2>4. QED BY <2>2, <2>3 DEF AffectingLines
<1>5. ASSUME NEW l \in AffectingLines
      PROVE  l \in seen
  <2>1. \E a \in source : a.target \in visited /\ l \in OwnLines(a)
    BY <1>1, <1>2, <1>5, ClosedReads DEF AffectingLines, Affecting, OwnLines, ConditionLines
  <2>2. QED BY <2>1, ClosedReads DEF SliceInv, SeenIsVisited
<1>6. QED BY <1>4, <1>5

(* For every source without selects, the slice is the set of lines that     *)
(* affect the signal, no more and no less.                                  *)
THEOREM SliceExactCorrect == CoiSpec => []SliceExact
<1>1. QED
  BY CoiTypeCorrect, SliceInit, SliceStep, SliceEnds, PTL DEF CoiSpec

-----------------------------------------------------------------------------
(* THE TOOLS                                                               *)

(* What a run keeps true of its context: traces it points to are its own,   *)
(* the divergence it remembers is one of these designs, and none is missing *)
(* once the designs were compared in the default scope.                     *)
ContextInv ==
  /\ ToolsTypeOK
  /\ ctx.vcd => files = [golden |-> run, mutant |-> run]
  /\ ctx.found = NoDivergence \/ \E s \in Scopes : ctx.found = truth[s]
  /\ ctx.vcd /\ truth["dut"] # NoDivergence => ctx.found # NoDivergence
  /\ ReadsOwnTraces /\ RankedDivergenceIsReal /\ RankKnowsDivergence

(* What a tool goes on with once its traces are there.                      *)
Ready(after) ==
  /\ after.files = [golden |-> run, mutant |-> run] /\ after.ctx.vcd
  /\ after.ctx.found = NoDivergence \/ \E s \in Scopes : after.ctx.found = truth[s]
  /\ truth["dut"] # NoDivergence => after.ctx.found # NoDivergence

Typed(after) ==
  after \in [ok: BOOLEAN, files: FilesType, ctx: [vcd: BOOLEAN, found: Found], latest: Found]

LEMMA FilesRun == ToolsTypeOK => [golden |-> run, mutant |-> run] \in FilesType
  BY MaxRunsAssumption DEF ToolsTypeOK, FilesType

LEMMA ToolsInitInv == ToolsInit => ContextInv
<1> SUFFICES ASSUME ToolsInit PROVE ContextInv
  OBVIOUS
<1>0. 0 \in 0 .. MaxRuns /\ 1 \in 1 .. MaxRuns
  BY MaxRunsAssumption
<1>1. ToolsTypeOK
  BY <1>0 DEF ToolsInit, ToolsStart, ToolsTypeOK, NewContext, Error, Found, FilesType,
                Answers
<1> QED
  BY <1>1 DEF ToolsInit, ToolsStart, ContextInv, NewContext, Error,
              ReadsOwnTraces, RankedDivergenceIsReal, RankKnowsDivergence

(* dispatch_run_test leaves typed files and context, its own when it ends.  *)
LEMMA TestedReady ==
  ASSUME ContextInv, NEW golden \in BOOLEAN, NEW mutant \in BOOLEAN
  PROVE  /\ Typed(Tested(golden, mutant))
         /\ Tested(golden, mutant).ok => Ready(Tested(golden, mutant))
         /\ ctx.vcd => Tested(golden, mutant).files = [golden |-> run, mutant |-> run]
<1> DEFINE d == truth["dut"]
<1>1. /\ d \in Found /\ ctx.found \in Found /\ ctx \in [vcd: BOOLEAN, found: Found]
      /\ files \in FilesType /\ latest \in Found /\ run \in 0 .. MaxRuns
      /\ "dut" \in Scopes
  BY ScopesAssumption, MaxRunsAssumption DEF ContextInv, ToolsTypeOK
<1>2. /\ Remember(ctx.found, d) \in Found
      /\ d # NoDivergence => Remember(ctx.found, d) # NoDivergence
      /\ \/ Remember(ctx.found, d) = NoDivergence
         \/ \E s \in Scopes : Remember(ctx.found, d) = truth[s]
  BY <1>1 DEF Remember, ContextInv
<1>3. Typed(Tested(golden, mutant))
  BY <1>1, <1>2 DEF Typed, Tested, FilesType
<1>4. Tested(golden, mutant).ok => Ready(Tested(golden, mutant))
  BY <1>2 DEF Tested, Ready
<1>5. ctx.vcd => Tested(golden, mutant).files = [golden |-> run, mutant |-> run]
  BY DEF Tested, ContextInv
<1> QED
  BY <1>3, <1>4, <1>5

(* _ensure_run leaves the same, at once when the run has its traces.        *)
LEMMA EnsuredReady ==
  ASSUME ContextInv, NEW golden \in BOOLEAN, NEW mutant \in BOOLEAN
  PROVE  /\ Typed(Ensured(golden, mutant))
         /\ Ensured(golden, mutant).ok => Ready(Ensured(golden, mutant))
         /\ ctx.vcd => Ensured(golden, mutant).files = [golden |-> run, mutant |-> run]
<1>1. CASE ctx.vcd
  <2>1. /\ Ensured(golden, mutant) = [ok |-> TRUE, files |-> files, ctx |-> ctx, latest |-> latest]
        /\ files = [golden |-> run, mutant |-> run]
    BY <1>1 DEF Ensured, ContextInv
  <2> QED
    BY <1>1, <2>1 DEF Typed, Ready, ContextInv, ToolsTypeOK
<1>2. CASE ~ctx.vcd
  BY <1>2, TestedReady DEF Ensured
<1> QED
  BY <1>1, <1>2

(* Whatever the agent names, the time stays.                                *)
LEMMA RankedByType ==
  ASSUME NEW name \in AgentSignals \cup {NoName}, NEW d \in [signal: STRING, time: Nat]
  PROVE  /\ RankedBy(name, d) \in [signal: STRING, time: Nat]
         /\ RankedBy(name, d).time = d.time
         /\ name = NoName => RankedBy(name, d) = d
<1>1. CASE name = NoName
  BY <1>1 DEF RankedBy
<1>2. CASE name # NoName
  <2>1. name \in STRING
    BY <1>2, AgentSignalsAssumption
  <2> QED
    BY <1>2, <2>1 DEF RankedBy
<1> QED
  BY <1>1, <1>2

(* A tool that answers or raises once its traces are there.                 *)
LEMMA AnswerStep ==
  ASSUME ContextInv, NEW after, Typed(after), Ready(after),
         files' = after.files, run' = run, truth' = truth, latest' \in Found,
         ctx'.vcd = after.ctx.vcd, ctx' \in [vcd: BOOLEAN, found: Found],
         ctx'.found = after.ctx.found
           \/ (ctx'.found \in Divergences /\ \E s \in Scopes : ctx'.found = truth[s]),
         answer' \in Answers,
         answer'.tool # "error" => answer'.files = after.files,
         answer'.tool = "suspect_rank" =>
           /\ after.ctx.found # NoDivergence
           /\ answer'.found.time = after.ctx.found.time
           /\ answer'.named = NoName => answer'.found = after.ctx.found,
         answer'.tool = "unknown" => after.ctx.found = NoDivergence
  PROVE  ContextInv'
<1>1. ToolsTypeOK'
  BY DEF ContextInv, ToolsTypeOK, Typed
<1>2. ReadsOwnTraces' /\ RankedDivergenceIsReal' /\ RankKnowsDivergence'
  BY DEF Ready, ReadsOwnTraces, RankedDivergenceIsReal, RankKnowsDivergence
<1>3. /\ ctx'.vcd => files' = [golden |-> run', mutant |-> run']
      /\ ctx'.found = NoDivergence \/ \E s \in Scopes : ctx'.found = truth'[s]
      /\ ctx'.vcd /\ truth'["dut"] # NoDivergence => ctx'.found # NoDivergence
  BY DivergencesAssumption DEF Ready
<1> QED
  BY <1>1, <1>2, <1>3 DEF ContextInv

(* A tool that fails for want of its traces.                                *)
LEMMA FailStep ==
  ASSUME ContextInv, NEW after, Typed(after), Fails(after),
         ctx.vcd => after.files = [golden |-> run, mutant |-> run]
  PROVE  ContextInv'
<1>1. /\ files' \in FilesType /\ answer' = Error
      /\ run' = run /\ truth' = truth /\ ctx' = ctx /\ latest' = latest
      /\ files' = after.files
  BY DEF Fails, Typed
<1>2. Error \in Answers /\ Error.tool = "error"
  BY MaxRunsAssumption DEF Error, FilesType, Answers
<1>3. ToolsTypeOK'
  BY <1>1, <1>2 DEF ContextInv, ToolsTypeOK
<1> QED
  BY <1>1, <1>2, <1>3
     DEF ContextInv, ReadsOwnTraces, RankedDivergenceIsReal, RankKnowsDivergence

LEMMA ToolsStep == ContextInv /\ [ToolsNext]_toolsVars => ContextInv'
<1> SUFFICES ASSUME ContextInv, [ToolsNext]_toolsVars PROVE ContextInv'
  OBVIOUS
<1>0. /\ truth \in [Scopes -> Found] /\ "dut" \in Scopes /\ NoDivergence \in Found
      /\ Found \subseteq [signal: STRING, time: Nat] \cup {NoDivergence}
      /\ Error \in Answers /\ Error.tool = "error"
  BY ScopesAssumption, DivergencesAssumption, MaxRunsAssumption
     DEF ContextInv, ToolsTypeOK, Error, FilesType, Found, Answers
<1>1. ASSUME NEW golden \in BOOLEAN, NEW mutant \in BOOLEAN, RunTest(golden, mutant)
      PROVE  ContextInv'
  <2> DEFINE after == Tested(golden, mutant)
  <2>1. Typed(after) /\ Ready(after)
    BY <1>1, TestedReady DEF RunTest
  <2>2. /\ files' = after.files /\ ctx' = after.ctx /\ latest' = after.latest
        /\ run' = run /\ truth' = truth
        /\ answer' = [tool |-> "run_test", files |-> after.files, found |-> truth["dut"],
                      named |-> NoName]
    BY <1>1 DEF RunTest, Answer
  <2> HIDE DEF after
  <2> QED
    BY <1>0, <2>1, <2>2, AnswerStep DEF Typed, Answers
<1>2. ASSUME NEW golden \in BOOLEAN, NEW mutant \in BOOLEAN, WaveQuery(golden, mutant)
      PROVE  ContextInv'
  <2> DEFINE after == Ensured(golden, mutant)
  <2>1. Typed(after) /\ Ready(after)
    BY <1>2, EnsuredReady DEF WaveQuery
  <2>2. /\ files' = after.files /\ ctx' = after.ctx /\ latest' = after.latest
        /\ run' = run /\ truth' = truth
        /\ answer' = [tool |-> "wave_query", files |-> after.files, found |-> NoDivergence,
                      named |-> NoName]
    BY <1>2 DEF WaveQuery, Answer
  <2> HIDE DEF after
  <2> QED
    BY <1>0, <2>1, <2>2, AnswerStep DEF Typed, Answers
<1>3. ASSUME NEW golden \in BOOLEAN, NEW mutant \in BOOLEAN, NEW scope \in Scopes,
             DiffTraces(scope, golden, mutant)
      PROVE  ContextInv'
  <2> DEFINE after == Ensured(golden, mutant)
  <2>1. Typed(after) /\ Ready(after)
    BY <1>3, EnsuredReady DEF DiffTraces
  <2>2. /\ files' = after.files /\ latest' = truth[scope]
        /\ ctx' = [after.ctx EXCEPT !.found = Remember(after.ctx.found, truth[scope])]
        /\ run' = run /\ truth' = truth
        /\ answer' = [tool |-> "diff_traces", files |-> after.files, found |-> truth[scope],
                      named |-> NoName]
    BY <1>3, <2>1 DEF DiffTraces, Answer, Typed
  <2> HIDE DEF after
  <2>3. /\ truth[scope] \in Found /\ after.ctx \in [vcd: BOOLEAN, found: Found]
        /\ after.files \in FilesType
    BY <1>0, <2>1 DEF Typed
  <2>4. /\ ctx' \in [vcd: BOOLEAN, found: Found] /\ ctx'.vcd = after.ctx.vcd
        /\ ctx'.found = after.ctx.found
             \/ (ctx'.found \in Divergences /\ \E s \in Scopes : ctx'.found = truth[s])
    BY <2>2, <2>3 DEF Remember, Found
  <2>5. answer' \in Answers /\ answer'.tool = "diff_traces" /\ answer'.files = after.files
    BY <1>0, <2>2, <2>3 DEF Answers
  <2> QED
    BY <2>1, <2>2, <2>3, <2>4, <2>5, AnswerStep
<1>4. ASSUME NEW golden \in BOOLEAN, NEW mutant \in BOOLEAN,
             NEW name \in AgentSignals \cup {NoName}, SuspectRank(name, golden, mutant)
      PROVE  ContextInv'
  <2> DEFINE after == Ensured(golden, mutant)
             ranked == RankedBy(name, after.ctx.found)
  <2>1. Typed(after) /\ Ready(after)
    BY <1>4, EnsuredReady DEF SuspectRank
  <2>2. /\ files' = after.files /\ ctx' = after.ctx /\ latest' = after.latest
        /\ run' = run /\ truth' = truth
        /\ answer' = [tool |-> IF after.ctx.found # NoDivergence THEN "suspect_rank"
                               ELSE "unknown",
                      files |-> after.files,
                      found |-> IF after.ctx.found # NoDivergence THEN ranked
                                ELSE NoDivergence,
                      named |-> name]
    BY <1>4 DEF SuspectRank
  <2>3. ASSUME after.ctx.found # NoDivergence
        PROVE  /\ ranked \in [signal: STRING, time: Nat]
               /\ ranked.time = after.ctx.found.time
               /\ name = NoName => ranked = after.ctx.found
    <3>1. after.ctx.found \in [signal: STRING, time: Nat]
      BY <2>1, <2>3, DivergencesAssumption DEF Typed, Found
    <3> QED
      BY <3>1, RankedByType
  <2> HIDE DEF after, ranked
  <2>4. /\ answer' \in Answers /\ answer'.files = after.files
        /\ answer'.tool = "suspect_rank" =>
             /\ after.ctx.found # NoDivergence
             /\ answer'.found.time = after.ctx.found.time
             /\ answer'.named = NoName => answer'.found = after.ctx.found
        /\ answer'.tool = "unknown" => after.ctx.found = NoDivergence
    BY <2>1, <2>2, <2>3 DEF Typed, Answers
  <2>5. latest' \in Found /\ ctx' \in [vcd: BOOLEAN, found: Found]
    BY <2>1, <2>2 DEF Typed
  <2> QED
    BY <2>1, <2>2, <2>4, <2>5, AnswerStep
<1>5. ASSUME NEW golden \in BOOLEAN, NEW mutant \in BOOLEAN, QueryRaises(golden, mutant)
      PROVE  ContextInv'
  <2> DEFINE after == Ensured(golden, mutant)
  <2>1. Typed(after) /\ Ready(after)
    BY <1>5, EnsuredReady DEF QueryRaises
  <2>2. /\ files' = after.files /\ ctx' = after.ctx /\ latest' = after.latest
        /\ run' = run /\ truth' = truth /\ answer' = Error
    BY <1>5 DEF QueryRaises
  <2> HIDE DEF after
  <2> QED
    BY <1>0, <2>1, <2>2, AnswerStep DEF Typed
<1>6. ASSUME NEW golden \in BOOLEAN, NEW mutant \in BOOLEAN,
             RunTestFails(golden, mutant) \/ EnsureFails(golden, mutant)
      PROVE  ContextInv'
  BY <1>6, TestedReady, EnsuredReady, FailStep DEF RunTestFails, EnsureFails
<1>7. CASE NextRun
  <2>1. run' \in 1 .. MaxRuns /\ run' = run + 1
    BY <1>7, MaxRunsAssumption DEF NextRun, ContextInv, ToolsTypeOK
  <2>2. ToolsTypeOK'
    BY <1>0, <1>7, <2>1 DEF NextRun, ContextInv, ToolsTypeOK, NewContext
  <2> QED
    BY <1>0, <1>7, <2>2 DEF NextRun, ContextInv, NewContext,
                     ReadsOwnTraces, RankedDivergenceIsReal, RankKnowsDivergence
<1>8. CASE UNCHANGED toolsVars
  BY <1>8 DEF toolsVars, ContextInv, ToolsTypeOK,
              ReadsOwnTraces, RankedDivergenceIsReal, RankKnowsDivergence
<1> QED
  BY <1>1, <1>2, <1>3, <1>4, <1>5, <1>6, <1>7, <1>8 DEF ToolsNext

LEMMA ContextCorrect == ToolsSpec => []ContextInv
<1> QED
  BY ToolsInitInv, ToolsStep, PTL DEF ToolsSpec

(* No answer of a tool comes from the traces of an earlier run.             *)
THEOREM ReadsOwnTracesCorrect == ToolsSpec => []ReadsOwnTraces
<1>1. ContextInv => ReadsOwnTraces
  BY DEF ContextInv
<1> QED
  BY <1>1, ContextCorrect, PTL

(* What suspect_rank ranks by is the time of a divergence of the two        *)
(* designs, and its signal too unless the agent names one.                  *)
THEOREM RankedDivergenceCorrect == ToolsSpec => []RankedDivergenceIsReal
<1>1. ContextInv => RankedDivergenceIsReal
  BY DEF ContextInv
<1> QED
  BY <1>1, ContextCorrect, PTL

(* The ranking has a divergence to go by whenever the DUT shows one.        *)
THEOREM RankKnowsCorrect == ToolsSpec => []RankKnowsDivergence
<1>1. ContextInv => RankKnowsDivergence
  BY DEF ContextInv
<1> QED
  BY <1>1, ContextCorrect, PTL

-----------------------------------------------------------------------------
(* THE DUMPS                                                               *)

(* A set of numbers has a least one, and a greatest one if it is bounded.   *)
LEMMA Least ==
  ASSUME NEW S \in SUBSET Nat, S # {}
  PROVE  \E n \in S : \A m \in S : n <= m
<1>1. PICK n \in S : \A m \in S : ~(<<m, n>> \in OpToRel(<, Nat))
  BY WFMin, NatLessThanWellFounded
<1>2. \A m \in S : n <= m
  <2> TAKE m \in S
  <2>1. <<m, n>> \in Nat \X Nat /\ n \in Nat /\ m \in Nat
    OBVIOUS
  <2>2. ~(m < n)
    BY <1>1, <2>1 DEF OpToRel
  <2> QED
    BY <2>1, <2>2
<1> QED
  BY <1>2

LEMMA Greatest ==
  ASSUME NEW N \in Nat, NEW S \in SUBSET (0 .. N), S # {}
  PROVE  \E n \in S : \A m \in S : m <= n
<1> DEFINE R == { N - n : n \in S }
<1>1. R \in SUBSET Nat /\ R # {}
  <2>1. \A n \in S : N - n \in Nat
    OBVIOUS
  <2> QED
    BY <2>1
<1> HIDE DEF R
<1>2. PICK r \in R : \A q \in R : r <= q
  BY <1>1, Least
<1>3. PICK n \in S : r = N - n
  BY DEF R
<1>4. \A m \in S : m <= n
  <2> TAKE m \in S
  <2>1. r <= N - m
    BY <1>2 DEF R
  <2>2. m \in 0 .. N /\ n \in 0 .. N
    OBVIOUS
  <2> QED
    BY <1>3, <2>1, <2>2
<1> QED
  BY <1>4

Change == [t : Times, v : Values]

(* The changes kept of one signal: none after T, ascending, none repeated.  *)
Ascends(c, T) ==
  /\ c \in Seq(Change)
  /\ \A n \in 1 .. Len(c) : c[n].t <= T
  /\ \A m, n \in 1 .. Len(c) : m <= n => c[m].t <= c[n].t
  /\ \A n \in 1 .. Len(c) - 1 : c[n].v # c[n + 1].v

(* What a list of changes says of time t. *)
LastOf(S) == CHOOSE n \in S : \A m \in S : m <= n
Says(c, t) == IF UpTo(c, t) = {} THEN "x" ELSE c[LastOf(UpTo(c, t))].v

LEMMA ValueAtSays ==
  ASSUME NEW f, NEW p, NEW t PROVE ValueAt(f, p, t) = Says(changes[f][p], t)
  BY DEF ValueAt, Says, LastOf

(* The changes up to t are the first few of an ascending list.              *)
LEMMA SaysLast ==
  ASSUME NEW T \in Times, NEW c, Ascends(c, T), NEW t \in Times, T <= t
  PROVE  Says(c, t) = IF c = <<>> THEN "x" ELSE c[Len(c)].v
<1>0. Len(c) \in Nat /\ (c = <<>> <=> Len(c) = 0)
  BY DEF Ascends
<1>1. UpTo(c, t) = 1 .. Len(c)
  <2>1. \A n \in 1 .. Len(c) : c[n].t <= t
    <3> TAKE n \in 1 .. Len(c)
    <3>1. c[n] \in Change /\ c[n].t <= T
      BY DEF Ascends
    <3> QED
      BY <3>1, TracesAssumption DEF Change, Times
  <2> QED
    BY <2>1 DEF UpTo
<1>2. CASE c = <<>>
  BY <1>0, <1>1, <1>2 DEF Says
<1>3. CASE c # <<>>
  <2> DEFINE k == LastOf(UpTo(c, t))
  <2>1. Len(c) \in UpTo(c, t) /\ \A m \in UpTo(c, t) : m <= Len(c)
    BY <1>0, <1>1, <1>3
  <2>2. k \in UpTo(c, t) /\ \A m \in UpTo(c, t) : m <= k
    BY <2>1 DEF LastOf
  <2>3. Says(c, t) = c[k].v
    BY <2>1 DEF Says
  <2> HIDE DEF k
  <2>4. k = Len(c)
    BY <1>0, <1>1, <2>1, <2>2
  <2> QED
    BY <1>3, <2>3, <2>4
<1> QED
  BY <1>2, <1>3

(* A change at T says nothing of the times before it.                       *)
LEMMA SaysBefore ==
  ASSUME NEW T \in Times, NEW c, Ascends(c, T), NEW t \in Times, t < T,
         NEW x \in Change, x.t = T
  PROVE  Says(Append(c, x), t) = Says(c, t)
<1>0. /\ Len(c) \in Nat /\ c \in Seq(Change) /\ Len(Append(c, x)) = Len(c) + 1
      /\ Append(c, x)[Len(c) + 1] = x
      /\ \A n \in 1 .. Len(c) : Append(c, x)[n] = c[n]
  BY DEF Ascends
<1>1. UpTo(Append(c, x), t) = UpTo(c, t)
  <2>1. T \in Nat /\ t \in Nat /\ ~(x.t <= t)
    BY TracesAssumption DEF Times
  <2> QED
    BY <1>0, <2>1 DEF UpTo
<1>2. ASSUME UpTo(c, t) # {}
      PROVE  Append(c, x)[LastOf(UpTo(c, t))] = c[LastOf(UpTo(c, t))]
  <2> DEFINE k == LastOf(UpTo(c, t))
  <2>1. \E n \in UpTo(c, t) : \A m \in UpTo(c, t) : m <= n
    <3>1. UpTo(c, t) \in SUBSET (0 .. Len(c))
      BY <1>0 DEF UpTo
    <3> QED
      BY <1>0, <1>2, <3>1, Greatest
  <2>2. k \in UpTo(c, t)
    BY <2>1 DEF LastOf
  <2> QED
    BY <1>0, <2>2 DEF UpTo
<1> QED
  BY <1>1, <1>2 DEF Says
-----------------------------------------------------------------------------
(* READING                                                                 *)

TracesTypeOK ==
  /\ stage \in {"golden", "mutant", "compare", "done"}
  /\ time \in [Traces -> Times]
  /\ DOMAIN changes = Traces /\ \A f \in Traces : DOMAIN changes[f] = Signal
  /\ wave \in [Traces -> [Signal -> [Times -> Values]]]
  /\ DOMAIN pending = Traces
  /\ \A f \in Traces : \A p \in DOMAIN pending[f] : pending[f][p] \in Values

(* A value read since the last timestamp holds from then on; before it, and *)
(* for the other signals, the changes kept say what the dump says.          *)
ReadInv ==
  /\ TracesTypeOK
  /\ \A f \in Traces, p \in Signal : Ascends(changes[f][p], time[f])
  /\ \A f \in Traces, p \in Signal, t \in Times :
       wave[f][p][t] = IF p \in DOMAIN pending[f] /\ t >= time[f] THEN pending[f][p]
                       ELSE Says(changes[f][p], t)
  /\ \A f \in Traces : IsRead(f) => DOMAIN pending[f] = {}

LEMMA AscendsLater ==
  ASSUME NEW T \in Times, NEW U \in Times, T <= U, NEW c, Ascends(c, T)
  PROVE  Ascends(c, U)
<1>1. \A n \in 1 .. Len(c) : c[n].t <= U
  <2> TAKE n \in 1 .. Len(c)
  <2>1. c[n] \in Change /\ c[n].t <= T
    BY DEF Ascends
  <2> QED
    BY <2>1, TracesAssumption DEF Change, Times
<1> QED
  BY <1>1 DEF Ascends

(* flush, for one signal. *)
Kept(c, T, v) == IF ~Repeats(c, v) THEN Append(c, [t |-> T, v |-> v]) ELSE c

LEMMA KeptAscends ==
  ASSUME NEW T \in Times, NEW c, Ascends(c, T), NEW v \in Values
  PROVE  Ascends(Kept(c, T, v), T)
<1> DEFINE x == [t |-> T, v |-> v]
           d == Append(c, x)
<1>0. x \in Change /\ x.t = T /\ x.v = v /\ T \in Nat
  BY TracesAssumption DEF Change, Times
<1> HIDE DEF x
<1>1. CASE Repeats(c, v)
  BY <1>1 DEF Kept
<1>2. CASE ~Repeats(c, v)
  <2>1. /\ c \in Seq(Change) /\ Len(c) \in Nat /\ d \in Seq(Change) /\ Len(d) = Len(c) + 1
        /\ d[Len(c) + 1] = x
        /\ \A n \in 1 .. Len(c) : d[n] = c[n]
    BY <1>0 DEF Ascends
  <2> HIDE DEF d
  <2>2. \A n \in 1 .. Len(d) : n \in 1 .. Len(c) \/ n = Len(c) + 1
    BY <2>1
  <2>3. \A n \in 1 .. Len(d) : d[n].t <= T
    BY <1>0, <2>1, <2>2 DEF Ascends
  <2>4. \A m, n \in 1 .. Len(d) : m <= n => d[m].t <= d[n].t
    <3> TAKE m, n \in 1 .. Len(d)
    <3>1. CASE n \in 1 .. Len(c)
      <4>1. m <= n => m \in 1 .. Len(c)
        BY <2>1, <3>1
      <4> QED
        BY <2>1, <3>1, <4>1 DEF Ascends
    <3>2. CASE n = Len(c) + 1
      BY <1>0, <2>1, <2>3, <3>2
    <3> QED
      BY <2>2, <3>1, <3>2
  <2>5. \A n \in 1 .. Len(d) - 1 : d[n].v # d[n + 1].v
    <3> TAKE n \in 1 .. Len(d) - 1
    <3>0. n \in 1 .. Len(c) /\ n + 1 \in 1 .. Len(d)
      BY <2>1
    <3>1. CASE n + 1 \in 1 .. Len(c)
      <4>1. n \in 1 .. Len(c) - 1
        BY <2>1, <3>0, <3>1
      <4> QED
        BY <2>1, <3>0, <3>1, <4>1 DEF Ascends
    <3>2. CASE n + 1 = Len(c) + 1
      <4>1. n = Len(c) /\ c # <<>>
        BY <2>1, <3>0, <3>2
      <4>2. c[n].v # v
        BY <1>2, <4>1 DEF Repeats
      <4> QED
        BY <1>0, <2>1, <3>0, <3>2, <4>2
    <3> QED
      BY <2>2, <3>0, <3>1, <3>2
  <2>6. Ascends(d, T)
    BY <2>1, <2>3, <2>4, <2>5 DEF Ascends
  <2> QED
    BY <1>2, <2>6 DEF Kept, d, x
<1> QED
  BY <1>1, <1>2

LEMMA KeptSays ==
  ASSUME NEW T \in Times, NEW c, Ascends(c, T), NEW v \in Values, NEW t \in Times
  PROVE  Says(Kept(c, T, v), t) = IF t >= T THEN v ELSE Says(c, t)
<1> DEFINE x == [t |-> T, v |-> v]
           d == Append(c, x)
<1>0. x \in Change /\ x.t = T /\ x.v = v /\ T \in Nat /\ t \in Nat
  BY TracesAssumption DEF Change, Times
<1>1. Ascends(Kept(c, T, v), T)
  BY KeptAscends
<1> HIDE DEF x
<1>2. CASE Repeats(c, v)
  <2>1. Kept(c, T, v) = c /\ c # <<>> /\ c[Len(c)].v = v
    BY <1>2 DEF Kept, Repeats
  <2>2. t >= T => Says(c, t) = v
    BY <1>0, <2>1, SaysLast
  <2> QED
    BY <1>0, <2>1, <2>2
<1>3. CASE ~Repeats(c, v)
  <2>1. Kept(c, T, v) = d
    BY <1>3 DEF Kept, x
  <2>2. c \in Seq(Change)
    BY DEF Ascends
  <2>3. d # <<>> /\ d[Len(d)] = x
    BY <1>0, <2>2
  <2>4. t >= T => Says(d, t) = v
    BY <1>0, <1>1, <2>1, <2>3, SaysLast
  <2>5. t < T => Says(d, t) = Says(c, t)
    BY <1>0, SaysBefore
  <2> QED
    BY <1>0, <2>1, <2>4, <2>5
<1> QED
  BY <1>2, <1>3

LEMMA ReadInit == TracesInit => ReadInv
<1> SUFFICES ASSUME TracesInit PROVE ReadInv
  OBVIOUS
<1>0. 0 \in Times
  BY TracesAssumption DEF Times
<1>1. TracesTypeOK
  BY <1>0 DEF TracesInit, TracesTypeOK, Nothing, Values
<1>2. ASSUME NEW f \in Traces, NEW p \in Signal
      PROVE  /\ changes[f][p] = <<>> /\ time[f] = 0 /\ Ascends(<<>>, 0)
             /\ \A t \in Times : wave[f][p][t] = "x" /\ Says(<<>>, t) = "x"
  BY DEF TracesInit, Ascends, Says, UpTo
<1>3. \A f \in Traces : DOMAIN pending[f] = {}
  BY DEF TracesInit, Nothing
<1> QED
  BY <1>1, <1>2, <1>3 DEF ReadInv

(* flush, when a timestamp or the end of the file is read.                  *)
LEMMA FlushStep ==
  ASSUME ReadInv, NEW f \in Traces,
         stage' \in {"golden", "mutant", "compare", "done"},
         changes' = [changes EXCEPT ![f] = Flushed(f)],
         pending' = [pending EXCEPT ![f] = Nothing],
         NEW t \in Times, t >= time[f], time' = [time EXCEPT ![f] = t],
         wave' = wave,
         \A g \in Traces : IsRead(g)' => g = f \/ IsRead(g)
  PROVE  ReadInv'
<1>0. /\ time \in [Traces -> Times] /\ time' \in [Traces -> Times] /\ time'[f] = t
      /\ \A g \in Traces : g # f => time'[g] = time[g]
      /\ DOMAIN pending' = Traces /\ DOMAIN pending'[f] = {}
      /\ \A g \in Traces : g # f => pending'[g] = pending[g]
      /\ DOMAIN changes' = Traces /\ changes'[f] = Flushed(f)
      /\ \A g \in Traces : g # f => changes'[g] = changes[g]
  BY DEF ReadInv, TracesTypeOK, Nothing
<1>1. TracesTypeOK'
  <2>1. \A g \in Traces : DOMAIN changes'[g] = Signal
    BY <1>0 DEF ReadInv, TracesTypeOK, Flushed
  <2>2. \A g \in Traces : \A p \in DOMAIN pending'[g] : pending'[g][p] \in Values
    BY <1>0 DEF ReadInv, TracesTypeOK
  <2> QED
    BY <1>0, <2>1, <2>2 DEF ReadInv, TracesTypeOK
<1>2. ASSUME NEW p \in Signal
      PROVE  /\ Ascends(changes'[f][p], time[f])
             /\ \A u \in Times : wave[f][p][u] = Says(changes'[f][p], u)
  <2>0. /\ time[f] \in Times /\ Ascends(changes[f][p], time[f])
        /\ \A u \in Times :
             wave[f][p][u] = IF p \in DOMAIN pending[f] /\ u >= time[f] THEN pending[f][p]
                             ELSE Says(changes[f][p], u)
    BY DEF ReadInv, TracesTypeOK
  <2>1. CASE p \in DOMAIN pending[f]
    <3>1. /\ pending[f][p] \in Values
          /\ changes'[f][p] = Kept(changes[f][p], time[f], pending[f][p])
      BY <1>0, <2>1 DEF ReadInv, TracesTypeOK, Flushed, Kept
    <3>2. Ascends(changes'[f][p], time[f])
      BY <2>0, <3>1, KeptAscends
    <3>3. ASSUME NEW u \in Times
          PROVE  wave[f][p][u] = Says(changes'[f][p], u)
      <4>1. Says(changes'[f][p], u) = IF u >= time[f] THEN pending[f][p]
                                     ELSE Says(changes[f][p], u)
        BY <2>0, <3>1, KeptSays
      <4> QED
        BY <2>0, <2>1, <4>1
    <3> QED
      BY <3>2, <3>3
  <2>2. CASE p \notin DOMAIN pending[f]
    <3>1. changes'[f][p] = changes[f][p]
      BY <1>0, <2>2 DEF Flushed
    <3> QED
      BY <2>0, <2>2, <3>1
  <2> QED
    BY <2>1, <2>2
<1>3. \A g \in Traces, p \in Signal : Ascends(changes'[g][p], time'[g])
  <2> TAKE g \in Traces, p \in Signal
  <2>1. CASE g = f
    BY <1>0, <1>2, <2>1, AscendsLater
  <2>2. CASE g # f
    BY <1>0, <2>2 DEF ReadInv
  <2> QED
    BY <2>1, <2>2
<1>4. \A g \in Traces, p \in Signal, u \in Times :
        wave'[g][p][u] = IF p \in DOMAIN pending'[g] /\ u >= time'[g] THEN pending'[g][p]
                         ELSE Says(changes'[g][p], u)
  <2> TAKE g \in Traces, p \in Signal, u \in Times
  <2>1. CASE g = f
    BY <1>0, <1>2, <2>1
  <2>2. CASE g # f
    BY <1>0, <2>2 DEF ReadInv
  <2> QED
    BY <2>1, <2>2
<1>5. \A g \in Traces : IsRead(g)' => DOMAIN pending'[g] = {}
  <2> TAKE g \in Traces
  <2>1. CASE g = f
    BY <1>0, <2>1
  <2>2. CASE g # f
    BY <1>0, <2>2 DEF ReadInv
  <2> QED
    BY <2>1, <2>2
<1> QED
  BY <1>1, <1>3, <1>4, <1>5 DEF ReadInv

LEMMA ValueStep ==
  ASSUME ReadInv, NEW f \in Traces, NEW p \in Signal, NEW v \in Values, Value(f, p, v)
  PROVE  ReadInv'
<1>0. /\ stage = f /\ stage' = stage /\ changes' = changes /\ time' = time
      /\ time \in [Traces -> Times] /\ wave \in [Traces -> [Signal -> [Times -> Values]]]
  BY DEF Value, NextLine, ReadInv, TracesTypeOK
<1>1. /\ DOMAIN pending' = Traces
      /\ pending'[f] = [q \in DOMAIN pending[f] \cup {p} |-> IF q = p THEN v ELSE pending[f][q]]
      /\ \A g \in Traces : g # f => pending'[g] = pending[g]
  BY DEF Value, ReadInv, TracesTypeOK
<1>2. /\ wave' \in [Traces -> [Signal -> [Times -> Values]]]
      /\ wave'[f][p] = [t \in Times |-> IF t >= time[f] THEN v ELSE wave[f][p][t]]
      /\ \A g \in Traces, q \in Signal : g # f \/ q # p => wave'[g][q] = wave[g][q]
  <2>1. wave' = [wave EXCEPT ![f][p] =
                   [t \in Times |-> IF t >= time[f] THEN v ELSE wave[f][p][t]]]
    BY <1>0 DEF Value
  <2>2. [t \in Times |-> IF t >= time[f] THEN v ELSE wave[f][p][t]] \in [Times -> Values]
    BY <1>0
  <2> QED
    BY <1>0, <2>1, <2>2
<1>3. TracesTypeOK'
  <2>1. ASSUME NEW g \in Traces, NEW q \in DOMAIN pending'[g]
        PROVE  pending'[g][q] \in Values
    <3>1. CASE g = f /\ q = p
      BY <1>1, <3>1
    <3>2. CASE g = f /\ q # p
      BY <1>1, <2>1, <3>2 DEF ReadInv, TracesTypeOK
    <3>3. CASE g # f
      BY <1>1, <2>1, <3>3 DEF ReadInv, TracesTypeOK
    <3> QED
      BY <3>1, <3>2, <3>3
  <2> QED
    BY <1>0, <1>1, <1>2, <2>1 DEF ReadInv, TracesTypeOK
<1>4. \A g \in Traces, q \in Signal, u \in Times :
        wave'[g][q][u] = IF q \in DOMAIN pending'[g] /\ u >= time'[g] THEN pending'[g][q]
                         ELSE Says(changes'[g][q], u)
  <2> TAKE g \in Traces, q \in Signal, u \in Times
  <2>0. wave[g][q][u] = IF q \in DOMAIN pending[g] /\ u >= time[g] THEN pending[g][q]
                        ELSE Says(changes[g][q], u)
    BY DEF ReadInv
  <2>1. CASE g = f /\ q = p
    BY <1>0, <1>1, <1>2, <2>0, <2>1
  <2>2. CASE g = f /\ q # p
    BY <1>0, <1>1, <1>2, <2>0, <2>2
  <2>3. CASE g # f
    BY <1>0, <1>1, <1>2, <2>0, <2>3
  <2> QED
    BY <2>1, <2>2, <2>3
<1>5. \A g \in Traces : IsRead(g)' => DOMAIN pending'[g] = {}
  BY <1>0, <1>1 DEF ReadInv, IsRead
<1>6. \A g \in Traces, q \in Signal : Ascends(changes'[g][q], time'[g])
  BY <1>0 DEF ReadInv
<1> QED
  BY <1>3, <1>4, <1>5, <1>6 DEF ReadInv

LEMMA ReadStep == ReadInv /\ [TracesNext]_tracesVars => ReadInv'
<1> SUFFICES ASSUME ReadInv, [TracesNext]_tracesVars PROVE ReadInv'
  OBVIOUS
<1>1. ASSUME NEW f \in Traces, NEW t \in Times, Timestamp(f, t)
      PROVE  ReadInv'
  <2>1. /\ stage' = stage /\ stage = f /\ t >= time[f] /\ wave' = wave
        /\ changes' = [changes EXCEPT ![f] = Flushed(f)]
        /\ pending' = [pending EXCEPT ![f] = Nothing]
        /\ time' = [time EXCEPT ![f] = t]
    BY <1>1 DEF Timestamp, NextLine
  <2>2. stage' \in {"golden", "mutant", "compare", "done"}
    BY <2>1 DEF ReadInv, TracesTypeOK
  <2>3. \A g \in Traces : IsRead(g)' => g = f \/ IsRead(g)
    BY <2>1 DEF IsRead
  <2> QED
    BY <2>1, <2>2, <2>3, FlushStep
<1>2. ASSUME NEW f \in Traces, EndOfFile(f)
      PROVE  ReadInv'
  <2>1. /\ stage' = IF f = "golden" THEN "mutant" ELSE "compare"
        /\ stage = f /\ wave' = wave
        /\ changes' = [changes EXCEPT ![f] = Flushed(f)]
        /\ pending' = [pending EXCEPT ![f] = Nothing]
        /\ time' = time
    BY <1>2 DEF EndOfFile
  <2>2. /\ time[f] \in Times /\ time[f] >= time[f]
        /\ time' = [time EXCEPT ![f] = time[f]]
    BY <2>1, TracesAssumption DEF ReadInv, TracesTypeOK, Times
  <2>3. \A g \in Traces : IsRead(g)' => g = f \/ IsRead(g)
    BY <2>1 DEF IsRead, Traces
  <2>4. stage' \in {"golden", "mutant", "compare", "done"}
    BY <2>1
  <2> QED
    BY <2>1, <2>2, <2>3, <2>4, FlushStep
<1>3. ASSUME NEW f \in Traces, NEW p \in Signal, NEW v \in Values, Value(f, p, v)
      PROVE  ReadInv'
  BY <1>3, ValueStep
<1>4. ASSUME \/ Compare \/ Diverge \/ Agree \/ Compared \/ UNCHANGED tracesVars
      PROVE  ReadInv'
  <2>1. /\ time' = time /\ pending' = pending /\ changes' = changes /\ wave' = wave
        /\ stage' = stage \/ (stage = "compare" /\ stage' = "done")
    BY <1>4 DEF Compare, Diverge, Agree, Compared, tracesVars
  <2>2. TracesTypeOK'
    BY <2>1 DEF ReadInv, TracesTypeOK
  <2>3. \A g \in Traces : IsRead(g)' => IsRead(g)
    BY <2>1 DEF IsRead
  <2> QED
    BY <2>1, <2>2, <2>3 DEF ReadInv
<1> QED
  BY <1>1, <1>2, <1>3, <1>4 DEF TracesNext

(* What has been read of the dumps is kept apart from what was not, and the *)
(* changes kept are in order.                                               *)
THEOREM ReadCorrect == TracesSpec => []ReadInv
<1> QED
  BY ReadInit, ReadStep, PTL DEF TracesSpec

(* Every signal has at every time the value the dump gives it.              *)
THEOREM ReadsFaithfullyCorrect == TracesSpec => []ReadsFaithfully
<1>1. ReadInv => ReadsFaithfully
  BY ValueAtSays DEF ReadInv, ReadsFaithfully
<1> QED
  BY <1>1, ReadCorrect, PTL

(* The times of the changes ascend and no value repeats the one before.     *)
THEOREM OnlyChangesCorrect == TracesSpec => []OnlyChanges
<1>1. ReadInv => OnlyChanges
  <2> SUFFICES ASSUME ReadInv, NEW f \in Traces, NEW p \in Signal,
                      NEW n \in 1 .. Len(changes[f][p]) - 1
               PROVE  /\ changes[f][p][n].t <= changes[f][p][n + 1].t
                      /\ changes[f][p][n].v # changes[f][p][n + 1].v
    BY DEF OnlyChanges
  <2>1. Ascends(changes[f][p], time[f])
    BY DEF ReadInv
  <2>2. Len(changes[f][p]) \in Nat
    BY <2>1 DEF Ascends
  <2>3. n \in 1 .. Len(changes[f][p]) /\ n + 1 \in 1 .. Len(changes[f][p]) /\ n <= n + 1
    BY <2>2
  <2> QED
    BY <2>1, <2>3 DEF Ascends
<1> QED
  BY <1>1, ReadCorrect, PTL

-----------------------------------------------------------------------------
(* COMPARING                                                               *)

(* Two multiples of the period that are less than a period apart are one.   *)
LEMMA LargerMultiple ==
  ASSUME NEW P \in Nat \ {0}, NEW q \in Nat, NEW r \in Nat, q < r
  PROVE  q * P + P <= r * P
<1>1. PICK d \in Nat : r = q + 1 + d
  <2>1. r - q - 1 \in Nat /\ r = q + 1 + (r - q - 1)
    OBVIOUS
  <2> QED
    BY <2>1
<1>2. r * P = q * P + P + d * P
  BY <1>1, SMTT(30)
<1>3. d * P \in Nat /\ q * P \in Nat
  BY SMTT(30)
<1> QED
  BY <1>2, <1>3

LEMMA SameMultiple ==
  ASSUME NEW P \in Nat \ {0}, NEW q \in Nat, NEW r \in Nat, q * P <= r * P, r * P < q * P + P
  PROVE  q = r
<1>0. q * P \in Nat /\ r * P \in Nat
  BY SMTT(30)
<1>1. ~(q < r)
  BY <1>0, LargerMultiple
<1>2. ~(r < q)
  BY <1>0, LargerMultiple
<1> QED
  BY <1>1, <1>2

LEMMA NextMultiple ==
  ASSUME NEW P \in Nat \ {0}, NEW q \in Nat
  PROVE  q * P \in Nat /\ q * P + P = (q + 1) * P /\ q <= q * P
BY SMTT(30)

(* Every last component has a path.                                         *)
LEMMA ByBaseSignal == ASSUME NEW b \in Bases PROVE ByBase(b) \in Signal
<1> DEFINE S == { n \in 1 .. Len(Paths) : Base[Paths[n]] = b }
<1>0. Len(Paths) \in Nat
  BY TracesAssumption
<1>1. S \in SUBSET (0 .. Len(Paths)) /\ S # {}
  <2>1. PICK p \in Signal : b = Base[p]
    BY TracesAssumption
  <2>2. PICK n \in 1 .. Len(Paths) : p = Paths[n]
    BY DEF Signal
  <2>3. n \in S
    BY <2>1, <2>2
  <2> QED
    BY <1>0, <2>3
<1>2. PICK n \in S : \A m \in S : m <= n
  BY <1>0, <1>1, Greatest
<1>3. /\ n \in 1 .. Len(Paths) /\ Base[Paths[n]] = b
      /\ \A m \in n + 1 .. Len(Paths) : Base[Paths[m]] # b
  BY <1>0, <1>2
<1> DEFINE k == CHOOSE j \in 1 .. Len(Paths) :
                  Base[Paths[j]] = b /\ \A m \in j + 1 .. Len(Paths) : Base[Paths[m]] # b
<1>4. k \in 1 .. Len(Paths)
  BY <1>3
<1>5. ByBase(b) = Paths[k]
  BY DEF ByBase
<1> HIDE DEF k
<1> QED
  BY <1>4, <1>5 DEF Signal

(* The names that differ in the traces as read differ in the dumps.         *)
LEMMA DifferingTrue ==
  ASSUME ReadInv, stage = "compare", NEW t \in Times
  PROVE  Differing(t) = { n \in 1 .. Len(BaseNames) : DiffersAt(t, BaseNames[n]) }
<1>1. ASSUME NEW n \in 1 .. Len(BaseNames), NEW f \in Traces
      PROVE  ValueAt(f, ByBase(BaseNames[n]), t) = wave[f][ByBase(BaseNames[n])][t]
  <2>1. BaseNames[n] \in Bases
    BY DEF Bases
  <2>2. ByBase(BaseNames[n]) \in Signal
    BY <2>1, ByBaseSignal
  <2>3. DOMAIN pending[f] = {}
    BY DEF ReadInv, IsRead, Traces
  <2> QED
    BY <2>2, <2>3, ValueAtSays DEF ReadInv
<1> QED
  BY <1>1 DEF Differing, DiffersAt, Traces

(* While samples agree, every sample up to the next one agrees.             *)
CompareInv ==
  /\ ReadInv
  /\ \E n \in Nat : at = n * Period
  /\ stage \in {"golden", "mutant"} => at = 0
  /\ stage # "done" => first = None
  /\ stage # "done" => \A t \in Samples, b \in Bases : t < at => ~DiffersAt(t, b)
  /\ FirstDivergence

LEMMA SamplesTimes ==
  ASSUME TracesTypeOK, NEW t \in Samples
  PROVE  t \in Times /\ t <= EndTime /\ \E n \in 0 .. MaxTime : t = n * Period
<1>1. PICK n \in 0 .. MaxTime : t = n * Period
  BY DEF Samples
<1>2. t \in Nat
  BY <1>1, NextMultiple, TracesAssumption
<1>3. time["golden"] \in 0 .. MaxTime /\ time["mutant"] \in 0 .. MaxTime
  BY DEF TracesTypeOK, Traces, Times
<1> QED
  BY <1>1, <1>2, <1>3, TracesAssumption DEF Samples, EndTime, Times

(* The next sample is one unless it lies behind the end of a trace.         *)
LEMMA AtSample ==
  ASSUME CompareInv, at <= EndTime
  PROVE  at \in Samples /\ at \in Times
<1>1. PICK n \in Nat : at = n * Period
  BY DEF CompareInv
<1>2. at \in Nat /\ n <= at
  BY <1>1, NextMultiple, TracesAssumption
<1>3. time["golden"] \in 0 .. MaxTime /\ time["mutant"] \in 0 .. MaxTime
  BY DEF CompareInv, ReadInv, TracesTypeOK, Traces, Times
<1>4. at <= time["golden"] /\ at <= time["mutant"] /\ at <= MaxTime
  BY <1>2, <1>3, TracesAssumption DEF EndTime
<1> QED
  BY <1>1, <1>2, <1>4, TracesAssumption DEF Samples, Times

LEMMA CompareInit == TracesInit => CompareInv
<1> SUFFICES ASSUME TracesInit PROVE CompareInv
  OBVIOUS
<1>1. stage = "golden" /\ at = 0 /\ first = None
  BY DEF TracesInit
<1>2. 0 = 0 * Period
  BY TracesAssumption
<1>3. \A t \in Samples : ~(t < at)
  <2> TAKE t \in Samples
  <2>1. t \in Times
    BY ReadInit, SamplesTimes DEF ReadInv
  <2> QED
    BY <1>1, <2>1 DEF Times
<1> QED
  BY <1>1, <1>2, <1>3, ReadInit DEF CompareInv, FirstDivergence

LEMMA CompareStep ==
  ASSUME CompareInv, [TracesNext]_tracesVars
  PROVE  CompareInv'
<1>0. ReadInv /\ ReadInv'
  BY ReadStep DEF CompareInv
<1>1. ASSUME stage \in {"golden", "mutant"}, stage' # "done", at' = at, first' = first
      PROVE  CompareInv'
  <2>1. at' = 0 /\ first' = None
    BY <1>1 DEF CompareInv
  <2>2. \A t \in Samples' : ~(t < at')
    <3> TAKE t \in Samples'
    <3>1. t \in Nat
      BY NextMultiple, TracesAssumption DEF Samples
    <3> QED
      BY <2>1, <3>1
  <2>3. \E n \in Nat : at' = n * Period
    BY <1>1 DEF CompareInv
  <2> QED
    BY <1>0, <1>1, <2>1, <2>2, <2>3 DEF CompareInv, FirstDivergence
<1>2. ASSUME time' = time, wave' = wave
      PROVE  /\ Samples' = Samples
             /\ \A t, b : DiffersAt(t, b)' <=> DiffersAt(t, b)
  BY <1>2 DEF Samples, DiffersAt
<1>3. CASE Compare
  <2>1. /\ stage = "compare" /\ at <= EndTime /\ Differing(at) = {}
        /\ at' = at + Period /\ stage' = stage /\ first' = first
        /\ time' = time /\ wave' = wave
    BY <1>3 DEF Compare
  <2>2. at \in Samples /\ at \in Times
    BY <2>1, AtSample
  <2>3. PICK n \in Nat : at = n * Period
    BY DEF CompareInv
  <2>4. n + 1 \in Nat /\ at' = (n + 1) * Period
    BY <2>1, <2>3, NextMultiple, TracesAssumption
  <2>5. ASSUME NEW t \in Samples, NEW b \in Bases, t < at'
        PROVE  ~DiffersAt(t, b)
    <3>1. PICK k \in Nat : t = k * Period /\ t \in Times
      BY <1>0, SamplesTimes, TracesAssumption DEF ReadInv
    <3>2. t \in Nat /\ at \in Nat
      BY <2>2, <3>1 DEF Times
    <3>3. CASE t < at
      BY <2>1, <3>3 DEF CompareInv
    <3>4. CASE ~(t < at)
      <4>1. t = at
        BY <2>1, <2>3, <2>5, <3>1, <3>2, <3>4, SameMultiple, TracesAssumption
      <4>2. PICK m \in 1 .. Len(BaseNames) : b = BaseNames[m]
        BY DEF Bases
      <4>3. ~DiffersAt(at, BaseNames[m])
        BY <1>0, <2>1, <2>2, DifferingTrue
      <4> QED
        BY <4>1, <4>2, <4>3
    <3> QED
      BY <3>3, <3>4
  <2>6. \A t \in Samples', b \in Bases : t < at' => ~DiffersAt(t, b)'
    BY <1>2, <2>1, <2>5
  <2>7. first' = None
    BY <2>1 DEF CompareInv
  <2> QED
    BY <1>0, <2>1, <2>4, <2>6, <2>7 DEF CompareInv, FirstDivergence
<1>4. CASE Diverge
  <2> DEFINE D == Differing(at)
             k == CHOOSE n \in D : \A m \in D : n <= m
  <2>1. /\ stage = "compare" /\ at <= EndTime /\ D # {}
        /\ first' = [found |-> TRUE, t |-> at, base |-> BaseNames[k]]
        /\ stage' = "done" /\ at' = at /\ time' = time /\ wave' = wave
    BY <1>4 DEF Diverge
  <2>2. at \in Samples /\ at \in Times
    BY <2>1, AtSample
  <2>3. D = { n \in 1 .. Len(BaseNames) : DiffersAt(at, BaseNames[n]) }
    BY <1>0, <2>1, <2>2, DifferingTrue
  <2>4. PICK n \in D : \A m \in D : n <= m
    <3>1. D \in SUBSET Nat
      BY <2>3
    <3> HIDE DEF D
    <3> QED
      BY <2>1, <3>1, Least
  <2>5. k \in D /\ \A m \in D : k <= m
    BY <2>4
  <2> HIDE DEF k, D
  <2>6. /\ first' # None /\ first'.t = at /\ first'.base = BaseNames[k]
        /\ k \in 1 .. Len(BaseNames) /\ DiffersAt(at, BaseNames[k])
    BY <2>1, <2>3, <2>5 DEF None
  <2>7. ASSUME NEW t \in Samples, NEW b \in Bases,
               t < at \/ (t = at /\ Precedes(b, BaseNames[k]))
        PROVE  ~DiffersAt(t, b)
    <3>1. CASE t < at
      BY <2>1, <3>1 DEF CompareInv
    <3>2. CASE t = at /\ Precedes(b, BaseNames[k])
      <4>1. PICK i, j \in 1 .. Len(BaseNames) :
              i < j /\ BaseNames[i] = b /\ BaseNames[j] = BaseNames[k]
        BY <3>2 DEF Precedes
      <4>2. j = k
        BY <2>6, <4>1, TracesAssumption
      <4>3. i \notin D
        BY <2>5, <2>6, <4>1, <4>2
      <4> QED
        BY <2>3, <3>2, <4>1, <4>3
    <3> QED
      BY <2>7, <3>1, <3>2
  <2>8. FirstDivergence'
    BY <1>2, <2>1, <2>2, <2>6, <2>7 DEF FirstDivergence
  <2>9. \E m \in Nat : at' = m * Period
    BY <2>1 DEF CompareInv
  <2> QED
    BY <1>0, <2>1, <2>8, <2>9 DEF CompareInv
<1>5. CASE Agree
  <2>1. /\ stage = "compare" /\ at > EndTime /\ stage' = "done"
        /\ at' = at /\ time' = time /\ wave' = wave /\ first' = first
    BY <1>5 DEF Agree
  <2>2. first' = None
    BY <2>1 DEF CompareInv
  <2>3. ASSUME NEW t \in Samples, NEW b \in Bases
        PROVE  ~DiffersAt(t, b)
    <3>1. t \in Times /\ t <= EndTime
      BY <1>0, SamplesTimes DEF ReadInv
    <3>2. at \in Nat
      BY NextMultiple, TracesAssumption DEF CompareInv
    <3>3. EndTime \in Nat
      BY <1>0, TracesAssumption DEF EndTime, ReadInv, TracesTypeOK, Traces, Times
    <3>4. t < at
      BY <2>1, <3>1, <3>2, <3>3 DEF Times
    <3> QED
      BY <2>1, <3>4 DEF CompareInv
  <2>4. FirstDivergence'
    BY <1>2, <2>1, <2>2, <2>3 DEF FirstDivergence
  <2>5. \E m \in Nat : at' = m * Period
    BY <2>1 DEF CompareInv
  <2> QED
    BY <1>0, <2>1, <2>4, <2>5 DEF CompareInv
<1>6. CASE Compared \/ UNCHANGED tracesVars
  BY <1>0, <1>2, <1>6
     DEF Compared, tracesVars, CompareInv, FirstDivergence
<1>7. ASSUME NEW f \in Traces, \/ \E t \in Times : Timestamp(f, t)
                               \/ \E p \in Signal, v \in Values : Value(f, p, v)
                               \/ EndOfFile(f)
      PROVE  CompareInv'
  <2>1. /\ stage \in {"golden", "mutant"} /\ stage' # "done"
        /\ at' = at /\ first' = first
    BY <1>7 DEF Timestamp, Value, EndOfFile, NextLine, Traces
  <2> QED
    BY <1>1, <2>1
<1> QED
  BY <1>3, <1>4, <1>5, <1>6, <1>7 DEF TracesNext

(* The comparison finds the first sample that differs and the first name in *)
(* it, and finds none only when every sample agrees.                        *)
THEOREM FirstDivergenceCorrect == TracesSpec => []FirstDivergence
<1>1. CompareInv => FirstDivergence
  BY DEF CompareInv
<1>2. CompareInv /\ [TracesNext]_tracesVars => CompareInv'
  BY CompareStep
<1> QED
  BY <1>1, <1>2, CompareInit, PTL DEF TracesSpec
=============================================================================
