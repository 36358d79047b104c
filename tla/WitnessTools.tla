---------------------------- MODULE WitnessTools ----------------------------
(***************************************************************************)
(* The investigation tools an agent calls during one task run: the         *)
(* dispatchers of rtlverdict/agent/tools.py with run_test and diff_traces  *)
(* of rtlverdict/witness.  Their memory, ToolContext, is new in every run; *)
(* the two traces they compare are files that outlive it, because every    *)
(* run of a task uses the same directory.                                  *)
(***************************************************************************)
EXTENDS Naturals

CONSTANTS
  Scopes,      \* the scope filters that may be asked for, "dut" among them
  Divergences, \* what a comparison may find: [signal, time]
  NoDivergence,
  AgentSignals, \* signals the agent may name to suspect_rank
  MaxRuns      \* bound: runs of the task, one after another

NoName == ""   \* it names none

ASSUME ScopesAssumption == "dut" \in Scopes
ASSUME DivergencesAssumption ==
  /\ Divergences \subseteq [signal: STRING, time: Nat]
  /\ NoDivergence \notin Divergences
ASSUME AgentSignalsAssumption == AgentSignals \subseteq STRING \ {NoName}
ASSUME MaxRunsAssumption == MaxRuns \in Nat \ {0}

VARIABLES
  run,    \* which run of the task this is
  truth,  \* truth[s]: how the two designs first differ in scope s, if they do
  files,  \* the run that wrote golden.vcd and mutant.vcd, 0 if there is none
  ctx,    \* ToolContext: [vcd, found], found being last_signal and
          \* last_divergence_time
  answer, \* what the last tool call read and used: [tool, files, found,
          \* named], named being the signal the agent gave
  latest  \* what the last comparison of this run found

toolsVars == <<run, truth, files, ctx, answer, latest>>

NewContext == [vcd |-> FALSE, found |-> NoDivergence]
Error == [tool |-> "error", files |-> [golden |-> 0, mutant |-> 0],
          found |-> NoDivergence, named |-> NoName]

ToolsStart(differences) ==
  /\ run = 1
  /\ truth = differences
  /\ files = [golden |-> 0, mutant |-> 0]
  /\ ctx = NewContext
  /\ answer = Error
  /\ latest = NoDivergence

ToolsInit == \E t \in [Scopes -> Divergences \cup {NoDivergence}] : ToolsStart(t)

-----------------------------------------------------------------------------
(* A comparison that finds nothing leaves the last divergence as it was.    *)
(* Mutant of Remember: only the time is kept up to date. *)
RememberTime(found, div) ==
  IF div = NoDivergence THEN found
  ELSE IF found = NoDivergence THEN div
  ELSE [found EXCEPT !.time = div.time]

(* Mutant of Remember: finding nothing makes it forget. *)
RememberLatest(found, div) == div

Remember(found, div) == IF div = NoDivergence THEN found ELSE div

(* What is left after dispatch_run_test: golden and mutant say which of the *)
(* two simulations produce a trace.  Each replaces its file at once, and    *)
(* the context changes only when both did.                                  *)
Tested(golden, mutant) ==
  [ok |-> golden /\ mutant,
   files |-> [golden |-> IF golden THEN run ELSE files.golden,
              mutant |-> IF golden /\ mutant THEN run ELSE files.mutant],
   ctx |-> IF golden /\ mutant
           THEN [vcd |-> TRUE, found |-> Remember(ctx.found, truth["dut"])]
           ELSE ctx,
   latest |-> IF golden /\ mutant THEN truth["dut"] ELSE latest]

(* Mutant of Ensured: traces that are there are taken for this run's. *)
EnsuredByFile(golden, mutant) ==
  IF files.golden > 0 /\ files.mutant > 0
  THEN [ok |-> TRUE, files |-> files, ctx |-> ctx, latest |-> latest]
  ELSE Tested(golden, mutant)

(* _ensure_run, at the start of every tool that needs a trace. *)
Ensured(golden, mutant) ==
  IF ctx.vcd THEN [ok |-> TRUE, files |-> files, ctx |-> ctx, latest |-> latest]
  ELSE Tested(golden, mutant)

(* An exception reaches the agent as an error result; what the call had     *)
(* done to files and context by then stays.                                 *)
Fails(after) ==
  /\ ~after.ok
  /\ files' = after.files
  /\ answer' = Error
  /\ UNCHANGED <<run, truth, ctx, latest>>

Answer(tool, after, found) ==
  answer' = [tool |-> tool, files |-> after.files, found |-> found, named |-> NoName]

RunTest(golden, mutant) ==
  LET after == Tested(golden, mutant) IN
    /\ after.ok
    /\ files' = after.files /\ ctx' = after.ctx /\ latest' = after.latest
    /\ Answer("run_test", after, truth["dut"])
    /\ UNCHANGED <<run, truth>>

RunTestFails(golden, mutant) == Fails(Tested(golden, mutant))

WaveQuery(golden, mutant) ==
  LET after == Ensured(golden, mutant) IN
    /\ after.ok
    /\ files' = after.files /\ ctx' = after.ctx /\ latest' = after.latest
    /\ Answer("wave_query", after, NoDivergence)
    /\ UNCHANGED <<run, truth>>

DiffTraces(scope, golden, mutant) ==
  LET after == Ensured(golden, mutant) IN
    /\ after.ok
    /\ files' = after.files
    /\ ctx' = [after.ctx EXCEPT !.found = Remember(@, truth[scope])]
    /\ latest' = truth[scope]
    /\ Answer("diff_traces", after, truth[scope])
    /\ UNCHANGED <<run, truth>>

(* suspect_rank goes by the time in the context, and by its signal unless   *)
(* the agent names one.                                                     *)
RankedBy(name, found) ==
  IF name = NoName THEN found ELSE [found EXCEPT !.signal = name]

SuspectRank(name, golden, mutant) ==
  LET after == Ensured(golden, mutant)
      known == after.ctx.found # NoDivergence IN
    /\ after.ok
    /\ files' = after.files /\ ctx' = after.ctx /\ latest' = after.latest
    /\ answer' = [tool |-> IF known THEN "suspect_rank" ELSE "unknown",
                  files |-> after.files,
                  found |-> IF known THEN RankedBy(name, after.ctx.found)
                            ELSE NoDivergence,
                  named |-> name]
    /\ UNCHANGED <<run, truth>>

(* wave_query, diff_traces and suspect_rank when the run they need fails.   *)
EnsureFails(golden, mutant) == Fails(Ensured(golden, mutant))

(* The tool raises after that run: a signal that is ambiguous or unknown, a *)
(* source that does not parse.                                              *)
QueryRaises(golden, mutant) ==
  LET after == Ensured(golden, mutant) IN
    /\ after.ok
    /\ files' = after.files /\ ctx' = after.ctx /\ latest' = after.latest
    /\ answer' = Error
    /\ UNCHANGED <<run, truth>>

(* cone_of_influence, a malformed call and an unknown tool touch nothing    *)
(* that is modelled here.                                                   *)

(* The run ends or is killed, and the task is run again. *)
NextRun ==
  /\ run < MaxRuns
  /\ run' = run + 1
  /\ ctx' = NewContext
  /\ answer' = Error /\ latest' = NoDivergence
  /\ UNCHANGED <<truth, files>>

ToolsNext ==
  \/ \E golden, mutant \in BOOLEAN :
       \/ RunTest(golden, mutant) \/ RunTestFails(golden, mutant)
       \/ WaveQuery(golden, mutant)
       \/ \E scope \in Scopes : DiffTraces(scope, golden, mutant)
       \/ \E name \in AgentSignals \cup {NoName} : SuspectRank(name, golden, mutant)
       \/ EnsureFails(golden, mutant) \/ QueryRaises(golden, mutant)
  \/ NextRun

ToolsSpec == ToolsInit /\ [][ToolsNext]_toolsVars

-----------------------------------------------------------------------------
(* PROPERTIES                                                              *)

Found == Divergences \cup {NoDivergence}
FilesType == [golden: 0 .. MaxRuns, mutant: 0 .. MaxRuns]
Answers == [tool: {"error", "unknown", "run_test", "wave_query", "diff_traces", "suspect_rank"},
            files: FilesType,
            found: [signal: STRING, time: Nat] \cup {NoDivergence},
            named: AgentSignals \cup {NoName}]

(* Type invariant. *)
ToolsTypeOK ==
  /\ run \in 1 .. MaxRuns
  /\ truth \in [Scopes -> Found]
  /\ files \in FilesType
  /\ ctx \in [vcd: BOOLEAN, found: Found]
  /\ answer \in Answers
  /\ latest \in Found

(***************************************************************************)
(* Every trace a tool answers from was produced in this run, however many  *)
(* earlier runs of the task left theirs in the same directory and whatever *)
(* simulation failed in between.                                           *)
(***************************************************************************)
ReadsOwnTraces ==
  answer.tool # "error" => answer.files = [golden |-> run, mutant |-> run]

(***************************************************************************)
(* suspect_rank ranks by the time at which these two designs do differ in  *)
(* some scope, and when the agent names no signal the one it takes is that *)
(* of the same divergence, never of another comparison.  A signal the      *)
(* agent names is ranked with that time whether or not it differs then.    *)
(***************************************************************************)
RankedDivergenceIsReal ==
  answer.tool = "suspect_rank" =>
    \E s \in Scopes :
      /\ truth[s] # NoDivergence
      /\ answer.found.time = truth[s].time
      /\ answer.named = NoName => answer.found = truth[s]

(***************************************************************************)
(* Once the designs are known to differ in the default scope, the ranking  *)
(* never has nothing to go by.                                             *)
(***************************************************************************)
RankKnowsDivergence == truth["dut"] # NoDivergence => answer.tool # "unknown"

(***************************************************************************)
(* What the tool's description says: without a signal of the agent's,      *)
(* suspect_rank uses the divergence found by the last run_test/diff_traces *)
(* call.  The code keeps an older one when that call found none.           *)
(***************************************************************************)
RankUsesLastCall ==
  answer.tool = "suspect_rank" /\ answer.named = NoName => answer.found = latest
=============================================================================
