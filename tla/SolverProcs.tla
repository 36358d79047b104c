---------------------------- MODULE SolverProcs ----------------------------
(***************************************************************************)
(* The solver processes of concurrent batches: check_bmc and _run_sby of   *)
(* rtlverdict/verdict/ladder.py, the pre-flight sweep of rtlverdict/env.py *)
(* and the operating system's process table between them.  A batch is any  *)
(* of the drivers that sweep once and then run checks one after another    *)
(* (forge/corpus.py, forge/deep_bmc_promote.py, agent/run_smoke.py ...).   *)
(***************************************************************************)
EXTENDS Naturals

CONSTANTS
  Batches,     \* batch processes on this machine
  NChecks,     \* formal checks a batch runs at most
  Tasks,       \* Tasks[b]: the number of checks batch b runs
  MaxCrashes,  \* bound: how often a batch may be interrupted and restarted
  Interrupted, \* the batches that may be interrupted
  TaskkillWorks, \* FALSE: taskkill may leave any of the processes alive
                 \* (its result is ignored) and the sweep's query may fail
  HoldsPipe    \* the kinds of process that keep the output pipe of sby open

(* sby starts yosys to prepare the design, then yosys-smtbmc, which runs    *)
(* the solver.  The sweep looks for every kind but yosys.                   *)
Kinds == {"sby", "yosys", "smtbmc", "solver"}
SolverProcessNames == {"sby", "smtbmc", "solver"}

ASSUME BoundsAssumption ==
  /\ NChecks \in Nat \ {0} /\ MaxCrashes \in Nat
  /\ TaskkillWorks \in BOOLEAN
  /\ HoldsPipe \subseteq Kinds /\ "sby" \in HoldsPipe
ASSUME TasksAssumption == Tasks \in [Batches -> 1 .. NChecks]

Checks == Batches \X (0 .. MaxCrashes) \X (1 .. NChecks)

VARIABLES
  mode,    \* mode[b]: "off", "sweep", "next", "wait", "reap" or "done"
  epoch,   \* epoch[b]: how often b was interrupted
  done,    \* done[b]: checks of this run of b that have returned
  found,   \* found[b]: what the sweep's query returned and is not yet killed
  live,    \* live[c]: the kinds of process of check c that are running
  log,     \* log[b]: what the sby that b waits for has printed
  verdict, \* verdict[b][n]: what check_bmc returned, "None" before
  truth    \* truth[b][n]: TRUE if the designs of check n of b do diverge

batchVars == <<mode, epoch, done, found>>
vars == <<batchVars, live, log, verdict, truth>>

Current(b) == <<b, epoch[b], done[b] + 1>>
Diverges(b) == truth[b][done[b] + 1]

(* The check is being waited for: its result will be used. *)
InFlight(c) == mode[c[1]] = "wait" /\ c = Current(c[1])

NoVerdicts == [n \in 1 .. NChecks |-> "None"]

Init ==
  /\ mode = [b \in Batches |-> "off"]
  /\ epoch = [b \in Batches |-> 0]
  /\ done = [b \in Batches |-> 0]
  /\ found = [b \in Batches |-> {}]
  /\ live = [c \in Checks |-> {}]
  /\ log = [b \in Batches |-> "partial"]
  /\ verdict = [b \in Batches |-> NoVerdicts]
  /\ truth \in [Batches -> [1 .. NChecks -> BOOLEAN]]
  /\ \A b \in Batches, n \in 1 .. NChecks : truth[b][n] => n <= Tasks[b]

-----------------------------------------------------------------------------
(* taskkill /F /T: the process and the descendants that living parents      *)
(* lead to.                                                                 *)

Subtree(c, k) ==
  live[c] \cap
    CASE k = "sby" -> {"sby", "yosys", "smtbmc"}
                      \cup { p \in {"solver"} : "smtbmc" \in live[c] }
      [] k = "smtbmc" -> {"smtbmc", "solver"}
      [] OTHER -> {k}

Taskkill(c, k) ==
  \E dead \in (IF TaskkillWorks THEN {Subtree(c, k)} ELSE SUBSET Subtree(c, k)) :
    live' = [live EXCEPT ![c] = @ \ dead]

-----------------------------------------------------------------------------
(* sweep_orphaned_solvers: one query by process name, then one taskkill per *)
(* process it returned.  It cannot see to whom a process belongs.           *)

Running == { p \in Checks \X SolverProcessNames : p[2] \in live[p[1]] }

Start(b) ==
  /\ mode[b] = "off"
  /\ mode' = [mode EXCEPT ![b] = "sweep"]
  /\ \E seen \in (IF TaskkillWorks THEN {Running} ELSE {Running, {}}) :
       found' = [found EXCEPT ![b] = seen]
  /\ UNCHANGED <<epoch, done, live, log, verdict, truth>>

SweepKill(b, c, k) ==
  /\ mode[b] = "sweep"
  /\ <<c, k>> \in found[b]
  /\ found' = [found EXCEPT ![b] = @ \ {<<c, k>>}]
  /\ Taskkill(c, k)
  /\ UNCHANGED <<mode, epoch, done, log, verdict, truth>>

SweepDone(b) ==
  /\ mode[b] = "sweep"
  /\ found[b] = {}
  /\ mode' = [mode EXCEPT ![b] = "next"]
  /\ UNCHANGED <<epoch, done, found, live, log, verdict, truth>>

-----------------------------------------------------------------------------
(* check_bmc around _run_sby.                                               *)

Popen(b) ==
  /\ mode[b] = "next" /\ done[b] < Tasks[b]
  /\ mode' = [mode EXCEPT ![b] = "wait"]
  /\ live' = [live EXCEPT ![Current(b)] = {"sby"}]
  /\ log' = [log EXCEPT ![b] = "partial"]
  /\ UNCHANGED <<epoch, done, found, verdict, truth>>

PipeClosed(c) == live[c] \cap HoldsPipe = {}

(* The verdict of a log: a proof or a refutation only from the two lines    *)
(* that state one, INDETERMINATE for everything else.                       *)
(* Mutant of Classify: a tool error is a verdict of its own. *)
ClassifyWithError(text) ==
  IF text = "fail" THEN "REFUTED"
  ELSE IF text = "pass" THEN "PROVEN-BMC"
  ELSE "ERROR"

(* Mutant of Classify: DONE (FAIL is enough, no failed assertion is looked for. *)
ClassifyAnyFail(text) ==
  IF text \in {"fail", "fail without assertion"} THEN "REFUTED"
  ELSE IF text = "pass" THEN "PROVEN-BMC"
  ELSE "INDETERMINATE"

Classify(text) ==
  IF text = "fail" THEN "REFUTED"
  ELSE IF text = "pass" THEN "PROVEN-BMC"
  ELSE "INDETERMINATE"

Returned(b, v) ==
  /\ verdict' = [verdict EXCEPT ![b][done[b] + 1] = v]
  /\ done' = [done EXCEPT ![b] = @ + 1]
  /\ mode' = [mode EXCEPT ![b] = "next"]
  /\ UNCHANGED <<epoch, found, live, log, truth>>

Communicate(b) ==
  /\ mode[b] = "wait"
  /\ PipeClosed(Current(b))
  /\ Returned(b, Classify(log[b]))

(* Mutant of TimeoutExpired: nothing is killed before the output is awaited. *)
TimeoutNoKill(b) ==
  /\ mode[b] = "wait"
  /\ ~PipeClosed(Current(b))
  /\ mode' = [mode EXCEPT ![b] = "reap"]
  /\ UNCHANGED <<epoch, done, found, live, log, verdict, truth>>

(* Mutant of TimeoutExpired: only sby itself is killed, as a timeout of     *)
(* subprocess.run would.                                                    *)
TimeoutKillsSby(b) ==
  /\ mode[b] = "wait"
  /\ ~PipeClosed(Current(b))
  /\ mode' = [mode EXCEPT ![b] = "reap"]
  /\ live' = [live EXCEPT ![Current(b)] = @ \ {"sby"}]
  /\ UNCHANGED <<epoch, done, found, log, verdict, truth>>

(* TimeoutExpired: kill the tree of the process Python started, ...         *)
TimeoutExpired(b) ==
  /\ mode[b] = "wait"
  /\ ~PipeClosed(Current(b))
  /\ mode' = [mode EXCEPT ![b] = "reap"]
  /\ IF "sby" \in live[Current(b)] THEN Taskkill(Current(b), "sby") ELSE UNCHANGED live
  /\ UNCHANGED <<epoch, done, found, log, verdict, truth>>

(* ... then wait, with no timeout, for its output to end.                   *)
Reap(b) ==
  /\ mode[b] = "reap"
  /\ PipeClosed(Current(b))
  /\ Returned(b, "INDETERMINATE")

Finish(b) ==
  /\ mode[b] = "next" /\ done[b] = Tasks[b]
  /\ mode' = [mode EXCEPT ![b] = "done"]
  /\ UNCHANGED <<epoch, done, found, live, log, verdict, truth>>

(* The batch is interrupted; what it started goes on running, and the        *)
(* results it held in memory are gone.                                      *)
Interrupt(b) ==
  /\ mode[b] \notin {"off", "done"}
  /\ b \in Interrupted /\ epoch[b] < MaxCrashes
  /\ mode' = [mode EXCEPT ![b] = "off"]
  /\ epoch' = [epoch EXCEPT ![b] = @ + 1]
  /\ done' = [done EXCEPT ![b] = 0]
  /\ found' = [found EXCEPT ![b] = {}]
  /\ verdict' = [verdict EXCEPT ![b] = NoVerdicts]
  /\ log' = [log EXCEPT ![b] = "partial"]
  /\ UNCHANGED <<live, truth>>

-----------------------------------------------------------------------------
(* The processes themselves (external): sby prepares, solves, reports.  Only *)
(* the batch that waits for a check reads what its sby prints.              *)

Prints(c, text) ==
  log' = IF InFlight(c) THEN [log EXCEPT ![c[1]] = text] ELSE log

SbyStartsYosys(c) ==
  /\ live[c] = {"sby"}
  /\ live' = [live EXCEPT ![c] = {"sby", "yosys"}]
  /\ UNCHANGED <<batchVars, log, verdict, truth>>

SbyStartsSolver(c) ==
  /\ live[c] = {"sby", "yosys"}
  /\ live' = [live EXCEPT ![c] = {"sby", "smtbmc", "solver"}]
  /\ UNCHANGED <<batchVars, log, verdict, truth>>

SbyReports(c) ==
  /\ live[c] = {"sby", "smtbmc", "solver"}
  /\ live' = [live EXCEPT ![c] = {}]
  /\ Prints(c, IF Diverges(c[1]) THEN "fail" ELSE "pass")
  /\ UNCHANGED <<batchVars, verdict, truth>>

(* sby gives up, because the design does not elaborate or a child died: its *)
(* last line may read DONE (FAIL without any failed assertion.              *)
SbyGivesUp(c) ==
  /\ "sby" \in live[c]
  /\ live' = [live EXCEPT ![c] = {}]
  /\ \E text \in {"error", "fail without assertion"} : Prints(c, text)
  /\ UNCHANGED <<batchVars, verdict, truth>>

(* A child ends on its own, because it failed or because its sby is gone;   *)
(* smtbmc outlives the solver it waits for.                                 *)
ChildExits(c, k) ==
  /\ k \in live[c] \ {"sby"}
  /\ k = "smtbmc" => "solver" \notin live[c]
  /\ live' = [live EXCEPT ![c] = @ \ {k}]
  /\ UNCHANGED <<batchVars, log, verdict, truth>>

-----------------------------------------------------------------------------
BatchStep(b) ==
  \/ Start(b) \/ SweepDone(b)
  \/ \E c \in Checks, k \in Kinds : SweepKill(b, c, k)
  \/ Popen(b) \/ Communicate(b) \/ TimeoutExpired(b) \/ Reap(b) \/ Finish(b)

ProcessStep(c) ==
  \/ SbyStartsYosys(c) \/ SbyStartsSolver(c) \/ SbyReports(c) \/ SbyGivesUp(c)
  \/ \E k \in Kinds : ChildExits(c, k)

AllDone == (\A b \in Batches : mode[b] = "done") /\ UNCHANGED vars

Next ==
  \/ \E b \in Batches : BatchStep(b) \/ Interrupt(b)
  \/ \E c \in Checks : ProcessStep(c)
  \/ AllDone

Spec == Init /\ [][Next]_vars

(* Batches run; nothing obliges a solver to end, nor a user to interrupt.   *)
FairSpec == Spec /\ \A b \in Batches : WF_vars(BatchStep(b))

-----------------------------------------------------------------------------
(* PROPERTIES                                                              *)

LogTexts == {"partial", "fail", "pass", "error", "fail without assertion"}

(* Type invariant; check_bmc returns one of its three verdicts only. *)
TypeOK ==
  /\ mode \in [Batches -> {"off", "sweep", "next", "wait", "reap", "done"}]
  /\ epoch \in [Batches -> 0 .. MaxCrashes]
  /\ done \in [Batches -> 0 .. NChecks]
  /\ found \in [Batches -> SUBSET (Checks \X SolverProcessNames)]
  /\ live \in [Checks -> SUBSET Kinds]
  /\ log \in [Batches -> LogTexts]
  /\ verdict \in [Batches -> [1 .. NChecks ->
                   {"None", "REFUTED", "PROVEN-BMC", "INDETERMINATE"}]]
  /\ truth \in [Batches -> [1 .. NChecks -> BOOLEAN]]

(***************************************************************************)
(* Fail closed: whatever is killed, and by whom (the timeout, the sweep of *)
(* another batch, a taskkill that reached half of a tree), REFUTED and     *)
(* PROVEN-BMC are returned only when they are true of the designs.  The    *)
(* only damage a kill can do is a spurious INDETERMINATE.                  *)
(***************************************************************************)
VerdictSound ==
  \A b \in Batches, n \in 1 .. NChecks :
    /\ verdict[b][n] = "REFUTED" => truth[b][n]
    /\ verdict[b][n] = "PROVEN-BMC" => ~truth[b][n]

(***************************************************************************)
(* As long as no other batch is started and taskkill works, the check in   *)
(* flight has the machine to itself: no process of a timed-out check or of *)
(* an interrupted run is left to steal its CPU and corrupt its timing.     *)
(***************************************************************************)
Alone(b) == \A a \in Batches \ {b} : mode[a] = "off" /\ epoch[a] = 0

OnlyOwnSolvers ==
  TaskkillWorks =>
    \A b \in Batches : mode[b] = "wait" /\ Alone(b) =>
      \A c \in Checks : live[c] # {} => c = Current(b)

(***************************************************************************)
(* A check that is waited for returns, or its batch is interrupted, even   *)
(* if its solver never ends.                                               *)
(***************************************************************************)
EveryCheckReturns ==
  \A b \in Batches : (mode[b] = "wait") ~> (mode[b] \notin {"wait", "reap"})

(***************************************************************************)
(* What env.py says of the processes its sweep finds: they can only be     *)
(* stray orphans.  Not so when another batch is running.                   *)
(***************************************************************************)
SweepOnlyStrays ==
  [][\A b \in Batches, c \in Checks, k \in Kinds :
       SweepKill(b, c, k) => ~InFlight(c)]_vars

-----------------------------------------------------------------------------
(* The strengthening used in SolverProcsProofs: a log that states a result  *)
(* states a true one of the check being waited for, and there is one.       *)
LogTrue ==
  \A b \in Batches :
    /\ mode[b] \in {"wait", "reap"} => done[b] < NChecks
    /\ mode[b] = "wait" /\ log[b] = "fail" => Diverges(b)
    /\ mode[b] = "wait" /\ log[b] = "pass" => ~Diverges(b)

(* The strengthening behind OnlyOwnSolvers: a taskkill that works leaves no  *)
(* orphan without its sby, so a sweep whose query saw every sby sees to all  *)
(* of them, and a check that is over has left nothing behind.                *)
Trees == { {}, {"sby"}, {"sby", "yosys"}, {"sby", "smtbmc"}, {"sby", "smtbmc", "solver"} }

SweptInv ==
  TaskkillWorks =>
    /\ \A c \in Checks : live[c] \in Trees
    /\ \A b \in Batches : Alone(b) => \A c \in Checks :
         live[c] # {} =>
           /\ mode[b] = "sweep" => <<c, "sby">> \in found[b]
           /\ mode[b] \notin {"next", "reap", "done"}
           /\ mode[b] = "wait" => c = Current(b)
=============================================================================
