----------------------------- MODULE SmokeBatch -----------------------------
(***************************************************************************)
(* The batch driver of the agent evaluation, rtlverdict/agent/run_smoke.py,*)
(* over the files it leaves behind: one trajectory.json per task and arm,  *)
(* and summary.json.  The driver can be killed anywhere, also while a file *)
(* is being written, and started again with the same or other arguments.   *)
(* A task run is what module TaskRun promises: one verdict, or an          *)
(* exception and no trajectory.                                            *)
(***************************************************************************)
EXTENDS Naturals, Sequences, SequencesExt

CONSTANTS
  Tasks,     \* the KEEP tasks of the corpus, in the order of the file
  ArmLists,  \* what --arms may be: sequences of arms, also with repetitions
  Keys,      \* what the cache compares: model and seed
  Settings,  \* what it does not: caps, backend, corpus content
  Verdicts,  \* what a task run may record
  MaxLaunches \* bound: how often the driver is started

TaskArms == ToSet(Tasks) \X UNION { ToSet(arms) : arms \in ArmLists }
Config == Keys \X Settings

ASSUME TasksAssumption == Tasks \in Seq(ToSet(Tasks)) /\ IsInjective(Tasks)
ASSUME ArmsAssumption ==
  \A arms \in ArmLists : arms \in Seq(ToSet(arms)) /\ arms # <<>>
ASSUME LaunchesAssumption == MaxLaunches \in Nat

VARIABLES
  mode,     \* "off", "scanning", "running", "task", "writing", "closing"
            \* or "done"
  config,   \* <<key, setting>> of the invocation
  asked,    \* the tasks and arms it was asked to run: [n, arms], arms
            \* with the first n tasks
  place,    \* where the scan of the cache is: the positions of a task and
            \* of an arm among those asked for
  pending,  \* the places it found no reusable trajectory for, in order
  results,  \* the results list: [at, ta, verdict, setting, cached]; at, the
            \* place of the entry, and setting are not in the code's
  disk,     \* disk[ta]: trajectory.json
  summary,  \* summary.json
  launches

smokeVars == <<mode, config, asked, place, pending, results, disk, summary, launches>>

Nothing == [n |-> 0, arms |-> <<>>]
Absent == [state |-> "absent"]
Partial == [state |-> "partial"]
Trajectory(k, s, v) == [state |-> "complete", key |-> k, setting |-> s, verdict |-> v]
Complete(file) == file.state = "complete"

SmokeInit ==
  /\ mode = "off"
  /\ config \in Config
  /\ asked = Nothing /\ place = <<1, 1>>
  /\ pending = <<>> /\ results = <<>>
  /\ disk = [ta \in TaskArms |-> Absent]
  /\ summary = Absent
  /\ launches = 0

-----------------------------------------------------------------------------
(* _cached_trajectory: a file that is missing, does not parse, or is of     *)
(* another model or seed is treated as absent.                              *)

(* Mutant of Cached: any complete trajectory is reused. *)
CachedAnyModel(ta, key) == Complete(disk[ta])
Cached(ta, key) == Complete(disk[ta]) /\ disk[ta].key = key

(* The arguments, the task list and the cache are read before anything is   *)
(* spent.                                                                   *)
Launch(c, n, arms) ==
  /\ mode \in {"off", "done"} /\ launches < MaxLaunches
  /\ launches' = launches + 1
  /\ config' = c
  /\ asked' = [n |-> n, arms |-> arms]
  /\ place' = <<1, 1>>
  /\ pending' = <<>> /\ results' = <<>>
  /\ mode' = "scanning"
  /\ UNCHANGED <<disk, summary>>

(* The scan takes the tasks in order, and of each task every arm.           *)
Scanned == place[1] > asked.n
TaskArm(p) == <<Tasks[p[1]], asked.arms[p[2]]>>
Here == TaskArm(place)
Advance ==
  place' = IF place[2] < Len(asked.arms) THEN <<place[1], place[2] + 1>>
           ELSE <<place[1] + 1, 1>>

(* Mutant of Scan: what is reused is run again all the same. *)
ScanAll ==
  /\ mode = "scanning" /\ ~Scanned
  /\ pending' = Append(pending, place)
  /\ Advance
  /\ UNCHANGED <<mode, config, asked, results, disk, summary, launches>>

(* What is reused goes to the front of the results. *)
Scan ==
  /\ mode = "scanning" /\ ~Scanned
  /\ IF Cached(Here, config[1])
     THEN /\ results' = Append(results,
               [at |-> place, ta |-> Here, verdict |-> disk[Here].verdict,
                setting |-> disk[Here].setting, cached |-> TRUE])
          /\ UNCHANGED pending
     ELSE pending' = Append(pending, place) /\ UNCHANGED results
  /\ Advance
  /\ UNCHANGED <<mode, config, asked, disk, summary, launches>>

(* What the invocation knew is gone; the files stay.                        *)
Exit ==
  /\ mode' = "off"
  /\ asked' = Nothing /\ place' = <<1, 1>>
  /\ pending' = <<>> /\ results' = <<>>
  /\ UNCHANGED <<config, disk, summary, launches>>

(* _estimate_and_confirm: nothing to run needs no confirmation; otherwise   *)
(* the user may decline.                                                    *)
Confirm ==
  /\ mode = "scanning" /\ Scanned
  /\ mode' = "running"
  /\ UNCHANGED <<config, asked, place, pending, results, disk, summary, launches>>

Decline ==
  /\ mode = "scanning" /\ Scanned /\ pending # <<>>
  /\ Exit

(* The next pending task-arm: _build_task_input, then run_task.             *)
Current == TaskArm(Head(pending))
StartTask ==
  /\ mode = "running" /\ pending # <<>>
  /\ mode' = "task"
  /\ UNCHANGED <<config, asked, place, pending, results, disk, summary, launches>>

(* Mutant of TruncateTrajectory: a trajectory without a verdict is written  *)
(* when the task starts.                                                    *)
WriteEarly ==
  /\ mode = "task"
  /\ disk' = [disk EXCEPT ![Current] = Trajectory(config[1], config[2], "None")]
  /\ mode' = "writing"
  /\ UNCHANGED <<config, asked, place, pending, results, summary, launches>>

(* run_task reaches its only write: the file is truncated, then written.    *)
TruncateTrajectory ==
  /\ mode = "task"
  /\ disk' = [disk EXCEPT ![Current] = Partial]
  /\ mode' = "writing"
  /\ UNCHANGED <<config, asked, place, pending, results, summary, launches>>

(* Mutant of WriteTrajectory: a task that ended in ERROR stays pending. *)
WriteAndRetry(v) ==
  /\ mode = "writing"
  /\ disk' = [disk EXCEPT ![Current] = Trajectory(config[1], config[2], v)]
  /\ results' = IF v = "ERROR" THEN results
                ELSE Append(results, [at |-> Head(pending), ta |-> Current, verdict |-> v,
                                      setting |-> config[2], cached |-> FALSE])
  /\ pending' = IF v = "ERROR" THEN pending ELSE Tail(pending)
  /\ mode' = "running"
  /\ UNCHANGED <<config, asked, place, summary, launches>>

WriteTrajectory(v) ==
  /\ mode = "writing"
  /\ disk' = [disk EXCEPT ![Current] = Trajectory(config[1], config[2], v)]
  /\ results' = Append(results, [at |-> Head(pending), ta |-> Current, verdict |-> v,
                                 setting |-> config[2], cached |-> FALSE])
  /\ pending' = Tail(pending)
  /\ mode' = "running"
  /\ UNCHANGED <<config, asked, place, summary, launches>>

TruncateSummary ==
  /\ mode = "running" /\ pending = <<>>
  /\ summary' = Partial
  /\ mode' = "closing"
  /\ UNCHANGED <<config, asked, place, pending, results, disk, launches>>

WriteSummary ==
  /\ mode = "closing"
  /\ summary' = [state |-> "complete", results |-> results]
  /\ mode' = "done"
  /\ UNCHANGED <<config, asked, place, pending, results, disk, launches>>

(* Killed, or an exception out of _build_task_input or run_task: the rest   *)
(* of the batch is not run and only the files survive.                      *)
Die == mode \notin {"off", "done"} /\ Exit

Idle == mode \in {"off", "done"} /\ launches = MaxLaunches /\ UNCHANGED smokeVars

-----------------------------------------------------------------------------
Work ==
  \/ Scan \/ Confirm \/ StartTask
  \/ TruncateTrajectory \/ \E v \in Verdicts : WriteTrajectory(v)
  \/ TruncateSummary \/ WriteSummary

SmokeNext ==
  \/ \E c \in Config, n \in 1 .. Len(Tasks), arms \in ArmLists : Launch(c, n, arms)
  \/ Work \/ Decline \/ Die \/ Idle

SmokeSpec == SmokeInit /\ [][SmokeNext]_smokeVars

-----------------------------------------------------------------------------
(* PROPERTIES                                                              *)

Files ==
  {Absent, Partial}
  \cup [state: {"complete"}, key: Keys, setting: Settings, verdict: Verdicts]
PlacesAsked == (1 .. asked.n) \X (1 .. Len(asked.arms))
ResultType ==
  [at: Nat \X Nat, ta: TaskArms, verdict: Verdicts, setting: Settings, cached: BOOLEAN]

(* Type invariant; a trajectory on disk that parses has a verdict. *)
SmokeTypeOK ==
  /\ mode \in {"off", "scanning", "running", "task", "writing", "closing", "done"}
  /\ config \in Config
  /\ asked \in [n: 0 .. Len(Tasks), arms: ArmLists \cup {<<>>}]
  /\ place \in (1 .. asked.n + 1) \X (1 .. Len(asked.arms) + 1)
  /\ mode # "off" => asked.arms \in ArmLists /\ place[2] <= Len(asked.arms)
  /\ pending \in Seq(PlacesAsked)
  /\ results \in Seq(ResultType)
  /\ disk \in [TaskArms -> Files]
  /\ launches \in 0 .. MaxLaunches

(***************************************************************************)
(* When an invocation ends, however often earlier ones were killed and     *)
(* whatever models they ran, its summary has one entry per selected task   *)
(* and arm named (an arm named twice is two entries), and for every entry  *)
(* the trajectory on disk is complete and of this model and seed, with the *)
(* verdict of the last entry of its task-arm.                              *)
(***************************************************************************)
LastOf(k) == \A l \in DOMAIN results : l > k => results[l].ta # results[k].ta
SummaryAgrees ==
  mode = "done" =>
    /\ summary = [state |-> "complete", results |-> results]
    /\ { results[k].at : k \in DOMAIN results } = PlacesAsked
    /\ \A k, l \in DOMAIN results : results[k].at = results[l].at => k = l
    /\ \A k \in DOMAIN results :
         LET file == disk[results[k].ta] IN
           /\ results[k].ta = TaskArm(results[k].at)
           /\ Complete(file) /\ file.key = config[1]
           /\ LastOf(k) => file.verdict = results[k].verdict

(***************************************************************************)
(* Resuming never spends twice: a trajectory completed for this model and  *)
(* seed is not touched again while that model and seed are run, unless by  *)
(* the invocation that made it, for an arm it was given twice.             *)
(***************************************************************************)
NamedTwice(arm) ==
  \E i, j \in DOMAIN asked.arms : i # j /\ asked.arms[i] = arm /\ asked.arms[j] = arm
RunAgain(ta) ==
  NamedTwice(ta[2]) /\ \E k \in DOMAIN results : results[k].ta = ta /\ ~results[k].cached
KeepsCompleted ==
  [][\A ta \in TaskArms :
       Cached(ta, config[1]) /\ config' = config =>
         disk'[ta] = disk[ta] \/ RunAgain(ta)]_smokeVars

(* An invocation that is not killed or declined writes its summary: no task *)
(* can hold the batch for ever.                                             *)
LaunchEnds == []<>(mode \in {"off", "done"})

(***************************************************************************)
(* What run_smoke.py says of its cache: a hit from a different config is   *)
(* never silently reused, so a summary does not mix configurations.  The   *)
(* code compares the model and the seed only.                              *)
(***************************************************************************)
NoMixedConfigurations ==
  mode = "done" => \A i \in DOMAIN results : results[i].setting = config[2]
=============================================================================
