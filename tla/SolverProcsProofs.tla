------------------------- MODULE SolverProcsProofs -------------------------
(***************************************************************************)
(* The verdict of check_bmc is fail-closed for any number of batches,      *)
(* checks and interruptions, with a taskkill that works or one that does   *)
(* not, and whoever kills which process when; and a batch alone on the     *)
(* machine shares it with no process of a check that is over.              *)
(***************************************************************************)
EXTENDS SolverProcs, TLAPS

(* Killing can only remove processes. *)
LEMMA TaskkillType ==
  ASSUME NEW c \in Checks, NEW k, live \in [Checks -> SUBSET Kinds], Taskkill(c, k)
  PROVE  live' \in [Checks -> SUBSET Kinds]
  BY DEF Taskkill

(* The check a batch is at is one of the checks. *)
LEMMA CurrentType ==
  ASSUME TypeOK, NEW b \in Batches, done[b] < NChecks
  PROVE  Current(b) \in Checks /\ done[b] + 1 \in 1 .. NChecks
  BY BoundsAssumption DEF TypeOK, Current, Checks

(* A batch with a check to do has not reached the bound.                    *)
LEMMA MoreTasks ==
  ASSUME NEW b \in Batches, done \in [Batches -> 0 .. NChecks], done[b] < Tasks[b]
  PROVE  done[b] < NChecks
<1>1. Tasks[b] \in 1 .. NChecks /\ done[b] \in 0 .. NChecks
  BY TasksAssumption
<1> QED
  BY <1>1, BoundsAssumption

IndInv == TypeOK /\ LogTrue

LEMMA IndInit == Init => IndInv
<1> SUFFICES ASSUME Init PROVE IndInv
  OBVIOUS
<1>1. TypeOK
  BY BoundsAssumption DEF Init, TypeOK, NoVerdicts, LogTexts
<1>2. LogTrue
  BY DEF Init, LogTrue
<1>3. QED BY <1>1, <1>2 DEF IndInv

(* What a batch does keeps the types and the truth of the logs. *)
LEMMA BatchIndStep ==
  ASSUME IndInv, NEW b \in Batches, BatchStep(b) \/ Interrupt(b)
  PROVE  IndInv'
<1> USE BoundsAssumption DEF IndInv, TypeOK, LogTrue, Diverges
<1>1. CASE Start(b)
  <2>1. Running \in SUBSET (Checks \X SolverProcessNames)
    BY DEF Running
  <2>2. QED BY <1>1, <2>1 DEF Start
<1>2. CASE SweepDone(b)
  BY <1>2 DEF SweepDone
<1>3. ASSUME NEW c \in Checks, NEW k \in Kinds, SweepKill(b, c, k)
      PROVE  IndInv'
  <2>1. live' \in [Checks -> SUBSET Kinds]
    BY <1>3, TaskkillType DEF SweepKill
  <2>2. QED BY <1>3, <2>1 DEF SweepKill
<1>4. CASE Popen(b)
  <2>1. done[b] < NChecks
    BY <1>4, MoreTasks DEF Popen
  <2>2. live' \in [Checks -> SUBSET Kinds]
    BY <1>4, <2>1, CurrentType DEF Popen, Kinds
  <2>3. QED BY <1>4, <2>1, <2>2 DEF Popen, LogTexts
<1>5. ASSUME NEW v \in {"REFUTED", "PROVEN-BMC", "INDETERMINATE"},
             mode[b] \in {"wait", "reap"}, Returned(b, v)
      PROVE  IndInv'
  <2>1. done[b] + 1 \in 0 .. NChecks /\ done[b] + 1 \in 1 .. NChecks
    BY <1>5
  <2>2. verdict' \in [Batches -> [1 .. NChecks ->
                       {"None", "REFUTED", "PROVEN-BMC", "INDETERMINATE"}]]
    BY <1>5, <2>1 DEF Returned
  <2>3. TypeOK'
    BY <1>5, <2>1, <2>2 DEF Returned
  <2>4. LogTrue'
    BY <1>5 DEF Returned
  <2>5. QED BY <2>3, <2>4
<1>6. CASE Communicate(b)
  BY <1>5, <1>6 DEF Communicate, Classify
<1>7. CASE TimeoutExpired(b)
  <2>1. live' \in [Checks -> SUBSET Kinds]
    BY <1>7, TaskkillType, CurrentType DEF TimeoutExpired
  <2>2. QED BY <1>7, <2>1 DEF TimeoutExpired
<1>8. CASE Reap(b)
  BY <1>5, <1>8 DEF Reap
<1>9. CASE Finish(b)
  BY <1>9 DEF Finish
<1>10. CASE Interrupt(b)
  <2>1. NoVerdicts \in [1 .. NChecks ->
                      {"None", "REFUTED", "PROVEN-BMC", "INDETERMINATE"}]
    BY DEF NoVerdicts
  <2> epoch[b] + 1 \in 0 .. MaxCrashes
    BY <1>10 DEF Interrupt
  <2> log' \in [Batches -> LogTexts]
    BY <1>10 DEF Interrupt, LogTexts
  <2>2. /\ epoch' \in [Batches -> 0 .. MaxCrashes]
        /\ done' \in [Batches -> 0 .. NChecks]
        /\ found' \in [Batches -> SUBSET (Checks \X SolverProcessNames)]
    BY <1>10, <2>1 DEF Interrupt
  <2>3. verdict' \in [Batches -> [1 .. NChecks ->
                       {"None", "REFUTED", "PROVEN-BMC", "INDETERMINATE"}]]
    BY <1>10, <2>1 DEF Interrupt
  <2>4. TypeOK'
    BY <1>10, <2>1, <2>2, <2>3 DEF Interrupt
  <2>5. LogTrue'
    BY <1>10 DEF Interrupt
  <2>6. QED BY <2>4, <2>5
<1> HIDE DEF IndInv, TypeOK, LogTrue, Diverges
<1>11. QED
  BY <1>1, <1>2, <1>3, <1>4, <1>6, <1>7, <1>8, <1>9, <1>10 DEF BatchStep

(* So does what the processes do: sby reports only what is true. *)
LEMMA ProcessIndStep ==
  ASSUME IndInv, NEW c \in Checks, ProcessStep(c)
  PROVE  IndInv'
<1> USE DEF IndInv, TypeOK, LogTrue, Diverges, Kinds
<1>1. c[1] \in Batches
  BY DEF Checks
<1>2. CASE SbyStartsYosys(c)
  BY <1>2 DEF SbyStartsYosys, batchVars
<1>3. CASE SbyStartsSolver(c)
  BY <1>3 DEF SbyStartsSolver, batchVars
<1>4. ASSUME NEW k \in Kinds, ChildExits(c, k)
      PROVE  IndInv'
  BY <1>4 DEF ChildExits, batchVars
<1>5. CASE SbyReports(c)
  <2>1. log' \in [Batches -> LogTexts]
    BY <1>1, <1>5 DEF SbyReports, Prints, LogTexts
  <2>2. LogTrue'
    BY <1>1, <1>5 DEF SbyReports, Prints, batchVars
  <2>3. QED BY <1>5, <2>1, <2>2 DEF SbyReports, batchVars
<1>6. CASE SbyGivesUp(c)
  <2>1. log' \in [Batches -> LogTexts]
    BY <1>1, <1>6 DEF SbyGivesUp, Prints, LogTexts
  <2>2. LogTrue'
    BY <1>1, <1>6 DEF SbyGivesUp, Prints, batchVars
  <2>3. QED BY <1>6, <2>1, <2>2 DEF SbyGivesUp, batchVars
<1> HIDE DEF IndInv, TypeOK, LogTrue, Diverges, Kinds
<1>7. QED BY <1>2, <1>5, <1>6, <1>3, <1>4 DEF ProcessStep

LEMMA IndStep == IndInv /\ [Next]_vars => IndInv'
<1> SUFFICES ASSUME IndInv, [Next]_vars PROVE IndInv'
  OBVIOUS
<1>1. CASE UNCHANGED vars
  BY <1>1 DEF vars, batchVars, IndInv, TypeOK, LogTrue, Diverges
<1>2. QED
  BY <1>1, BatchIndStep, ProcessIndStep DEF Next, AllDone

LEMMA IndCorrect == Spec => []IndInv
<1>1. QED BY IndInit, IndStep, PTL DEF Spec

(* The type invariant of the process model. *)
THEOREM TypeCorrect == Spec => []TypeOK
<1>1. IndInv => TypeOK
  BY DEF IndInv
<1>2. QED BY <1>1, IndCorrect, PTL

(* No step puts a false verdict on record. *)
LEMMA SoundStep == IndInv /\ VerdictSound /\ [Next]_vars => VerdictSound'
<1> SUFFICES ASSUME IndInv, VerdictSound, [Next]_vars PROVE VerdictSound'
  OBVIOUS
<1> USE DEF VerdictSound
<1>1. CASE UNCHANGED <<verdict, truth>>
  BY <1>1
<1>2. ASSUME NEW b \in Batches, Communicate(b)
      PROVE  VerdictSound'
  <2>1. /\ log[b] = "fail" => truth[b][done[b] + 1]
        /\ log[b] = "pass" => ~truth[b][done[b] + 1]
    BY <1>2 DEF Communicate, IndInv, LogTrue, Diverges
  <2>2. /\ verdict' = [verdict EXCEPT ![b][done[b] + 1] = Classify(log[b])]
        /\ truth' = truth
    BY <1>2 DEF Communicate, Returned
  <2>3. /\ Classify(log[b]) = "REFUTED" => truth[b][done[b] + 1]
        /\ Classify(log[b]) = "PROVEN-BMC" => ~truth[b][done[b] + 1]
    BY <2>1 DEF Classify
  <2>4. QED BY <2>2, <2>3 DEF IndInv, TypeOK
<1>3. ASSUME NEW b \in Batches, Reap(b)
      PROVE  VerdictSound'
  <2>1. /\ verdict' = [verdict EXCEPT ![b][done[b] + 1] = "INDETERMINATE"]
        /\ truth' = truth
    BY <1>3 DEF Reap, Returned
  <2>2. QED BY <2>1 DEF IndInv, TypeOK
<1>4. ASSUME NEW b \in Batches, Interrupt(b)
      PROVE  VerdictSound'
  BY <1>4 DEF Interrupt, NoVerdicts, IndInv, TypeOK
<1>5. ASSUME NEW c \in Checks, ProcessStep(c)
      PROVE  UNCHANGED <<verdict, truth>>
  BY <1>5 DEF ProcessStep, SbyStartsYosys, SbyStartsSolver, SbyReports,
              SbyGivesUp, ChildExits
<1>6. ASSUME NEW b \in Batches, NEW c \in Checks, NEW k \in Kinds, SweepKill(b, c, k)
      PROVE  UNCHANGED <<verdict, truth>>
  BY <1>6 DEF SweepKill
<1>7. ASSUME NEW b \in Batches,
             Start(b) \/ SweepDone(b) \/ Popen(b) \/ TimeoutExpired(b) \/ Finish(b)
      PROVE  UNCHANGED <<verdict, truth>>
  BY <1>7 DEF Start, SweepDone, Popen, TimeoutExpired, Finish
<1> HIDE DEF VerdictSound
<1>8. QED
  BY <1>1, <1>2, <1>3, <1>4, <1>5, <1>6, <1>7
     DEF Next, BatchStep, AllDone, vars

(* check_bmc never returns a false REFUTED or a false PROVEN-BMC, for any  *)
(* number of batches that time out, crash and sweep each other's solvers.  *)
THEOREM VerdictSoundCorrect == Spec => []VerdictSound
<1>1. Init => VerdictSound
  BY DEF Init, VerdictSound, NoVerdicts
<1>2. QED BY <1>1, SoundStep, IndCorrect, PTL DEF Spec

-----------------------------------------------------------------------------
(* A batch alone on the machine has only the check it waits for running. *)

(* A taskkill that works leaves a tree, and nothing of it if it met sby. *)
LEMMA TaskkillTree ==
  ASSUME TaskkillWorks, live \in [Checks -> SUBSET Kinds], NEW c \in Checks, NEW k,
         live[c] \in Trees, Taskkill(c, k)
  PROVE  /\ live' \in [Checks -> SUBSET Kinds]
         /\ \A e \in Checks \ {c} : live'[e] = live[e]
         /\ live'[c] \in Trees /\ live'[c] \subseteq live[c]
         /\ k = "sby" => live'[c] = {}
<1>1. live' = [live EXCEPT ![c] = @ \ Subtree(c, k)]
  BY DEF Taskkill
<1>2. live'[c] = live[c] \ Subtree(c, k) /\ \A e \in Checks \ {c} : live'[e] = live[e]
  BY <1>1
<1>3. live' \in [Checks -> SUBSET Kinds]
  BY <1>1
<1>4. live[c] \ Subtree(c, k) \in Trees
  BY DEF Subtree, Trees
<1>5. k = "sby" => live[c] \ Subtree(c, k) = {}
  BY DEF Subtree, Trees
<1> QED
  BY <1>2, <1>3, <1>4, <1>5

(* What the processes do leaves trees, and starts none where there is none. *)
LEMMA ProcessTree ==
  ASSUME live \in [Checks -> SUBSET Kinds], NEW c \in Checks,
         live[c] \in Trees, ProcessStep(c)
  PROVE  /\ \A e \in Checks \ {c} : live'[e] = live[e]
         /\ live'[c] \in Trees /\ live[c] # {}
         /\ UNCHANGED batchVars
<1>1. CASE SbyStartsYosys(c)
  BY <1>1 DEF SbyStartsYosys, Trees
<1>2. CASE SbyStartsSolver(c)
  BY <1>2 DEF SbyStartsSolver, Trees
<1>3. CASE SbyReports(c)
  BY <1>3 DEF SbyReports, Trees
<1>4. CASE SbyGivesUp(c)
  BY <1>4 DEF SbyGivesUp, Trees
<1>5. ASSUME NEW k \in Kinds, ChildExits(c, k)
      PROVE  /\ \A e \in Checks \ {c} : live'[e] = live[e]
             /\ live'[c] \in Trees /\ live[c] # {}
             /\ UNCHANGED batchVars
  <2>1. live' = [live EXCEPT ![c] = @ \ {k}] /\ UNCHANGED batchVars
        /\ k \in live[c] \ {"sby"} /\ (k = "smtbmc" => "solver" \notin live[c])
    BY <1>5 DEF ChildExits
  <2>2. live'[c] = live[c] \ {k} /\ \A e \in Checks \ {c} : live'[e] = live[e]
    BY <2>1
  <2>3. live[c] \ {k} \in Trees
    BY <2>1 DEF Trees
  <2> QED
    BY <2>1, <2>2, <2>3
<1> QED
  BY <1>1, <1>2, <1>3, <1>4, <1>5 DEF ProcessStep

(* A closed pipe means that nothing of the check is left. *)
LEMMA ClosedTree ==
  ASSUME NEW c \in Checks, live[c] \in Trees
  PROVE  PipeClosed(c) <=> live[c] = {}
  BY BoundsAssumption DEF PipeClosed, Trees

(* A step of another batch, or one that it leaves behind: b is not alone. *)
LEMMA NotAlone ==
  ASSUME TypeOK, NEW a \in Batches, NEW b \in Batches, a # b, BatchStep(a) \/ Interrupt(a)
  PROVE  ~Alone(b)'
<1>1. mode'[a] # "off" \/ epoch'[a] # 0
  <2>1. CASE Interrupt(a)
    BY <2>1, BoundsAssumption DEF Interrupt, TypeOK
  <2>2. CASE BatchStep(a)
    BY <2>2 DEF BatchStep, Start, SweepDone, SweepKill, Popen, Communicate, TimeoutExpired,
                Reap, Finish, Returned, TypeOK
  <2> QED
    BY <2>1, <2>2
<1> QED
  BY <1>1 DEF Alone

LEMMA SweptBatch ==
  ASSUME IndInv, SweptInv, NEW b \in Batches, BatchStep(b) \/ Interrupt(b)
  PROVE  SweptInv'
<1> SUFFICES ASSUME TaskkillWorks PROVE SweptInv'
  BY DEF SweptInv
<1> DEFINE Own(d) ==
      \A c \in Checks : live[c] # {} =>
        /\ mode[d] = "sweep" => <<c, "sby">> \in found[d]
        /\ mode[d] \notin {"next", "reap", "done"}
        /\ mode[d] = "wait" => c = Current(d)
<1>1. /\ TypeOK /\ \A c \in Checks : live[c] \in Trees
      /\ Alone(b) => Own(b)
  BY DEF IndInv, SweptInv
<1>2. Alone(b)' => Alone(b)
  <2>1. ASSUME NEW a \in Batches, a # b PROVE mode'[a] = mode[a] /\ epoch'[a] = epoch[a]
    <3>1. CASE Interrupt(b)
      BY <2>1, <3>1 DEF Interrupt, IndInv, TypeOK
    <3>2. CASE BatchStep(b)
      BY <2>1, <3>2 DEF BatchStep, Start, SweepDone, SweepKill, Popen, Communicate,
                TimeoutExpired, Reap, Finish, Returned, IndInv, TypeOK
    <3> QED
      BY <3>1, <3>2
  <2> QED
    BY <2>1 DEF Alone
<1>3. SUFFICES /\ \A c \in Checks : live'[c] \in Trees
               /\ Alone(b) => Own(b)'
  BY <1>2, NotAlone DEF SweptInv, IndInv
<1> USE DEF TypeOK
<1>4. CASE Start(b)
  <2>1. /\ live' = live /\ mode'[b] = "sweep" /\ found'[b] = Running
    BY <1>1, <1>4 DEF Start
  <2>2. ASSUME NEW c \in Checks, live[c] # {} PROVE <<c, "sby">> \in Running
    BY <1>1, <2>2 DEF Running, Trees, SolverProcessNames
  <2> QED
    BY <1>1, <2>1, <2>2
<1>5. ASSUME NEW e \in Checks, NEW k \in Kinds, SweepKill(b, e, k)
      PROVE  (\A c \in Checks : live'[c] \in Trees) /\ (Alone(b) => Own(b)')
  <2>1. /\ mode' = mode /\ mode[b] = "sweep" /\ Taskkill(e, k)
        /\ found'[b] = found[b] \ {<<e, k>>}
    BY <1>1, <1>5 DEF SweepKill
  <2>2. /\ \A c \in Checks \ {e} : live'[c] = live[c]
        /\ live'[e] \in Trees /\ live'[e] \subseteq live[e]
        /\ k = "sby" => live'[e] = {}
    BY <1>1, <2>1, TaskkillTree
  <2>3. ASSUME Alone(b), NEW c \in Checks, live'[c] # {} PROVE <<c, "sby">> \in found'[b]
    <3>1. live[c] # {} /\ <<c, "sby">> # <<e, k>>
      BY <2>2, <2>3
    <3>2. <<c, "sby">> \in found[b]
      BY <1>1, <2>1, <2>3, <3>1
    <3> QED
      BY <2>1, <3>1, <3>2
  <2>4. \A c \in Checks : live'[c] \in Trees
    BY <1>1, <2>2
  <2> QED
    BY <2>1, <2>3, <2>4
<1>6. CASE SweepDone(b)
  <2>1. /\ live' = live /\ mode[b] = "sweep" /\ found[b] = {}
    BY <1>6 DEF SweepDone
  <2>2. Alone(b) => \A c \in Checks : live'[c] = {}
    BY <1>1, <2>1
  <2> QED
    BY <1>1, <2>1, <2>2
<1>7. CASE Popen(b)
  <2>1. Current(b) \in Checks
    BY <1>1, <1>7, MoreTasks, CurrentType DEF Popen
  <2>2. /\ mode[b] = "next" /\ mode'[b] = "wait" /\ live' = [live EXCEPT ![Current(b)] = {"sby"}]
        /\ Current(b)' = Current(b)
    BY <1>1, <1>7 DEF Popen, Current
  <2>3. \A c \in Checks : live'[c] = IF c = Current(b) THEN {"sby"} ELSE live[c]
    BY <1>1, <2>1, <2>2
  <2>4. \A c \in Checks : live'[c] \in Trees
    BY <1>1, <2>3 DEF Trees
  <2>5. Alone(b) => \A c \in Checks : live'[c] # {} => c = Current(b)
    BY <1>1, <2>2, <2>3
  <2> QED
    BY <2>2, <2>4, <2>5
<1>8. CASE Communicate(b) \/ Reap(b)
  <2>1. /\ mode[b] \in {"wait", "reap"} /\ PipeClosed(Current(b)) /\ live' = live
    BY <1>8 DEF Communicate, Reap, Returned
  <2>2. Current(b) \in Checks
    BY <1>1, <2>1, CurrentType DEF IndInv, LogTrue
  <2>3. live[Current(b)] = {}
    BY <1>1, <2>1, <2>2, ClosedTree
  <2>4. Alone(b) => \A c \in Checks : live[c] = {}
    BY <1>1, <2>1, <2>3
  <2> QED
    BY <1>1, <2>1, <2>4
<1>9. CASE TimeoutExpired(b)
  <2>1. /\ mode[b] = "wait" /\ mode'[b] = "reap" /\ ~PipeClosed(Current(b))
        /\ IF "sby" \in live[Current(b)] THEN Taskkill(Current(b), "sby") ELSE UNCHANGED live
    BY <1>1, <1>9 DEF TimeoutExpired
  <2>2. Current(b) \in Checks
    BY <1>1, <2>1, CurrentType DEF IndInv, LogTrue
  <2>3. live[Current(b)] # {}
    BY <1>1, <2>1, <2>2, ClosedTree
  <2>4. "sby" \in live[Current(b)]
    BY <1>1, <2>2, <2>3 DEF Trees
  <2>5. /\ \A c \in Checks \ {Current(b)} : live'[c] = live[c]
        /\ live'[Current(b)] = {}
    BY <1>1, <2>1, <2>2, <2>4, TaskkillTree
  <2>6. \A c \in Checks : live'[c] \in Trees
    BY <1>1, <2>2, <2>5 DEF Trees
  <2>7. Alone(b) => \A c \in Checks : live'[c] = {}
    BY <1>1, <2>1, <2>2, <2>5
  <2> QED
    BY <2>6, <2>7
<1>10. CASE Finish(b)
  <2>1. live' = live /\ mode[b] = "next"
    BY <1>10 DEF Finish
  <2>2. Alone(b) => \A c \in Checks : live'[c] = {}
    BY <1>1, <2>1
  <2> QED
    BY <1>1, <2>1, <2>2
<1>11. CASE Interrupt(b)
  BY <1>1, <1>11 DEF Interrupt
<1> QED
  BY <1>4, <1>5, <1>6, <1>7, <1>8, <1>9, <1>10, <1>11 DEF BatchStep

LEMMA SweptStep == IndInv /\ SweptInv /\ [Next]_vars => SweptInv'
<1> SUFFICES ASSUME IndInv, SweptInv, [Next]_vars PROVE SweptInv'
  OBVIOUS
<1>1. CASE UNCHANGED vars
  BY <1>1 DEF vars, batchVars, SweptInv, Alone, Current
<1>2. ASSUME NEW c \in Checks, ProcessStep(c) PROVE SweptInv'
  <2> SUFFICES ASSUME TaskkillWorks PROVE SweptInv'
    BY DEF SweptInv
  <2>1. /\ \A e \in Checks \ {c} : live'[e] = live[e]
        /\ live'[c] \in Trees /\ live[c] # {} /\ UNCHANGED batchVars
    BY <1>2, ProcessTree DEF IndInv, TypeOK, SweptInv
  <2>2. \A e \in Checks : live'[e] \in Trees /\ (live'[e] # {} => live[e] # {})
    BY <2>1 DEF SweptInv
  <2> QED
    BY <2>1, <2>2 DEF SweptInv, batchVars, Alone, Current
<1> QED
  BY <1>1, <1>2, SweptBatch DEF Next, AllDone

(* With a taskkill that works, a batch alone on the machine shares it with *)
(* no process but those of the check it waits for, however often it was    *)
(* interrupted and whichever of its checks timed out.                      *)
THEOREM OnlyOwnSolversCorrect == Spec => []OnlyOwnSolvers
<1>1. Init => SweptInv
  BY DEF Init, SweptInv, Trees
<1>2. SweptInv => OnlyOwnSolvers
  BY DEF SweptInv, OnlyOwnSolvers
<1> QED
  BY <1>1, <1>2, SweptStep, IndCorrect, PTL DEF Spec
=============================================================================
