------------------------- MODULE ForgeCorpusProofs -------------------------
(***************************************************************************)
(* The corpus generator, for every list of candidates, every run of it and *)
(* every failure of a stage: its accounting, the truth of its records and  *)
(* their files, and that no candidate is lost or listed twice.             *)
(***************************************************************************)
EXTENDS ForgeCorpus, TLAPS

(* Every step of the two drivers, and stuttering, keeps the counts right.   *)
LEMMA CountStep == ASSUME CountInv, [Next]_vars PROVE CountInv'
<1> USE CandidatesAssumption, RunsAssumption
<1>0. Len(fresh) \in Nat /\ Len(records) \in Nat
  BY DEF CountInv
<1>1. ASSUME NEW s \in Sources, Launch(s) PROVE CountInv'
  BY <1>1, <1>0 DEF CountInv, Launch, Processing, Accounted, loop, corpus
<1>2. CASE GoldenPasses
  <2>1. Candidates[source][design] \in Seq(Mutants)
    BY <1>2 DEF CountInv, GoldenPasses
  <2>2. Len(Candidates[source][design]) \in Nat
    BY <2>1
  <2> QED
    BY <1>2, <2>2 DEF CountInv, GoldenPasses, Processing, Accounted, corpus, Todo
<1>3. CASE SkipDuplicate
  <2>1. Candidates[source][design] \in Seq(Mutants)
    BY <1>3 DEF CountInv, SkipDuplicate
  <2>2. Len(Candidates[source][design]) \in Nat
    BY <2>1
  <2> QED
    BY <1>0, <1>3, <2>2 DEF CountInv, SkipDuplicate, Processing, Accounted, corpus, Todo
<1>4. CASE TakeCandidate
  BY <1>4 DEF CountInv, TakeCandidate, Processing, Accounted, corpus, Todo
<1>5. CASE WriteMutant
  BY <1>5 DEF CountInv, WriteMutant, Processing, Accounted, corpus, loop, Todo
<1>6. ASSUME NEW o \in Outcomes, Simulate(o) PROVE CountInv'
  BY <1>6 DEF CountInv, Simulate, Processing, Accounted, corpus, Todo
<1>7. ASSUME NEW d \in {"KEEP", "SILENT", "QUARANTINE", "DISCARD", "ERROR"},
             NEW o \in Outcomes \cup {"None"},
             NEW f \in {"REFUTED", "PROVEN-BMC", "INDETERMINATE", "None"},
             Processing, RecordTask(d, o, f)
      PROVE CountInv'
  <2>1. Candidates[source][design] \in Seq(Mutants) /\ position < Len(Todo)
    BY <1>7 DEF CountInv, Todo
  <2>2. position + 1 \in 1 .. Len(Candidates[source][design])
    BY <2>1 DEF CountInv, Todo
  <2>3. Mutant \in Mutants
    BY <2>1, <2>2 DEF Mutant, Todo
  <2>4. Task \in (1 .. NDesigns) \X (Nat \ {0})
    BY <1>7 DEF CountInv, Task
  <2>5. TaskRecord(d, o, f) \in RecordType
    BY <2>3, <2>4 DEF TaskRecord, RecordType
  <2>6. fresh' \in Seq(RecordType) /\ Len(fresh') = Len(fresh) + 1
    BY <1>7, <2>5 DEF RecordTask, CountInv
  <2>7. position' \in Nat /\ position' <= Len(Todo) /\ Todo' = Todo /\ mode' = "candidate"
    BY <1>7, <2>2, <2>1 DEF RecordTask, CountInv, Todo
  <2> QED
    BY <1>0, <1>7, <2>6, <2>7
    DEF CountInv, RecordTask, Processing, Accounted, corpus
<1>8. ASSUME NEW f \in {"REFUTED", "PROVEN-BMC", "INDETERMINATE"}, Decide(f) PROVE CountInv'
  <2>1. sim \in Outcomes /\ Processing
    BY <1>8 DEF Decide, CountInv, Processing
  <2>2. Decision(sim, f) \in {"KEEP", "SILENT", "QUARANTINE", "DISCARD", "ERROR"}
    BY DEF Decision
  <2> QED
    BY <1>7, <1>8, <2>1, <2>2 DEF Decide
<1>9. CASE StageRaises
  BY <1>7, <1>9 DEF StageRaises, Processing
<1>10. CASE DesignDone
  <2>1. Candidates[source][design] \in Seq(Mutants)
    BY <1>10 DEF CountInv, DesignDone
  <2>2. Len(Todo) \in Nat /\ Len(fresh) + duplicates = Len(Todo)
    BY <1>10, <2>1 DEF CountInv, DesignDone, Todo
  <2>3. records' \in Seq(RecordType) /\ Len(records') = Len(records) + Len(fresh)
    BY <1>10 DEF CountInv, DesignDone
  <2>4. /\ distinct \in Nat /\ duplicates \in Nat
        /\ distinct' = distinct + (Len(Todo) - duplicates)
    BY <1>10 DEF CountInv, DesignDone
  <2>5. Len(records) = distinct
    BY <1>10 DEF CountInv, DesignDone, Accounted
  <2>6. distinct' \in Nat /\ Len(records') = distinct'
    BY <1>0, <2>2, <2>3, <2>4, <2>5
  <2>7. /\ design' \in Nat \ {0}
        /\ mode' \in {"golden", "write"}
        /\ mode' = "golden" => design' \in 1 .. NDesigns
    BY <1>10 DEF CountInv, DesignDone
  <2>8. /\ UNCHANGED <<source, position, duplicates, sim, fresh>>
        /\ position \in Nat /\ source \in Sources /\ sim \in Outcomes \cup {"None"}
        /\ fresh \in Seq(RecordType)
    BY <1>10 DEF CountInv, DesignDone
  <2> QED
    BY <2>3, <2>4, <2>6, <2>7, <2>8 DEF CountInv, Processing, Accounted
<1>11. CASE TruncateTasks \/ WriteTasks
  BY <1>11 DEF CountInv, TruncateTasks, WriteTasks, Processing, Accounted, corpus, loop, Todo
<1>12. CASE CorpusEnds \/ WritePromotions \/ Die
  <2>1. Exit /\ source' = source
    BY <1>12 DEF CorpusEnds, WritePromotions, Die
  <2> QED
    BY <2>1 DEF CountInv, Exit, Processing, Accounted
<1>15. CASE LaunchDeep \/ SkipDecided \/ TruncatePromotions \/ Idle
  BY <1>15 DEF CountInv, LaunchDeep, SkipDecided, TruncatePromotions, Idle, Processing, Accounted,
     corpus, loop, vars, Todo
<1>13. ASSUME NEW f \in {"REFUTED", "PROVEN-BMC", "INDETERMINATE"}, CheckDeep(f) PROVE CountInv'
  BY <1>13 DEF CountInv, CheckDeep, Processing, Accounted, corpus, loop, Todo
<1>14. CASE UNCHANGED vars
  BY <1>14 DEF CountInv, Processing, Accounted, corpus, loop, vars, Todo
<1> QED
  BY <1>1, <1>2, <1>3, <1>4, <1>5, <1>6, <1>8, <1>9, <1>10, <1>11, <1>12, <1>13, <1>14, <1>15 DEF Next

(***************************************************************************)
(* The assertion that ends the main of corpus.py never fires: whatever     *)
(* raised and whatever was repeated, one record per distinct candidate.    *)
(***************************************************************************)
THEOREM AccountingCorrect == Spec => []AssertionHolds
<1>1. Init => CountInv
  BY CandidatesAssumption DEF Init, CountInv, Processing, Accounted
<1>2. CountInv => AssertionHolds
  BY DEF CountInv, AssertionHolds
<1> QED
  BY <1>1, <1>2, CountStep, PTL DEF Spec

-----------------------------------------------------------------------------
(* The records are true and the files are theirs. *)

USE CandidatesAssumption, RunsAssumption

(* The task that is processed has a name of its own and a mutant. *)
LEMMA CurrentTask ==
  ASSUME CountInv, Processing
  PROVE  Task \in TaskIds /\ Mutant \in Mutants /\ Task = <<design, position + 1>>
<1>1. source \in Sources /\ design \in 1 .. NDesigns /\ position \in Nat /\ position < Len(Todo)
  BY DEF CountInv
<1>2. Candidates[source][design] \in Seq(Mutants)
  BY <1>1
<1>3. position + 1 \in DOMAIN Candidates[source][design]
  BY <1>1, <1>2 DEF Todo
<1>4. Mutant \in Mutants
  BY <1>2, <1>3 DEF Mutant, Todo
<1>5. Task \in {design} \X DOMAIN Candidates[source][design]
  BY <1>3 DEF Task
<1>6. Task \in UNION { {d} \X DOMAIN Candidates[source][d] : d \in 1 .. NDesigns }
  BY <1>1, <1>5
<1>7. Task \in TaskIds
  BY <1>1, <1>6 DEF TaskIds
<1> QED
  BY <1>4, <1>7 DEF Task

(* A step that leaves the records and what they are about alone. *)
LEMMA RecordsFrame ==
  ASSUME RecordsInv, UNCHANGED <<nature, files, records, tasksFile, design>>,
         mode' = "formal" => sim' \in {nature[Mutant].test, "SIM-INVALID"} /\ Mutant' = Mutant,
         mode' \in {"sim", "formal"} => files[Task] = Mutant /\ Mutant' = Mutant /\ Task' = Task,
         (mode = "candidate" \/ Processing)' =>
           /\ mode = "candidate" \/ Processing
           /\ fresh' = fresh /\ position \in Nat /\ position' \in Nat /\ position <= position'
  PROVE  RecordsInv'
<1>1. ASSUME (mode = "candidate" \/ Processing)', NEW a \in DOMAIN fresh'
      PROVE  /\ DecisionTrue(fresh[a])' /\ FileMatches(fresh[a])'
             /\ \E i \in 1 .. position' : fresh'[a].task = <<design', i>>
  <2>1. /\ DecisionTrue(fresh[a]) /\ FileMatches(fresh[a])
        /\ \E i \in 1 .. position : fresh[a].task = <<design, i>>
    BY <1>1 DEF RecordsInv
  <2>2. /\ nature' = nature /\ files' = files /\ design' = design /\ fresh'[a] = fresh[a]
        /\ 1 .. position \subseteq 1 .. position'
    BY <1>1
  <2>3. DecisionTrue(fresh[a])' /\ FileMatches(fresh[a])'
    BY <2>1, <2>2 DEF DecisionTrue, FileMatches
  <2> QED
    BY <2>1, <2>2, <2>3
<1>2. ASSUME NEW a \in DOMAIN records'
      PROVE  /\ DecisionTrue(records[a])' /\ FileMatches(records[a])'
             /\ \E d \in 1 .. design' - 1, i \in Nat : records'[a].task = <<d, i>>
  BY <1>2 DEF RecordsInv, DecisionTrue, FileMatches
<1>3. IsComplete(tasksFile)' =>
        \A a \in DOMAIN tasksFile'.list : DecisionTrue(tasksFile.list[a])'
  BY DEF RecordsInv, DecisionTrue, IsComplete
<1>4. nature' \in Natures /\ files' \in [TaskIds -> Mutants \cup {NoFile}]
  BY DEF RecordsInv
<1>5. /\ mode' = "formal" => sim' \in {nature'[Mutant'].test, "SIM-INVALID"}
      /\ mode' \in {"sim", "formal"} => files'[Task'] = Mutant'
  OBVIOUS
<1> QED
  BY <1>1, <1>2, <1>3, <1>4, <1>5 DEF RecordsInv

(* A record appended for the current task. *)
LEMMA RecordedTask ==
  ASSUME CountInv, RecordsInv,
         NEW d \in {"KEEP", "SILENT", "QUARANTINE", "DISCARD", "ERROR"},
         NEW o \in Outcomes \cup {"None"},
         NEW f \in {"REFUTED", "PROVEN-BMC", "INDETERMINATE", "None"},
         Processing, RecordTask(d, o, f),
         DecisionTrue(TaskRecord(d, o, f)), FileMatches(TaskRecord(d, o, f))
  PROVE  RecordsInv'
<1> DEFINE r == TaskRecord(d, o, f)
<1>1. /\ mode' = "candidate" /\ position' = position + 1 /\ fresh' = Append(fresh, r)
      /\ UNCHANGED <<nature, files, records, tasksFile, design>>
  BY DEF RecordTask, corpus, disk
<1>2. fresh \in Seq(RecordType) /\ position \in Nat
  BY DEF CountInv
<1>3. r.task = <<design, position + 1>>
  BY CurrentTask DEF TaskRecord
<1>4. ASSUME NEW a \in DOMAIN fresh'
      PROVE  /\ DecisionTrue(fresh[a])' /\ FileMatches(fresh[a])'
             /\ \E i \in 1 .. position' : fresh'[a].task = <<design', i>>
  <2>1. CASE a \in DOMAIN fresh
    <3>1. fresh'[a] = fresh[a]
      BY <1>1, <1>2, <2>1
    <3>2. /\ DecisionTrue(fresh[a]) /\ FileMatches(fresh[a])
          /\ \E i \in 1 .. position : fresh[a].task = <<design, i>>
      BY <2>1 DEF RecordsInv
    <3>3. 1 .. position \subseteq 1 .. position'
      BY <1>1, <1>2
    <3> QED
      BY <1>1, <3>1, <3>2, <3>3 DEF DecisionTrue, FileMatches
  <2>2. CASE a \notin DOMAIN fresh
    <3>1. fresh'[a] = r
      BY <1>1, <1>2, <1>4, <2>2
    <3>2. DecisionTrue(fresh[a])' /\ FileMatches(fresh[a])'
      BY <1>1, <3>1 DEF DecisionTrue, FileMatches
    <3>3. position + 1 \in 1 .. position' /\ fresh'[a].task = <<design', position + 1>>
      BY <1>1, <1>2, <1>3, <3>1
    <3> QED
      BY <3>2, <3>3
  <2> QED
    BY <2>1, <2>2
<1>5. /\ nature' \in Natures /\ files' \in [TaskIds -> Mutants \cup {NoFile}]
      /\ \A a \in DOMAIN records' :
           /\ DecisionTrue(records[a])' /\ FileMatches(records[a])'
           /\ \E e \in 1 .. design' - 1, i \in Nat : records'[a].task = <<e, i>>
  BY <1>1 DEF RecordsInv, DecisionTrue, FileMatches
<1>6. IsComplete(tasksFile)' =>
        \A a \in DOMAIN tasksFile'.list : DecisionTrue(tasksFile.list[a])'
  BY <1>1 DEF RecordsInv, DecisionTrue, IsComplete
<1> QED
  BY <1>1, <1>4, <1>5, <1>6 DEF RecordsInv

(* Every step keeps the records true. *)
LEMMA RecordsStep == ASSUME CountInv, RecordsInv, [Next]_vars PROVE RecordsInv'
<1>1. ASSUME NEW s \in Sources, Launch(s) PROVE RecordsInv'
  BY <1>1, RecordsFrame DEF Launch, loop, corpus, disk, Processing
<1>2. CASE GoldenPasses
  <2>1. /\ UNCHANGED <<nature, files, records, tasksFile, design>>
        /\ mode' = "candidate" /\ fresh' = <<>>
    BY <1>2 DEF GoldenPasses, corpus, disk
  <2>2. /\ nature' \in Natures /\ files' \in [TaskIds -> Mutants \cup {NoFile}]
        /\ \A a \in DOMAIN records' :
             /\ DecisionTrue(records[a])' /\ FileMatches(records[a])'
             /\ \E e \in 1 .. design' - 1, i \in Nat : records'[a].task = <<e, i>>
    BY <2>1 DEF RecordsInv, DecisionTrue, FileMatches
  <2>3. IsComplete(tasksFile)' =>
          \A a \in DOMAIN tasksFile'.list : DecisionTrue(tasksFile.list[a])'
    BY <2>1 DEF RecordsInv, DecisionTrue, IsComplete
  <2> QED
    BY <2>1, <2>2, <2>3 DEF RecordsInv
<1>3. CASE SkipDuplicate
  <2>1. position \in Nat
    BY DEF CountInv
  <2> QED
    BY <1>3, <2>1, RecordsFrame DEF SkipDuplicate, corpus, disk
<1>4. CASE TakeCandidate
  <2>1. position \in Nat
    BY DEF CountInv
  <2> QED
    BY <1>4, <2>1, RecordsFrame DEF TakeCandidate, corpus, disk
<1>5. CASE WriteMutant
  <2>1. Task \in TaskIds /\ Mutant \in Mutants /\ Task = <<design, position + 1>> /\ Processing
    BY <1>5, CurrentTask DEF WriteMutant, Processing
  <2>2. /\ files' = [files EXCEPT ![Task] = Mutant] /\ mode' = "sim"
        /\ UNCHANGED <<nature, fresh, position, records, tasksFile, design, source>>
    BY <1>5 DEF WriteMutant, loop, corpus
  <2>3. files \in [TaskIds -> Mutants \cup {NoFile}] /\ nature \in Natures
    BY DEF RecordsInv
  <2>4. Task' = Task /\ Mutant' = Mutant /\ files'[Task] = Mutant
    BY <2>1, <2>2, <2>3 DEF Task, Mutant, Todo
  <2>5. position \in Nat /\ design \in Nat
    BY DEF CountInv
  <2>6. ASSUME NEW a \in DOMAIN fresh
        PROVE  /\ DecisionTrue(fresh[a])' /\ FileMatches(fresh[a])'
               /\ \E i \in 1 .. position : fresh[a].task = <<design, i>>
    <3>1. /\ DecisionTrue(fresh[a]) /\ FileMatches(fresh[a])
          /\ \E i \in 1 .. position : fresh[a].task = <<design, i>>
      BY <2>1, <2>6 DEF RecordsInv
    <3>2. fresh[a].task # Task
      BY <2>1, <2>5, <3>1
    <3>3. files'[fresh[a].task] = files[fresh[a].task]
      BY <2>2, <2>3, <3>2
    <3> QED
      BY <2>2, <3>1, <3>3 DEF DecisionTrue, FileMatches
  <2>7. ASSUME NEW a \in DOMAIN records
        PROVE  /\ DecisionTrue(records[a])' /\ FileMatches(records[a])'
               /\ \E d \in 1 .. design - 1, i \in Nat : records[a].task = <<d, i>>
    <3>1. /\ DecisionTrue(records[a]) /\ FileMatches(records[a])
          /\ \E d \in 1 .. design - 1, i \in Nat : records[a].task = <<d, i>>
      BY <2>7 DEF RecordsInv
    <3>2. records[a].task # Task
      BY <2>1, <2>5, <3>1
    <3>3. files'[records[a].task] = files[records[a].task]
      BY <2>2, <2>3, <3>2
    <3> QED
      BY <2>2, <3>1, <3>3 DEF DecisionTrue, FileMatches
  <2>8. nature' \in Natures /\ files' \in [TaskIds -> Mutants \cup {NoFile}]
    BY <2>1, <2>2, <2>3
  <2>9. IsComplete(tasksFile)' =>
          \A a \in DOMAIN tasksFile'.list : DecisionTrue(tasksFile.list[a])'
    BY <2>2 DEF RecordsInv, DecisionTrue, IsComplete
  <2> QED
    BY <2>2, <2>4, <2>6, <2>7, <2>8, <2>9 DEF RecordsInv
<1>6. ASSUME NEW o \in Outcomes, Simulate(o) PROVE RecordsInv'
  <2>1. /\ UNCHANGED <<nature, files, records, tasksFile, design, source, position, fresh>>
        /\ mode = "sim" /\ mode' = "formal" /\ sim' \in {nature[Mutant].test, "SIM-INVALID"}
    BY <1>6 DEF Simulate, corpus, disk
  <2>2. Task' = Task /\ Mutant' = Mutant /\ position \in Nat
    BY <2>1 DEF Task, Mutant, Todo, CountInv
  <2>3. files[Task] = Mutant
    BY <2>1 DEF RecordsInv
  <2>4. position' \in Nat /\ position <= position' /\ Processing
    BY <2>1, <2>2 DEF Processing
  <2> QED
    BY <2>1, <2>2, <2>3, <2>4, RecordsFrame
<1>7. ASSUME NEW f \in {"REFUTED", "PROVEN-BMC", "INDETERMINATE"}, Decide(f) PROVE RecordsInv'
  <2>1. /\ mode = "formal" /\ f \in BmcOutcomes(nature[Mutant].in40)
        /\ RecordTask(Decision(sim, f), sim, f)
    BY <1>7 DEF Decide
  <2>2. /\ sim \in Outcomes /\ sim \in {nature[Mutant].test, "SIM-INVALID"}
        /\ files[Task] = Mutant /\ Processing
    BY <2>1 DEF CountInv, RecordsInv, Processing
  <2>3. Decision(sim, f) \in {"KEEP", "SILENT", "QUARANTINE", "DISCARD", "ERROR"}
    BY DEF Decision
  <2>4. f = "REFUTED" => nature[Mutant].in40 = TRUE
    <3>1. nature[Mutant] \in NatureType
      BY <2>2, CurrentTask, NaturesAssumption DEF RecordsInv
    <3> QED
      BY <2>1, <3>1 DEF BmcOutcomes, NatureType
  <2>5. DecisionTrue(TaskRecord(Decision(sim, f), sim, f))
    BY <2>2, <2>4 DEF DecisionTrue, TaskRecord, Decision, Outcomes
  <2>6. FileMatches(TaskRecord(Decision(sim, f), sim, f))
    BY <2>2 DEF FileMatches, TaskRecord
  <2> QED
    BY <2>1, <2>2, <2>3, <2>5, <2>6, RecordedTask
<1>8. CASE StageRaises
  <2>1. Processing /\ RecordTask("ERROR", "None", "None")
    BY <1>8 DEF StageRaises, Processing
  <2>2. DecisionTrue(TaskRecord("ERROR", "None", "None"))
        /\ FileMatches(TaskRecord("ERROR", "None", "None"))
    BY DEF DecisionTrue, FileMatches, TaskRecord
  <2> QED
    BY <2>1, <2>2, RecordedTask
<1>9. CASE DesignDone
  <2>1. /\ UNCHANGED <<nature, files, tasksFile>> /\ mode' \in {"write", "golden"}
        /\ records' = records \o fresh /\ design' = design + 1 /\ mode = "candidate"
    BY <1>9 DEF DesignDone, disk
  <2>2. /\ records \in Seq(RecordType) /\ fresh \in Seq(RecordType)
        /\ design \in 1 .. NDesigns /\ position \in Nat
    BY <2>1 DEF CountInv
  <2>3. ASSUME NEW a \in DOMAIN records'
        PROVE  /\ DecisionTrue(records[a])' /\ FileMatches(records[a])'
               /\ \E e \in 1 .. design' - 1, i \in Nat : records'[a].task = <<e, i>>
    <3>1. CASE a \in DOMAIN records
      <4>1. records'[a] = records[a] /\ 1 .. design - 1 \subseteq 1 .. design' - 1
        BY <2>1, <2>2, <3>1
      <4>2. /\ DecisionTrue(records[a]) /\ FileMatches(records[a])
            /\ \E e \in 1 .. design - 1, i \in Nat : records[a].task = <<e, i>>
        BY <3>1 DEF RecordsInv
      <4> QED
        BY <2>1, <4>1, <4>2 DEF DecisionTrue, FileMatches
    <3>2. CASE a \notin DOMAIN records
      <4>1. PICK b \in DOMAIN fresh : records'[a] = fresh[b]
        BY <2>1, <2>2, <2>3, <3>2
      <4>2. /\ DecisionTrue(fresh[b]) /\ FileMatches(fresh[b])
            /\ \E i \in 1 .. position : fresh[b].task = <<design, i>>
        BY <2>1 DEF RecordsInv
      <4>3. DecisionTrue(records[a])' /\ FileMatches(records[a])'
        BY <2>1, <4>1, <4>2 DEF DecisionTrue, FileMatches
      <4>4. design \in 1 .. design' - 1 /\ 1 .. position \subseteq Nat
        BY <2>1, <2>2
      <4> QED
        BY <4>1, <4>2, <4>3, <4>4
    <3> QED
      BY <3>1, <3>2
  <2>4. /\ nature' \in Natures /\ files' \in [TaskIds -> Mutants \cup {NoFile}]
        /\ IsComplete(tasksFile)' =>
             \A a \in DOMAIN tasksFile'.list : DecisionTrue(tasksFile.list[a])'
    BY <2>1 DEF RecordsInv, DecisionTrue, IsComplete
  <2> QED
    BY <2>1, <2>3, <2>4 DEF RecordsInv, Processing
<1>10. CASE TruncateTasks \/ WriteTasks
  <2>1. /\ UNCHANGED <<nature, files, records, design>> /\ mode' \in {"writing", "assert"}
        /\ tasksFile' \in {Partial, Complete(records)}
    BY <1>10 DEF TruncateTasks, WriteTasks, corpus, loop
  <2>2. /\ nature' \in Natures /\ files' \in [TaskIds -> Mutants \cup {NoFile}]
        /\ \A a \in DOMAIN records' :
             /\ DecisionTrue(records[a])' /\ FileMatches(records[a])'
             /\ \E e \in 1 .. design' - 1, i \in Nat : records'[a].task = <<e, i>>
    BY <2>1 DEF RecordsInv, DecisionTrue, FileMatches
  <2>3. IsComplete(tasksFile)' => tasksFile'.list = records
    BY <2>1 DEF IsComplete, Partial, Complete
  <2>4. IsComplete(tasksFile)' =>
          \A a \in DOMAIN tasksFile'.list : DecisionTrue(tasksFile.list[a])'
    BY <2>1, <2>2, <2>3 DEF DecisionTrue
  <2> QED
    BY <2>1, <2>2, <2>4 DEF RecordsInv, Processing
<1>11. CASE CorpusEnds \/ WritePromotions \/ Die
  <2>1. Exit /\ UNCHANGED <<nature, files, tasksFile>>
    BY <1>11 DEF CorpusEnds, WritePromotions, Die, disk
  <2>2. mode' = "off" /\ records' = <<>>
    BY <2>1 DEF Exit
  <2>3. /\ nature' \in Natures /\ files' \in [TaskIds -> Mutants \cup {NoFile}]
        /\ IsComplete(tasksFile)' =>
             \A a \in DOMAIN tasksFile'.list : DecisionTrue(tasksFile.list[a])'
    BY <2>1 DEF RecordsInv, DecisionTrue, IsComplete
  <2> QED
    BY <2>2, <2>3 DEF RecordsInv, Processing
<1>12. CASE LaunchDeep \/ SkipDecided \/ TruncatePromotions
  BY <1>12, RecordsFrame DEF LaunchDeep, SkipDecided, TruncatePromotions, loop, corpus, disk, Processing
<1>13. ASSUME NEW f \in {"REFUTED", "PROVEN-BMC", "INDETERMINATE"}, CheckDeep(f) PROVE RecordsInv'
  BY <1>13, RecordsFrame DEF CheckDeep, loop, corpus, disk, Processing
<1>14. CASE UNCHANGED vars \/ Idle
  <2>1. UNCHANGED vars
    BY <1>14 DEF Idle
  <2>2. /\ UNCHANGED <<nature, files, records, tasksFile, design, mode, sim, fresh, position>>
        /\ Task' = Task /\ Mutant' = Mutant /\ position \in Nat
    BY <2>1 DEF vars, loop, corpus, disk, Task, Mutant, Todo, CountInv
  <2>3. /\ mode' = "formal" => sim' \in {nature[Mutant].test, "SIM-INVALID"}
        /\ mode' \in {"sim", "formal"} => files[Task] = Mutant
        /\ (mode = "candidate" \/ Processing)' => mode = "candidate" \/ Processing
    BY <2>2 DEF RecordsInv, Processing
  <2> QED
    BY <2>2, <2>3, RecordsFrame
<1> QED
  BY <1>1, <1>2, <1>3, <1>4, <1>5, <1>6, <1>7, <1>8, <1>9, <1>10, <1>11, <1>12, <1>13, <1>14 DEF Next

(***************************************************************************)
(* What tasks.json says of a mutant is true of it, whatever was simulated, *)
(* checked, killed or raised.                                              *)
(***************************************************************************)
THEOREM DecisionsCorrect == Spec => []DecisionsTrue
<1>1. Init => CountInv
  BY DEF Init, CountInv, Processing, Accounted
<1>2. Init => RecordsInv
  BY DEF Init, RecordsInv, Processing, IsComplete, Absent
<1>3. RecordsInv => DecisionsTrue
  BY DEF RecordsInv, DecisionsTrue, DecisionTrue
<1> QED
  BY <1>1, <1>2, <1>3, CountStep, RecordsStep, PTL DEF Spec

(***************************************************************************)
(* After a run that was not cut short, the file of every task holds the    *)
(* mutant of its record, whatever earlier runs left there.                 *)
(***************************************************************************)
THEOREM RecordsMatchFilesCorrect == Spec => []RecordsMatchFiles
<1>1. Init => CountInv
  BY DEF Init, CountInv, Processing, Accounted
<1>2. Init => RecordsInv
  BY DEF Init, RecordsInv, Processing, IsComplete, Absent
<1>3. RecordsInv => RecordsMatchFiles
  BY DEF RecordsInv, RecordsMatchFiles, FileMatches
<1> QED
  BY <1>1, <1>2, <1>3, CountStep, RecordsStep, PTL DEF Spec

-----------------------------------------------------------------------------
(* Nothing is lost and nothing listed twice. *)

(* One more task at the end of a list. *)
LEMMA ListedAppend ==
  ASSUME NEW S, NEW list \in Seq(S), NEW s, NEW tasks, NEW r \in S, Listed(list, s, tasks),
         r.task \notin tasks, r.mutant = Candidates[s][r.task[1]][r.task[2]]
  PROVE  Listed(Append(list, r), s, tasks \cup {r.task})
<1> DEFINE new == Append(list, r)
<1>1. /\ DOMAIN list = 1 .. Len(list) /\ Len(list) \in Nat
      /\ DOMAIN new = 1 .. Len(list) + 1 /\ new[Len(list) + 1] = r
      /\ \A a \in DOMAIN list : new[a] = list[a]
  OBVIOUS
<1>2. \A a \in DOMAIN new : a \in DOMAIN list \/ a = Len(list) + 1
  BY <1>1
<1>3. \A a \in DOMAIN list : a \in DOMAIN new /\ a # Len(list) + 1
  BY <1>1
<1>4. Len(list) + 1 \in DOMAIN new
  BY <1>1
<1> HIDE DEF new
<1>5. ASSUME NEW a \in DOMAIN new
      PROVE  /\ new[a].task \in tasks \cup {r.task}
             /\ new[a].mutant = Candidates[s][new[a].task[1]][new[a].task[2]]
  <2>1. CASE a \in DOMAIN list
    BY <1>1, <2>1 DEF Listed
  <2>2. CASE a = Len(list) + 1
    BY <1>1, <2>2
  <2> QED
    BY <1>2, <2>1, <2>2
<1>6. ASSUME NEW t \in tasks \cup {r.task} PROVE \E a \in DOMAIN new : new[a].task = t
  <2>1. CASE t \in tasks
    <3>1. PICK a \in DOMAIN list : list[a].task = t
      BY <2>1 DEF Listed
    <3>2. a \in DOMAIN new /\ new[a].task = t
      BY <1>1, <1>3, <3>1
    <3> QED
      BY <3>2
  <2>2. CASE t = r.task
    BY <1>1, <1>4, <2>2
  <2> QED
    BY <2>1, <2>2
<1>7. \A a, b \in DOMAIN new : a # b => new[a].task # new[b].task
  BY <1>1, <1>2 DEF Listed
<1>8. Listed(new, s, tasks \cup {r.task})
  BY <1>5, <1>6, <1>7 DEF Listed
<1> QED
  BY <1>8 DEF new

(* One list after another. *)
LEMMA ListedConcat ==
  ASSUME NEW S, NEW left \in Seq(S), NEW right \in Seq(S), NEW s, NEW first, NEW second,
         Listed(left, s, first), Listed(right, s, second), first \cap second = {}
  PROVE  Listed(left \o right, s, first \cup second)
<1> DEFINE new == left \o right
<1>1. /\ \A a \in DOMAIN new : \/ a \in DOMAIN left /\ new[a] = left[a]
                               \/ /\ a \notin DOMAIN left
                                  /\ a - Len(left) \in DOMAIN right
                                  /\ new[a] = right[a - Len(left)]
      /\ \A a \in DOMAIN left : a \in DOMAIN new /\ new[a] = left[a]
      /\ \A a \in DOMAIN right : a + Len(left) \in DOMAIN new /\ new[a + Len(left)] = right[a]
      /\ DOMAIN new \subseteq Int /\ Len(left) \in Int
  OBVIOUS
<1> HIDE DEF new
<1>2. ASSUME NEW a \in DOMAIN new
      PROVE  /\ new[a].task \in first \cup second
             /\ new[a].mutant = Candidates[s][new[a].task[1]][new[a].task[2]]
  <2>1. CASE a \in DOMAIN left
    BY <1>1, <2>1 DEF Listed
  <2>2. CASE a \notin DOMAIN left
    <3>1. a - Len(left) \in DOMAIN right /\ new[a] = right[a - Len(left)]
      BY <1>1, <2>2
    <3> QED
      BY <3>1 DEF Listed
  <2> QED
    BY <2>1, <2>2
<1>3. ASSUME NEW t \in first \cup second PROVE \E a \in DOMAIN new : new[a].task = t
  <2>1. CASE t \in first
    <3>1. PICK a \in DOMAIN left : left[a].task = t
      BY <2>1 DEF Listed
    <3>2. a \in DOMAIN new /\ new[a].task = t
      BY <1>1, <3>1
    <3> QED
      BY <3>2
  <2>2. CASE t \in second
    <3>1. PICK a \in DOMAIN right : right[a].task = t
      BY <2>2 DEF Listed
    <3>2. a + Len(left) \in DOMAIN new /\ new[a + Len(left)].task = t
      BY <1>1, <3>1
    <3> QED
      BY <3>2
  <2> QED
    BY <2>1, <2>2
<1>4. ASSUME NEW a \in DOMAIN new, NEW b \in DOMAIN new, a # b
      PROVE  new[a].task # new[b].task
  <2>1. CASE a \in DOMAIN left /\ b \in DOMAIN left
    BY <1>1, <1>4, <2>1 DEF Listed
  <2>2. CASE a \in DOMAIN left /\ b \notin DOMAIN left
    <3>1. new[a].task \in first /\ new[b].task \in second
      BY <1>1, <2>2 DEF Listed
    <3> QED
      BY <3>1
  <2>3. CASE a \notin DOMAIN left /\ b \in DOMAIN left
    <3>1. new[a].task \in second /\ new[b].task \in first
      BY <1>1, <2>3 DEF Listed
    <3> QED
      BY <3>1
  <2>4. CASE a \notin DOMAIN left /\ b \notin DOMAIN left
    <3>1. /\ a - Len(left) \in DOMAIN right /\ new[a] = right[a - Len(left)]
          /\ b - Len(left) \in DOMAIN right /\ new[b] = right[b - Len(left)]
          /\ a - Len(left) # b - Len(left)
      BY <1>1, <1>4, <2>4
    <3> QED
      BY <3>1 DEF Listed
  <2> QED
    BY <2>1, <2>2, <2>3, <2>4
<1>5. Listed(new, s, first \cup second)
  BY <1>2, <1>3, <1>4 DEF Listed
<1> QED
  BY <1>5 DEF new

(* Tasks and first occurrences are places in the lists of candidates. *)
LEMMA TaskShape ==
  ASSUME NEW s \in Sources, NEW d \in 1 .. NDesigns
  PROVE  /\ \A t \in TaskIds : t = <<t[1], t[2]>> /\ t[1] \in 1 .. NDesigns /\ t[2] \in Nat \ {0}
         /\ \A i \in FirstOccurrences(s, d) : <<d, i>> \in TaskIds
         /\ Len(Candidates[s][d]) \in Nat /\ DOMAIN Candidates[s][d] = 1 .. Len(Candidates[s][d])
         /\ FirstOccurrences(s, d) \subseteq 1 .. Len(Candidates[s][d])
<1>1. \A t \in TaskIds : t = <<t[1], t[2]>> /\ t[1] \in 1 .. NDesigns /\ t[2] \in Nat \ {0}
  <2>1. ASSUME NEW u \in Sources, NEW e \in 1 .. NDesigns, NEW t \in {e} \X DOMAIN Candidates[u][e]
        PROVE  t = <<t[1], t[2]>> /\ t[1] \in 1 .. NDesigns /\ t[2] \in Nat \ {0}
    <3>1. Candidates[u][e] \in Seq(Mutants)
      OBVIOUS
    <3>2. DOMAIN Candidates[u][e] \subseteq Nat \ {0}
      BY <3>1
    <3> QED
      BY <2>1, <3>2
  <2> QED
    BY <2>1 DEF TaskIds
<1>2. ASSUME NEW i \in FirstOccurrences(s, d) PROVE <<d, i>> \in TaskIds
  <2>1. <<d, i>> \in {d} \X DOMAIN Candidates[s][d]
    BY <1>2 DEF FirstOccurrences
  <2>2. <<d, i>> \in UNION { {e} \X DOMAIN Candidates[s][e] : e \in 1 .. NDesigns }
    BY <2>1
  <2> QED
    BY <2>2 DEF TaskIds
<1>3. Len(Candidates[s][d]) \in Nat /\ DOMAIN Candidates[s][d] = 1 .. Len(Candidates[s][d])
  <2>1. Candidates[s][d] \in Seq(Mutants)
    OBVIOUS
  <2> QED
    BY <2>1
<1>4. FirstOccurrences(s, d) \subseteq 1 .. Len(Candidates[s][d])
  BY <1>3 DEF FirstOccurrences
<1> QED
  BY <1>1, <1>2, <1>3, <1>4

(* A first occurrence is added to those before it. *)
LEMMA FirstTaken ==
  ASSUME NEW s \in Sources, NEW d \in 1 .. NDesigns, NEW n \in 0 .. Len(Candidates[s][d]),
         n + 1 \in FirstOccurrences(s, d)
  PROVE  /\ <<d, n + 1>> \notin FirstsUpTo(s, d, n)
         /\ FirstsUpTo(s, d, n + 1) = FirstsUpTo(s, d, n) \cup {<<d, n + 1>>}
<1>1. <<d, n + 1>> \in TaskIds
  BY TaskShape
<1>2. n \in Nat
  BY TaskShape
<1>3. ASSUME NEW t \in FirstsUpTo(s, d, n + 1) PROVE t \in FirstsUpTo(s, d, n) \cup {<<d, n + 1>>}
  BY TaskShape, <1>2, <1>3 DEF FirstsUpTo
<1>4. ASSUME NEW t \in FirstsUpTo(s, d, n) \cup {<<d, n + 1>>} PROVE t \in FirstsUpTo(s, d, n + 1)
  <2>1. CASE t \in FirstsUpTo(s, d, n)
    BY TaskShape, <1>2, <2>1 DEF FirstsUpTo
  <2>2. CASE t = <<d, n + 1>>
    BY <1>1, <1>2, <2>2 DEF FirstsUpTo
  <2> QED
    BY <1>4, <2>1, <2>2
<1>5. <<d, n + 1>> \notin FirstsUpTo(s, d, n)
  BY <1>2 DEF FirstsUpTo
<1> QED
  BY <1>3, <1>4, <1>5

(* What the other sets of first occurrences are made of. *)
LEMMA Firsts ==
  ASSUME NEW s \in Sources, NEW d \in 1 .. NDesigns, NEW n \in 0 .. Len(Candidates[s][d])
  PROVE  /\ n + 1 \notin FirstOccurrences(s, d) => FirstsUpTo(s, d, n + 1) = FirstsUpTo(s, d, n)
         /\ FirstsUpTo(s, d, 0) = {} /\ FirstsOf(s, 0) = {}
         /\ FirstsOf(s, d) = FirstsOf(s, d - 1) \cup FirstsUpTo(s, d, Len(Candidates[s][d]))
         /\ FirstsOf(s, d - 1) \cap FirstsUpTo(s, d, Len(Candidates[s][d])) = {}
<1>1. /\ \A t \in TaskIds : t = <<t[1], t[2]>> /\ t[1] \in 1 .. NDesigns /\ t[2] \in Nat \ {0}
      /\ Len(Candidates[s][d]) \in Nat
      /\ FirstOccurrences(s, d) \subseteq 1 .. Len(Candidates[s][d])
  BY TaskShape
<1>2. ASSUME n + 1 \notin FirstOccurrences(s, d)
      PROVE  FirstsUpTo(s, d, n + 1) = FirstsUpTo(s, d, n)
  <2>1. n \in Nat
    BY <1>1
  <2>2. ASSUME NEW t \in TaskIds, t[2] \in FirstOccurrences(s, d) PROVE t[2] <= n + 1 <=> t[2] <= n
    BY <1>1, <1>2, <2>1, <2>2
  <2> QED
    BY <2>2 DEF FirstsUpTo
<1>3. FirstsUpTo(s, d, 0) = {} /\ FirstsOf(s, 0) = {}
  BY <1>1 DEF FirstsUpTo, FirstsOf
<1>4. FirstsOf(s, d) = FirstsOf(s, d - 1) \cup FirstsUpTo(s, d, Len(Candidates[s][d]))
  <2>1. ASSUME NEW t \in FirstsOf(s, d)
        PROVE  t \in FirstsOf(s, d - 1) \cup FirstsUpTo(s, d, Len(Candidates[s][d]))
    BY <1>1, <2>1 DEF FirstsOf, FirstsUpTo
  <2>2. ASSUME NEW t \in FirstsOf(s, d - 1) \cup FirstsUpTo(s, d, Len(Candidates[s][d]))
        PROVE  t \in FirstsOf(s, d)
    BY <1>1, <2>2 DEF FirstsOf, FirstsUpTo
  <2> QED
    BY <2>1, <2>2
<1>5. FirstsOf(s, d - 1) \cap FirstsUpTo(s, d, Len(Candidates[s][d])) = {}
  BY <1>1 DEF FirstsOf, FirstsUpTo
<1> QED
  BY <1>2, <1>3, <1>4, <1>5

(* The first occurrences of a design follow those of the designs before it. *)
LEMMA FirstsOfDesign ==
  ASSUME NEW s \in Sources, NEW d \in 1 .. NDesigns
  PROVE  /\ FirstsOf(s, d) = FirstsOf(s, d - 1) \cup FirstsUpTo(s, d, Len(Candidates[s][d]))
         /\ FirstsOf(s, d - 1) \cap FirstsUpTo(s, d, Len(Candidates[s][d])) = {}
<1>1. Candidates[s][d] \in Seq(Mutants)
  OBVIOUS
<1>2. Len(Candidates[s][d]) \in 0 .. Len(Candidates[s][d])
  BY <1>1
<1> QED
  BY <1>2, Firsts

(* A step within a run that leaves the lists and what they are of alone. *)
LEMMA ListedFrame ==
  ASSUME ListedInv, UNCHANGED <<source, records, tasksFile, design>>,
         mode' \in {"write", "writing", "assert"} => mode \in {"write", "writing", "assert"},
         mode' = "off" => mode = "off",
         (mode = "candidate" \/ Processing)' =>
           /\ mode = "candidate" \/ Processing
           /\ UNCHANGED <<fresh, position>>
           /\ mode' = "candidate" <=> mode = "candidate"
           /\ seen' = seen
  PROVE  ListedInv'
<1>1. Listed(records, source, FirstsOf(source, design - 1))'
  <2>1. Listed(records, source, FirstsOf(source, design - 1))
    BY DEF ListedInv
  <2> QED
    BY <2>1
<1>2. ASSUME (mode = "candidate" \/ Processing)'
      PROVE  /\ Listed(fresh, source, FirstsUpTo(source, design, position))'
             /\ mode' = "candidate" => seen' = { Todo[j] : j \in 1 .. position }'
             /\ Processing' => /\ seen' = { Todo[j] : j \in 1 .. position + 1 }'
                               /\ (position + 1 \in FirstOccurrences(source, design))'
  <2>1. /\ UNCHANGED <<fresh, position, seen, Todo>> /\ (mode' = "candidate" <=> mode = "candidate")
        /\ mode = "candidate" \/ Processing
    BY <1>2 DEF Todo
  <2>2. Listed(fresh, source, FirstsUpTo(source, design, position))
    BY <2>1 DEF ListedInv
  <2>3. Processing' => Processing
    BY <2>1 DEF Processing
  <2>4. /\ mode' = "candidate" => seen = { Todo[j] : j \in 1 .. position }
        /\ Processing' => /\ seen = { Todo[j] : j \in 1 .. position + 1 }
                          /\ position + 1 \in FirstOccurrences(source, design)
    BY <2>1, <2>3 DEF ListedInv
  <2> QED
    BY <2>1, <2>2, <2>4
<1>3. IsComplete(tasksFile)' => \E s \in Sources : Listed(tasksFile'.list, s, FirstsOf(s, NDesigns))
  BY DEF ListedInv, IsComplete
<1> QED
  BY <1>1, <1>2, <1>3 DEF ListedInv, Processing

(* Every step keeps the lists whole. *)
LEMMA ListedStep == ASSUME CountInv, ListedInv, [Next]_vars PROVE ListedInv'
<1>1. ASSUME NEW s \in Sources, Launch(s) PROVE ListedInv'
  <2>1. /\ mode' = "golden" /\ records' = <<>> /\ design' = 1 /\ tasksFile' = tasksFile
        /\ source' \in Sources
    BY <1>1 DEF Launch, ListedInv, CountInv, corpus, loop, disk
  <2>2. 1 \in 1 .. NDesigns /\ 0 \in 0 .. Len(Candidates[source'][1])
    <3>1. 1 \in 1 .. NDesigns
      OBVIOUS
    <3>2. Candidates[source'][1] \in Seq(Mutants)
      BY <2>1, <3>1
    <3> QED
      BY <3>1, <3>2
  <2>3. FirstsOf(source', 0) = {}
    BY <2>1, <2>2, Firsts
  <2>4. Listed(records', source', FirstsOf(source', design' - 1))
    BY <2>1, <2>3 DEF Listed
  <2> QED
    BY <2>1, <2>4 DEF ListedInv, IsComplete, Processing
<1>2. CASE GoldenPasses
  <2>1. /\ UNCHANGED <<source, records, tasksFile, design>> /\ mode' = "candidate"
        /\ fresh' = <<>> /\ position' = 0 /\ seen' = {}
    BY <1>2 DEF GoldenPasses, corpus, disk
  <2>2. source \in Sources /\ design \in 1 .. NDesigns
    BY <1>2 DEF CountInv, GoldenPasses
  <2>3. Candidates[source][design] \in Seq(Mutants)
    BY <2>2
  <2>4. 0 \in 0 .. Len(Candidates[source][design])
    BY <2>3
  <2>5. FirstsUpTo(source, design, 0) = {}
    BY <2>2, <2>4, Firsts
  <2>6. Listed(fresh, source, FirstsUpTo(source, design, position))'
    BY <2>1, <2>5 DEF Listed
  <2>7. { Todo[j] : j \in 1 .. position }' = {}
    BY <2>1
  <2> QED
    BY <2>1, <2>6, <2>7 DEF ListedInv, IsComplete, Processing
<1>3. ASSUME mode = "candidate", position < Len(Todo)
      PROVE  /\ source \in Sources /\ design \in 1 .. NDesigns
             /\ position \in 0 .. Len(Candidates[source][design])
             /\ Mutant \in seen <=> position + 1 \notin FirstOccurrences(source, design)
             /\ seen \cup {Mutant} = { Todo[j] : j \in 1 .. position + 1 }
  <2>1. source \in Sources /\ design \in 1 .. NDesigns /\ position \in Nat
    BY <1>3 DEF CountInv
  <2>2. Candidates[source][design] \in Seq(Mutants)
    BY <2>1
  <2>3. position + 1 \in DOMAIN Candidates[source][design]
        /\ position \in 0 .. Len(Candidates[source][design])
    BY <1>3, <2>1, <2>2 DEF Todo
  <2>4. seen = { Todo[j] : j \in 1 .. position }
    BY <1>3 DEF ListedInv
  <2>5. 1 .. (position + 1) - 1 = 1 .. position /\ 1 .. position + 1 = 1 .. position \cup {position + 1}
    BY <2>1
  <2>6. Mutant \in seen <=> position + 1 \notin FirstOccurrences(source, design)
    BY <2>3, <2>4, <2>5 DEF FirstOccurrences, Mutant, Todo
  <2>7. seen \cup {Mutant} = { Todo[j] : j \in 1 .. position + 1 }
    BY <2>4, <2>5 DEF Mutant
  <2> QED
    BY <2>1, <2>3, <2>6, <2>7
<1>4. CASE SkipDuplicate
  <2>1. /\ UNCHANGED <<source, records, tasksFile, design, fresh, seen, mode>>
        /\ position' = position + 1 /\ mode = "candidate" /\ position < Len(Todo) /\ Mutant \in seen
    BY <1>4 DEF SkipDuplicate, corpus, disk
  <2>2. FirstsUpTo(source, design, position + 1) = FirstsUpTo(source, design, position)
    BY <1>3, <2>1, Firsts
  <2>3. Listed(fresh, source, FirstsUpTo(source, design, position))
    BY <2>1 DEF ListedInv
  <2>4. Listed(fresh, source, FirstsUpTo(source, design, position))'
    BY <2>1, <2>2, <2>3
  <2>5. seen' = { Todo[j] : j \in 1 .. position }'
    BY <1>3, <2>1 DEF Todo
  <2> QED
    BY <2>1, <2>4, <2>5 DEF ListedInv, IsComplete, Processing
<1>5. CASE TakeCandidate
  <2>1. /\ UNCHANGED <<source, records, tasksFile, design, fresh, position>> /\ mode' = "fidelity"
        /\ mode = "candidate" /\ position < Len(Todo) /\ Mutant \notin seen
        /\ seen' = seen \cup {Mutant}
    BY <1>5 DEF TakeCandidate, corpus, disk
  <2>2. Listed(fresh, source, FirstsUpTo(source, design, position))
    BY <2>1 DEF ListedInv
  <2>3. seen' = { Todo[j] : j \in 1 .. position + 1 }' /\ (position + 1 \in FirstOccurrences(source, design))'
    BY <1>3, <2>1 DEF Todo
  <2> QED
    BY <2>1, <2>2, <2>3 DEF ListedInv, IsComplete, Processing
<1>6. CASE WriteMutant
  BY <1>6, ListedFrame DEF WriteMutant, corpus, loop, Processing
<1>7. ASSUME NEW o \in Outcomes, Simulate(o) PROVE ListedInv'
  BY <1>7, ListedFrame DEF Simulate, corpus, disk, Processing
<1>8. ASSUME NEW d \in {"KEEP", "SILENT", "QUARANTINE", "DISCARD", "ERROR"},
             NEW o \in Outcomes \cup {"None"},
             NEW f \in {"REFUTED", "PROVEN-BMC", "INDETERMINATE", "None"},
             Processing, RecordTask(d, o, f)
      PROVE ListedInv'
  <2> DEFINE r == TaskRecord(d, o, f)
  <2>1. /\ UNCHANGED <<source, records, tasksFile, design, seen>> /\ mode' = "candidate"
        /\ position' = position + 1 /\ fresh' = Append(fresh, r)
    BY <1>8 DEF RecordTask, corpus, disk
  <2>2. /\ source \in Sources /\ design \in 1 .. NDesigns /\ position \in Nat
        /\ position < Len(Todo) /\ fresh \in Seq(RecordType)
    BY <1>8 DEF CountInv
  <2>3. Candidates[source][design] \in Seq(Mutants)
    BY <2>2
  <2>4. position \in 0 .. Len(Candidates[source][design])
    BY <2>2, <2>3 DEF Todo
  <2>5. /\ position + 1 \in FirstOccurrences(source, design)
        /\ Listed(fresh, source, FirstsUpTo(source, design, position))
        /\ seen = { Todo[j] : j \in 1 .. position + 1 }
    BY <1>8 DEF ListedInv
  <2>6. /\ r.task = <<design, position + 1>>
        /\ r.mutant = Candidates[source][r.task[1]][r.task[2]]
    BY DEF TaskRecord, Task, Mutant, Todo
  <2>7. r \in RecordType
    <3>1. Mutant \in Mutants /\ Task \in (1 .. NDesigns) \X (Nat \ {0})
      BY <1>8, <2>2, CurrentTask DEF Task
    <3> QED
      BY <3>1 DEF TaskRecord, RecordType
  <2>8. /\ r.task \notin FirstsUpTo(source, design, position)
        /\ FirstsUpTo(source, design, position + 1)
             = FirstsUpTo(source, design, position) \cup {r.task}
    <3>1. /\ <<design, position + 1>> \notin FirstsUpTo(source, design, position)
          /\ FirstsUpTo(source, design, position + 1)
               = FirstsUpTo(source, design, position) \cup {<<design, position + 1>>}
      <4>1. source \in Sources /\ design \in 1 .. NDesigns
        BY <2>2
      <4> QED
        BY <4>1, <2>4, <2>5, FirstTaken
    <3> QED
      BY <2>6, <3>1
  <2> HIDE DEF r
  <2>9. Listed(Append(fresh, r), source, FirstsUpTo(source, design, position) \cup {r.task})
    BY <2>2, <2>5, <2>6, <2>7, <2>8, ListedAppend
  <2>10. Listed(fresh, source, FirstsUpTo(source, design, position))'
    BY <2>1, <2>8, <2>9
  <2>11. seen' = { Todo[j] : j \in 1 .. position }'
    BY <2>1, <2>5 DEF Todo
  <2> QED
    BY <2>1, <2>10, <2>11 DEF ListedInv, IsComplete, Processing
<1>9. ASSUME NEW f \in {"REFUTED", "PROVEN-BMC", "INDETERMINATE"}, Decide(f) PROVE ListedInv'
  <2>1. sim \in Outcomes /\ Processing
    BY <1>9 DEF Decide, CountInv, Processing
  <2>2. Decision(sim, f) \in {"KEEP", "SILENT", "QUARANTINE", "DISCARD", "ERROR"}
    BY DEF Decision
  <2> QED
    BY <1>8, <1>9, <2>1, <2>2 DEF Decide
<1>10. CASE StageRaises
  BY <1>8, <1>10 DEF StageRaises, Processing
<1>11. CASE DesignDone
  <2>1. /\ UNCHANGED <<source, tasksFile>> /\ records' = records \o fresh /\ design' = design + 1
        /\ mode = "candidate" /\ position = Len(Todo)
        /\ mode' = IF design = NDesigns THEN "write" ELSE "golden"
    BY <1>11 DEF DesignDone, disk
  <2>2. /\ source \in Sources /\ design \in 1 .. NDesigns
        /\ records \in Seq(RecordType) /\ fresh \in Seq(RecordType)
    BY <2>1 DEF CountInv
  <2>3. Candidates[source][design] \in Seq(Mutants)
    BY <2>2
  <2>4. Candidates[source][design] = Todo
    BY DEF Todo
  <2>5. /\ Listed(records, source, FirstsOf(source, design - 1))
        /\ Listed(fresh, source, FirstsUpTo(source, design, Len(Candidates[source][design])))
    BY <2>1 DEF ListedInv, Todo
  <2>6. /\ FirstsOf(source, design)
             = FirstsOf(source, design - 1) \cup FirstsUpTo(source, design, Len(Candidates[source][design]))
        /\ FirstsOf(source, design - 1)
             \cap FirstsUpTo(source, design, Len(Candidates[source][design])) = {}
    <3>1. source \in Sources /\ design \in 1 .. NDesigns
      BY <2>2
    <3> QED
      BY <3>1, FirstsOfDesign
  <2>7. Listed(records \o fresh, source, FirstsOf(source, design))
    <3>1. Listed(records \o fresh, source,
                 FirstsOf(source, design - 1) \cup FirstsUpTo(source, design, Len(Candidates[source][design])))
      BY <2>2, <2>5, <2>6, ListedConcat
    <3> QED
      BY <2>6, <3>1
  <2>8. design' - 1 = design /\ (mode' = "write" => design' = NDesigns + 1)
    BY <2>1, <2>2
  <2>9. Listed(records, source, FirstsOf(source, design - 1))'
    BY <2>1, <2>7, <2>8
  <2> QED
    BY <2>1, <2>8, <2>9 DEF ListedInv, IsComplete, Processing
<1>12. CASE TruncateTasks
  BY <1>12 DEF TruncateTasks, ListedInv, corpus, loop, IsComplete, Partial, Processing
<1>13. CASE WriteTasks
  <2>1. /\ UNCHANGED <<source, records, design>> /\ mode = "writing" /\ mode' = "assert"
        /\ tasksFile' = Complete(records)
    BY <1>13 DEF WriteTasks, corpus, loop
  <2>2. design = NDesigns + 1 /\ source \in Sources
        /\ Listed(records, source, FirstsOf(source, design - 1))
    BY <2>1 DEF ListedInv, CountInv
  <2>3. design - 1 = NDesigns
    BY <2>2
  <2>4. tasksFile'.list = records /\ Listed(tasksFile'.list, source, FirstsOf(source, NDesigns))
    BY <2>1, <2>2, <2>3 DEF Complete
  <2>5. Listed(records, source, FirstsOf(source, design - 1))'
    BY <2>1, <2>2
  <2> QED
    BY <2>1, <2>2, <2>4, <2>5 DEF ListedInv, Processing
<1>14. CASE CorpusEnds \/ WritePromotions \/ Die
  <2>1. Exit /\ UNCHANGED <<source, tasksFile>>
    BY <1>14 DEF CorpusEnds, WritePromotions, Die, disk
  <2>2. mode' = "off" /\ records' = <<>> /\ design' = 1 /\ source \in Sources
    BY <2>1 DEF Exit, CountInv
  <2>3. 1 \in 1 .. NDesigns /\ 0 \in 0 .. Len(Candidates[source][1])
    <3>1. 1 \in 1 .. NDesigns
      OBVIOUS
    <3>2. Candidates[source][1] \in Seq(Mutants)
      BY <2>2, <3>1
    <3> QED
      BY <3>1, <3>2
  <2>4. FirstsOf(source, 0) = {}
    BY <2>2, <2>3, Firsts
  <2>5. Listed(records', source', FirstsOf(source', design' - 1))
    BY <2>1, <2>2, <2>4 DEF Listed
  <2> QED
    BY <2>1, <2>2, <2>5 DEF ListedInv, IsComplete, Processing
<1>15. CASE LaunchDeep \/ SkipDecided \/ TruncatePromotions
  BY <1>15, ListedFrame DEF LaunchDeep, SkipDecided, TruncatePromotions, loop, corpus, disk, Processing
<1>16. ASSUME NEW f \in {"REFUTED", "PROVEN-BMC", "INDETERMINATE"}, CheckDeep(f) PROVE ListedInv'
  BY <1>16, ListedFrame DEF CheckDeep, loop, corpus, disk, Processing
<1>17. CASE UNCHANGED vars \/ Idle
  <2>1. UNCHANGED vars
    BY <1>17 DEF Idle
  <2> QED
    BY <2>1, ListedFrame DEF vars, loop, corpus, disk, Processing
<1> QED
  BY <1>1, <1>2, <1>4, <1>5, <1>6, <1>7, <1>9, <1>10, <1>11, <1>12, <1>13, <1>14, <1>15, <1>16, <1>17 DEF Next

(* A list of all first occurrences is the list TasksWhole asks for. *)
LEMMA ListedWhole ==
  ASSUME NEW list, NEW s \in Sources, Listed(list, s, FirstsOf(s, NDesigns))
  PROVE  { <<r.task, r.mutant>> : r \in { list[a] : a \in DOMAIN list } }
         = UNION { { <<<<d, i>>, Candidates[s][d][i]>> : i \in FirstOccurrences(s, d) }
                   : d \in 1 .. NDesigns }
<1> DEFINE pairs == { <<r.task, r.mutant>> : r \in { list[a] : a \in DOMAIN list } }
           whole == UNION { { <<<<d, i>>, Candidates[s][d][i]>> : i \in FirstOccurrences(s, d) }
                            : d \in 1 .. NDesigns }
<1>1. ASSUME NEW d \in 1 .. NDesigns, NEW i \in FirstOccurrences(s, d)
      PROVE  <<d, i>> \in FirstsOf(s, NDesigns)
  <2>1. <<d, i>> \in TaskIds
    BY TaskShape
  <2> QED
    BY <2>1 DEF FirstsOf
<1>2. ASSUME NEW t \in FirstsOf(s, NDesigns)
      PROVE  /\ t = <<t[1], t[2]>> /\ t[1] \in 1 .. NDesigns
             /\ t[2] \in FirstOccurrences(s, t[1])
  <2>1. 1 \in 1 .. NDesigns
    OBVIOUS
  <2>2. \A u \in TaskIds : u = <<u[1], u[2]>> /\ u[1] \in 1 .. NDesigns
    BY <2>1, TaskShape
  <2> QED
    BY <2>2 DEF FirstsOf
<1>3. ASSUME NEW p \in pairs PROVE p \in whole
  <2>1. PICK a \in DOMAIN list : p = <<list[a].task, list[a].mutant>>
    BY <1>3
  <2> DEFINE t == list[a].task
  <2>2. t \in FirstsOf(s, NDesigns) /\ list[a].mutant = Candidates[s][t[1]][t[2]]
    BY DEF Listed
  <2>3. p = <<t, Candidates[s][t[1]][t[2]]>>
    BY <2>1, <2>2
  <2> HIDE DEF t
  <2>4. /\ t = <<t[1], t[2]>> /\ t[1] \in 1 .. NDesigns /\ t[2] \in FirstOccurrences(s, t[1])
    BY <1>2, <2>2
  <2>5. p = <<<<t[1], t[2]>>, Candidates[s][t[1]][t[2]]>>
    BY <2>3, <2>4
  <2>6. p \in { <<<<t[1], i>>, Candidates[s][t[1]][i]>> : i \in FirstOccurrences(s, t[1]) }
    BY <2>4, <2>5
  <2> QED
    BY <2>4, <2>6
<1>4. ASSUME NEW p \in whole PROVE p \in pairs
  <2>1. PICK d \in 1 .. NDesigns :
          p \in { <<<<d, i>>, Candidates[s][d][i]>> : i \in FirstOccurrences(s, d) }
    BY <1>4
  <2>2. PICK i \in FirstOccurrences(s, d) : p = <<<<d, i>>, Candidates[s][d][i]>>
    BY <2>1
  <2>3. <<d, i>> \in FirstsOf(s, NDesigns)
    BY <1>1
  <2>4. PICK a \in DOMAIN list : list[a].task = <<d, i>>
    BY <2>3 DEF Listed
  <2>5. list[a].mutant = Candidates[s][d][i]
    BY <2>4 DEF Listed
  <2>6. p = <<list[a].task, list[a].mutant>>
    BY <2>2, <2>4, <2>5
  <2> QED
    BY <2>6
<1>5. pairs = whole
  BY <1>3, <1>4
<1> QED
  BY <1>5 DEF pairs, whole

(* Nothing is listed at first. *)
LEMMA ListedInit == Init => ListedInv
<1> SUFFICES ASSUME Init PROVE ListedInv
  OBVIOUS
<1>1. /\ mode = "off" /\ records = <<>> /\ design = 1 /\ tasksFile = Absent /\ source \in Sources
  BY DEF Init
<1>2. 1 \in 1 .. NDesigns
  OBVIOUS
<1>3. Candidates[source][1] \in Seq(Mutants)
  BY <1>1, <1>2
<1>4. 0 \in 0 .. Len(Candidates[source][1])
  BY <1>3
<1>5. FirstsOf(source, 0) = {}
  BY <1>1, <1>2, <1>4, Firsts
<1>6. Listed(records, source, FirstsOf(source, design - 1))
  BY <1>1, <1>5 DEF Listed
<1> QED
  BY <1>1, <1>6 DEF ListedInv, IsComplete, Absent, Processing

(***************************************************************************)
(* A complete tasks.json lists every distinct candidate of one source      *)
(* exactly once, under its own number.                                     *)
(***************************************************************************)
THEOREM TasksWholeCorrect == Spec => []TasksWhole
<1>1. Init => CountInv
  BY DEF Init, CountInv, Processing, Accounted
<1>2. Init => ListedInv
  BY ListedInit
<1>3. ListedInv => TasksWhole
  <2> SUFFICES ASSUME ListedInv, IsComplete(tasksFile) PROVE TasksWhole
    BY DEF TasksWhole
  <2>1. PICK s \in Sources : Listed(tasksFile.list, s, FirstsOf(s, NDesigns))
    BY DEF ListedInv
  <2>2. \A a, b \in DOMAIN tasksFile.list :
          a # b => tasksFile.list[a].task # tasksFile.list[b].task
    BY <2>1 DEF Listed
  <2>3. { <<r.task, r.mutant>> : r \in { tasksFile.list[a] : a \in DOMAIN tasksFile.list } }
        = UNION { { <<<<d, i>>, Candidates[s][d][i]>> : i \in FirstOccurrences(s, d) }
                  : d \in 1 .. NDesigns }
    BY <2>1, ListedWhole
  <2> QED
    BY <2>2, <2>3 DEF TasksWhole
<1> QED
  BY <1>1, <1>2, <1>3, CountStep, ListedStep, PTL DEF Spec

-----------------------------------------------------------------------------
(* The deep search, as long as the sources stay the same. *)

(* A sequence without its first element, and with one more. *)
LEMMA Rest ==
  ASSUME NEW S, NEW s \in Seq(S), s # <<>>
  PROVE  /\ Head(s) = s[1] /\ 1 \in DOMAIN s /\ Tail(s) \in Seq(S)
         /\ \A k \in DOMAIN Tail(s) : k + 1 \in DOMAIN s /\ Tail(s)[k] = s[k + 1]
OBVIOUS

LEMMA OneMore ==
  ASSUME NEW S, NEW s \in Seq(S), NEW e \in S
  PROVE  /\ Append(s, e) \in Seq(S)
         /\ \A k \in DOMAIN Append(s, e) :
              (k \in DOMAIN s /\ Append(s, e)[k] = s[k]) \/ Append(s, e)[k] = e
OBVIOUS

(* A step that neither writes a file nor moves the search. *)
LEMMA DeepFrame ==
  ASSUME DeepInv, UNCHANGED <<source, steady, nature, files, tasksFile, promoFile, queue,
                              promotions, runs>>,
         mode # "off" \/ mode' = mode
  PROVE  DeepInv'
BY DEF DeepInv, Fits, FileMatches, Promoted, IsComplete

(* What is said of the records and of the promotions when a file changes.   *)
LEMMA FitsKept ==
  ASSUME NEW r, Fits(r), UNCHANGED <<source, files>>
  PROVE  Fits(r)'
BY DEF Fits, FileMatches

LEMMA FitsRewritten ==
  ASSUME CountInv, RecordsInv, WriteMutant, NEW r, Fits(r)
  PROVE  Fits(r)'
<1>1. Task \in TaskIds /\ Task = <<design, position + 1>>
  BY CurrentTask DEF WriteMutant, Processing
<1>2. /\ files' = [files EXCEPT ![Task] = Mutant] /\ source' = source
      /\ files \in [TaskIds -> Mutants \cup {NoFile}]
  BY DEF WriteMutant, RecordsInv
<1>3. CASE r.task = Task
  <2>1. r.mutant = Mutant
    BY <1>1, <1>3 DEF Fits, Mutant, Todo
  <2>2. files'[r.task] = r.mutant
    BY <1>1, <1>2, <1>3, <2>1
  <2> QED
    BY <1>2, <2>2 DEF Fits, FileMatches
<1>4. CASE r.task # Task
  <2>1. files'[r.task] = files[r.task]
    BY <1>2, <1>4 DEF Fits
  <2> QED
    BY <1>2, <2>1 DEF Fits, FileMatches
<1> QED
  BY <1>3, <1>4

LEMMA DeepStep == ASSUME CountInv, RecordsInv, ListedInv, DeepInv, [Next]_vars PROVE DeepInv'
<1>1. ASSUME NEW s \in Sources, Launch(s) PROVE DeepInv'
  <2>1. /\ steady' = (steady /\ (runs = 0 \/ s = source)) /\ source' = s /\ runs' = runs + 1
        /\ UNCHANGED <<nature, files, tasksFile, promoFile, queue, promotions>>
    BY <1>1 DEF Launch, deep, disk
  <2>2. CASE runs = 0
    BY <2>1, <2>2 DEF DeepInv, IsComplete
  <2>3. CASE runs # 0
    <3>1. steady' => steady /\ source' = source
      BY <2>1, <2>3
    <3>2. runs' \in Nat /\ runs' # 0 /\ steady' \in BOOLEAN
      BY <2>1 DEF DeepInv
    <3> QED
      BY <2>1, <3>1, <3>2 DEF DeepInv, Fits, FileMatches, Promoted, IsComplete
  <2> QED
    BY <2>2, <2>3
<1>2. CASE \/ GoldenPasses \/ SkipDuplicate \/ TakeCandidate \/ DesignDone
           \/ (\E o \in Outcomes : Simulate(o))
  BY <1>2, DeepFrame
     DEF GoldenPasses, SkipDuplicate, TakeCandidate, DesignDone, Simulate, deep, disk
<1>3. CASE StageRaises \/ \E f \in {"REFUTED", "PROVEN-BMC", "INDETERMINATE"} : Decide(f)
  <2>1. mode # "off" /\ \E d, o, f : RecordTask(d, o, f)
    BY <1>3 DEF StageRaises, Decide
  <2> QED
    BY <2>1, DeepFrame DEF RecordTask, deep, disk
<1>4. CASE WriteMutant
  <2>1. /\ mode = "fidelity"
        /\ UNCHANGED <<source, steady, nature, tasksFile, promoFile, queue, promotions, runs>>
    BY <1>4 DEF WriteMutant, deep
  <2>2. \A r : Fits(r) => Fits(r)'
    BY <1>4, FitsRewritten
  <2>3. runs # 0
    BY <2>1 DEF DeepInv
  <2> QED
    BY <2>1, <2>2, <2>3 DEF DeepInv, Promoted, IsComplete
<1>5. CASE TruncateTasks
  <2>1. /\ mode = "write" /\ tasksFile' = Partial
        /\ UNCHANGED <<source, steady, nature, files, promoFile, queue, promotions, runs>>
    BY <1>5 DEF TruncateTasks, deep
  <2> QED
    BY <2>1 DEF DeepInv, Fits, FileMatches, Promoted, IsComplete, Partial
<1>6. CASE WriteTasks
  <2>1. /\ mode = "writing" /\ tasksFile' = Complete(records)
        /\ UNCHANGED <<source, steady, nature, files, promoFile, queue, promotions, runs>>
    BY <1>6 DEF WriteTasks, deep
  <2>2. tasksFile'.list = records /\ records \in Seq(RecordType)
    BY <2>1 DEF Complete, CountInv
  <2>3. ASSUME NEW a \in DOMAIN records
        PROVE  Fits(records[a])
    <3>1. /\ records[a].task \in FirstsOf(source, design - 1)
          /\ records[a].mutant = Candidates[source][records[a].task[1]][records[a].task[2]]
      BY DEF ListedInv, Listed
    <3>2. FileMatches(records[a])
      BY DEF RecordsInv
    <3> QED
      BY <3>1, <3>2 DEF Fits, FirstsOf
  <2>4. \A r : Fits(r) => Fits(r)'
    BY <2>1, FitsKept
  <2>5. runs # 0
    BY <2>1 DEF DeepInv
  <2> QED
    BY <2>1, <2>2, <2>3, <2>4, <2>5 DEF DeepInv, Promoted, IsComplete
<1>7. CASE CorpusEnds \/ Die
  <2>1. /\ queue' = <<>> /\ promotions' = <<>> /\ mode # "off"
        /\ UNCHANGED <<source, steady, nature, files, tasksFile, promoFile, runs>>
    BY <1>7 DEF CorpusEnds, Die, Exit, disk
  <2> QED
    BY <2>1 DEF DeepInv, Fits, FileMatches, Promoted, IsComplete
<1>8. CASE LaunchDeep
  <2>1. /\ queue' = tasksFile.list /\ IsComplete(tasksFile) /\ runs' = runs + 1
        /\ UNCHANGED <<source, steady, nature, files, tasksFile, promoFile, promotions>>
    BY <1>8 DEF LaunchDeep, disk
  <2>2. runs' \in Nat /\ runs' # 0
    BY <2>1 DEF DeepInv
  <2> QED
    BY <2>1, <2>2 DEF DeepInv, Fits, FileMatches, Promoted, IsComplete
<1>9. CASE SkipDecided
  <2>1. /\ mode = "deep" /\ queue # <<>> /\ queue' = Tail(queue)
        /\ UNCHANGED <<source, steady, nature, files, tasksFile, promoFile, promotions, runs>>
    BY <1>9 DEF SkipDecided, disk
  <2>2. /\ queue' \in Seq(RecordType)
        /\ \A k \in DOMAIN queue' : k + 1 \in DOMAIN queue /\ queue'[k] = queue[k + 1]
    BY <2>1, Rest DEF DeepInv
  <2>3. \A r : Fits(r) => Fits(r)'
    BY <2>1, FitsKept
  <2>4. runs # 0
    BY <2>1 DEF DeepInv
  <2> QED
    BY <2>1, <2>2, <2>3, <2>4 DEF DeepInv, Promoted, IsComplete
<1>10. ASSUME NEW f \in {"REFUTED", "PROVEN-BMC", "INDETERMINATE"}, CheckDeep(f)
       PROVE  DeepInv'
  <2> DEFINE p == [of |-> Head(queue), decision |-> Promotion(f)]
  <2>1. /\ mode = "deep" /\ queue # <<>> /\ queue' = Tail(queue)
        /\ Head(queue).decision = "QUARANTINE"
        /\ f \in BmcOutcomes(nature[files[Head(queue).task]].in200)
        /\ promotions' = Append(promotions, p)
        /\ UNCHANGED <<source, steady, nature, files, tasksFile, promoFile, runs>>
    BY <1>10 DEF CheckDeep, disk
  <2>2. /\ queue' \in Seq(RecordType) /\ 1 \in DOMAIN queue /\ Head(queue) = queue[1]
        /\ Head(queue) \in RecordType
        /\ \A k \in DOMAIN queue' : k + 1 \in DOMAIN queue /\ queue'[k] = queue[k + 1]
    BY <2>1, Rest DEF DeepInv
  <2>3. p \in PromotionType /\ p.of = Head(queue) /\ p.decision = Promotion(f)
    BY <2>2 DEF PromotionType, Promotion
  <2>4. steady => Promoted(p)
    <3> SUFFICES ASSUME steady, Promotion(f) = "PROMOTE"
                 PROVE  nature[Head(queue).mutant].in200
      BY <2>1, <2>3 DEF Promoted
    <3>1. f = "REFUTED"
      BY DEF Promotion
    <3>2. nature[files[Head(queue).task]].in200
      BY <2>1, <3>1 DEF BmcOutcomes
    <3>3. FileMatches(Head(queue))
      BY <2>2 DEF DeepInv, Fits
    <3> QED
      BY <2>1, <3>2, <3>3 DEF FileMatches
  <2> HIDE DEF p
  <2>5. /\ promotions' \in Seq(PromotionType)
        /\ \A k \in DOMAIN promotions' :
             (k \in DOMAIN promotions /\ promotions'[k] = promotions[k]) \/ promotions'[k] = p
    BY <2>1, <2>3, OneMore DEF DeepInv
  <2>6. \A r : Fits(r) => Fits(r)'
    BY <2>1, FitsKept
  <2>7. \A q : Promoted(q) => Promoted(q)'
    BY <2>1 DEF Promoted
  <2>8. runs # 0
    BY <2>1 DEF DeepInv
  <2> QED
    BY <2>1, <2>2, <2>4, <2>5, <2>6, <2>7, <2>8 DEF DeepInv, IsComplete
<1>11. CASE TruncatePromotions
  <2>1. /\ mode = "deep" /\ promoFile' = Partial
        /\ UNCHANGED <<source, steady, nature, files, tasksFile, queue, promotions, runs>>
    BY <1>11 DEF TruncatePromotions, deep
  <2> QED
    BY <2>1 DEF DeepInv, Fits, FileMatches, Promoted, IsComplete, Partial
<1>12. CASE WritePromotions
  <2>1. /\ mode = "deepWriting" /\ promoFile' = Complete(promotions)
        /\ queue' = <<>> /\ promotions' = <<>>
        /\ UNCHANGED <<source, steady, nature, files, tasksFile, runs>>
    BY <1>12 DEF WritePromotions, Exit
  <2>2. promoFile'.list = promotions
    BY <2>1 DEF Complete
  <2> QED
    BY <2>1, <2>2 DEF DeepInv, Fits, FileMatches, Promoted, IsComplete
<1>13. CASE Idle \/ UNCHANGED vars
  BY <1>13, DeepFrame DEF Idle, vars, deep, disk
<1> QED
  BY <1>1, <1>2, <1>3, <1>4, <1>5, <1>6, <1>7, <1>8, <1>9, <1>10, <1>11, <1>12, <1>13 DEF Next

(***************************************************************************)
(* As long as the sources do not change, every promotion is a divergence   *)
(* of the mutant whose record it names, whatever was killed, rewritten or  *)
(* searched again in between.                                              *)
(***************************************************************************)
THEOREM PromotionsCorrect == Spec => []PromotionsTrue
<1>1. Init => DeepInv
  BY DEF Init, DeepInv, IsComplete, Absent
<1>2. DeepInv => PromotionsTrue
  BY DEF DeepInv, PromotionsTrue, Promoted
<1>3. Init => CountInv
  BY DEF Init, CountInv, Processing, Accounted
<1>4. Init => RecordsInv
  BY DEF Init, RecordsInv, Processing, IsComplete, Absent
<1> QED
  BY <1>1, <1>2, <1>3, <1>4, CountStep, RecordsStep, ListedInit, ListedStep, DeepStep, PTL DEF Spec
-----------------------------------------------------------------------------
(* The types.  The counts, the records and the lists have theirs from the   *)
(* invariants above; what is left are the places and the forms of a file.   *)

(* A step of one driver on one design. *)
LEMMA PlacesStep ==
  ASSUME CountInv, TypeOK, [Next]_vars
  PROVE  mode' \in Modes /\ design' \in 1 .. (NDesigns + 1) /\ seen' \subseteq Mutants
<1>0. mode \in Modes /\ design \in 1 .. (NDesigns + 1) /\ seen \subseteq Mutants /\ 1 \in 1 .. NDesigns
  BY DEF TypeOK
<1>1. CASE TakeCandidate
  <2>1. /\ mode = "candidate" /\ position < Len(Todo) /\ mode' = "fidelity"
        /\ design' = design /\ seen' = seen \cup {Mutant}
    BY <1>1 DEF TakeCandidate
  <2>2. Candidates[source][design] \in Seq(Mutants) /\ position \in Nat
    BY <2>1 DEF CountInv
  <2>3. Mutant \in Mutants
    BY <2>1, <2>2 DEF Mutant, Todo
  <2> QED
    BY <1>0, <2>1, <2>3 DEF Modes
<1>2. CASE DesignDone
  <2>1. /\ mode = "candidate" /\ mode' \in {"write", "golden"} /\ design' = design + 1
        /\ seen' = seen
    BY <1>2 DEF DesignDone
  <2>2. design \in 1 .. NDesigns
    BY <2>1 DEF CountInv
  <2>3. design' \in 1 .. (NDesigns + 1)
    BY <2>1, <2>2
  <2> QED
    BY <1>0, <2>1, <2>3 DEF Modes
<1>3. CASE GoldenPasses \/ SkipDuplicate \/ WriteMutant \/ TruncateTasks \/ WriteTasks
  BY <1>0, <1>3 DEF GoldenPasses, SkipDuplicate, WriteMutant, TruncateTasks, WriteTasks, loop, Modes
<1>4. ASSUME NEW s \in Sources, Launch(s)
      PROVE  mode' \in Modes /\ design' \in 1 .. (NDesigns + 1) /\ seen' \subseteq Mutants
  BY <1>0, <1>4 DEF Launch, loop, Modes
<1>5. ASSUME NEW o \in Outcomes, Simulate(o)
      PROVE  mode' \in Modes /\ design' \in 1 .. (NDesigns + 1) /\ seen' \subseteq Mutants
  BY <1>0, <1>5 DEF Simulate, Modes
<1>6. CASE StageRaises \/ \E f \in {"REFUTED", "PROVEN-BMC", "INDETERMINATE"} : Decide(f)
  <2>1. \E d, o, f : RecordTask(d, o, f)
    BY <1>6 DEF StageRaises, Decide
  <2> QED
    BY <1>0, <2>1 DEF RecordTask, Modes
<1>7. CASE CorpusEnds \/ WritePromotions \/ Die
  <2>1. Exit
    BY <1>7 DEF CorpusEnds, WritePromotions, Die
  <2> QED
    BY <1>0, <2>1 DEF Exit, Modes
<1>8. CASE LaunchDeep \/ SkipDecided \/ TruncatePromotions \/ Idle \/ UNCHANGED vars
  BY <1>0, <1>8 DEF LaunchDeep, SkipDecided, TruncatePromotions, Idle, vars, loop, Modes
<1>9. ASSUME NEW f \in {"REFUTED", "PROVEN-BMC", "INDETERMINATE"}, CheckDeep(f)
      PROVE  mode' \in Modes /\ design' \in 1 .. (NDesigns + 1) /\ seen' \subseteq Mutants
  BY <1>0, <1>9 DEF CheckDeep, loop
<1> QED
  BY <1>1, <1>2, <1>3, <1>4, <1>5, <1>6, <1>7, <1>8, <1>9 DEF Next

(* A file is absent, cut short or a whole list, and only a write changes it. *)
LEMMA FormsStep ==
  ASSUME CountInv, DeepInv, TypeOK, [Next]_vars
  PROVE  /\ \/ tasksFile' \in {Absent, Partial}
            \/ tasksFile' \in [state: {"complete"}, list: Seq(RecordType)]
         /\ \/ promoFile' \in {Absent, Partial}
            \/ promoFile' \in [state: {"complete"}, list: Seq(PromotionType)]
<1>0. /\ \/ tasksFile \in {Absent, Partial}
         \/ tasksFile \in [state: {"complete"}, list: Seq(RecordType)]
      /\ \/ promoFile \in {Absent, Partial}
         \/ promoFile \in [state: {"complete"}, list: Seq(PromotionType)]
  BY DEF TypeOK
<1>1. CASE TruncateTasks
  BY <1>0, <1>1 DEF TruncateTasks
<1>2. CASE WriteTasks
  <2>1. records \in Seq(RecordType)
    BY DEF CountInv
  <2>2. Complete(records) \in [state: {"complete"}, list: Seq(RecordType)]
    BY <2>1 DEF Complete
  <2> QED
    BY <1>0, <1>2, <2>2 DEF WriteTasks
<1>3. CASE TruncatePromotions
  BY <1>0, <1>3 DEF TruncatePromotions
<1>4. CASE WritePromotions
  <2>1. promotions \in Seq(PromotionType)
    BY DEF DeepInv
  <2>2. Complete(promotions) \in [state: {"complete"}, list: Seq(PromotionType)]
    BY <2>1 DEF Complete
  <2> QED
    BY <1>0, <1>4, <2>2 DEF WritePromotions
<1>5. CASE UNCHANGED <<tasksFile, promoFile>>
  BY <1>0, <1>5
<1>6. ASSUME \/ \E s \in Sources : Launch(s)
             \/ GoldenPasses \/ SkipDuplicate \/ TakeCandidate \/ WriteMutant
             \/ \E o \in Outcomes : Simulate(o)
             \/ DesignDone \/ CorpusEnds \/ LaunchDeep \/ SkipDecided
             \/ \E f \in {"REFUTED", "PROVEN-BMC", "INDETERMINATE"} : CheckDeep(f)
             \/ Die \/ Idle \/ UNCHANGED vars
      PROVE  UNCHANGED <<tasksFile, promoFile>>
  BY <1>6 DEF Launch, GoldenPasses, SkipDuplicate, TakeCandidate, WriteMutant, Simulate, DesignDone,
     CorpusEnds, LaunchDeep, SkipDecided, CheckDeep, Die, Idle, vars, disk
<1>7. ASSUME StageRaises \/ \E f \in {"REFUTED", "PROVEN-BMC", "INDETERMINATE"} : Decide(f)
      PROVE  UNCHANGED <<tasksFile, promoFile>>
  <2>1. \E d, o, f : RecordTask(d, o, f)
    BY <1>7 DEF StageRaises, Decide
  <2> QED
    BY <2>1 DEF RecordTask, disk
<1> QED
  BY <1>1, <1>2, <1>3, <1>4, <1>5, <1>6, <1>7 DEF Next

(***************************************************************************)
(* Type correctness of both drivers and of the files they leave behind,    *)
(* wherever a run of either is cut short.                                  *)
(***************************************************************************)
THEOREM TypeCorrect == Spec => []TypeOK
<1>1. Init => CountInv /\ RecordsInv /\ DeepInv
  BY DEF Init, CountInv, RecordsInv, DeepInv, Processing, Accounted, IsComplete, Absent
<1>2. Init => TypeOK
  <2> SUFFICES ASSUME Init PROVE TypeOK
    OBVIOUS
  <2>1. files \in [TaskIds -> Mutants \cup {NoFile}]
    BY DEF Init
  <2>2. NDesigns \in Nat /\ 1 \in 1 .. (NDesigns + 1)
    OBVIOUS
  <2> QED
    BY <2>1, <2>2 DEF Init, TypeOK, Modes
<1>3. ASSUME TypeOK, CountInv, DeepInv, [Next]_vars, CountInv', RecordsInv', DeepInv' PROVE TypeOK'
  <2>1. mode' \in Modes /\ design' \in 1 .. (NDesigns + 1) /\ seen' \subseteq Mutants
    BY <1>3, PlacesStep
  <2>2. /\ \/ tasksFile' \in {Absent, Partial}
           \/ tasksFile' \in [state: {"complete"}, list: Seq(RecordType)]
        /\ \/ promoFile' \in {Absent, Partial}
           \/ promoFile' \in [state: {"complete"}, list: Seq(PromotionType)]
    BY <1>3, FormsStep
  <2>3. /\ source' \in Sources /\ position' \in Nat /\ duplicates' \in Nat /\ distinct' \in Int
        /\ sim' \in Outcomes \cup {"None"}
        /\ fresh' \in Seq(RecordType) /\ records' \in Seq(RecordType)
    BY <1>3 DEF CountInv
  <2>4. nature' \in Natures /\ files' \in [TaskIds -> Mutants \cup {NoFile}]
    BY <1>3 DEF RecordsInv
  <2>5. /\ runs' \in Nat /\ steady' \in BOOLEAN
        /\ queue' \in Seq(RecordType) /\ promotions' \in Seq(PromotionType)
    BY <1>3 DEF DeepInv
  <2> QED
    BY <2>1, <2>2, <2>3, <2>4, <2>5 DEF TypeOK
<1> QED
  BY <1>1, <1>2, <1>3, CountStep, RecordsStep, ListedInit, ListedStep, DeepStep, PTL DEF Spec
=============================================================================
