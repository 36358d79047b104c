---------------------------- MODULE ForgeCorpus ----------------------------
(***************************************************************************)
(* The making of the bug corpus: main and generate_for_design of           *)
(* rtlverdict/forge/corpus.py (and generate_fifo_corpus.py, its instance   *)
(* with one design), and forge/deep_bmc_promote.py, which reads what they  *)
(* wrote.  They meet in files only: one Verilog file per mutant, tasks.json*)
(* and deep_bmc_promotions.json.  Each can raise or be killed anywhere and *)
(* be started again, also after the sources or the operators changed.      *)
(***************************************************************************)
EXTENDS Integers, Sequences

CONSTANTS
  NDesigns,    \* the designs are visited in the order 1 .. NDesigns
  Mutants,     \* the mutant sources, as the normalised text tells them apart
  Sources,     \* states of the golden sources and operators between runs
  Candidates,  \* Candidates[s][d]: the mutants that the operators produce for
               \* design d, in order, with repetitions
  Natures,     \* what may be true of the mutants: a set of functions
  MaxRuns,     \* bound: how often a driver is started
  NoFile

Outcomes == {"PASS", "FAIL", "SIM-INVALID"}

(* in40, in200: it differs from the golden design within 40, within 200     *)
(* cycles after reset; test: what the testbench makes of it.                *)
NatureType == [in40: BOOLEAN, in200: BOOLEAN, test: Outcomes]

ASSUME CandidatesAssumption ==
  /\ NDesigns \in Nat \ {0}
  /\ Candidates \in [Sources -> [1 .. NDesigns -> Seq(Mutants)]]
ASSUME NaturesAssumption ==
  /\ Natures \subseteq [Mutants -> NatureType]
  /\ \A nature \in Natures, m \in Mutants : nature[m].in40 => nature[m].in200
ASSUME RunsAssumption == MaxRuns \in Nat /\ NoFile \notin Mutants

VARIABLES
  mode,        \* where the running driver is, "off" when none runs
  source,      \* the state of the sources this driver reads
  steady,      \* history: every corpus run so far read the same sources
  nature,      \* the truth about the mutants
  design,      \* the design being processed
  position,    \* candidates of it that are done with
  seen,        \* seen_hashes
  duplicates,  \* duplicate_count
  sim,         \* sim_mutant of the current candidate
  fresh,       \* records of the current design
  records,     \* all_records
  distinct,    \* total_distinct
  queue,       \* records the deep search has not looked at yet
  promotions,  \* what that search found so far
  files,       \* files[t]: the mutant in the file of task t
  tasksFile,   \* tasks.json
  promoFile,   \* deep_bmc_promotions.json
  runs

loop == <<design, position, seen, duplicates, sim, fresh>>
corpus == <<records, distinct>>
deep == <<queue, promotions>>
disk == <<files, tasksFile, promoFile>>
vars == <<mode, source, steady, nature, loop, corpus, deep, disk, runs>>

Todo == Candidates[source][design]
TaskIds ==
  UNION { UNION { {d} \X DOMAIN Candidates[s][d] : d \in 1 .. NDesigns } : s \in Sources }
Task == <<design, position + 1>>
Mutant == Todo[position + 1]

Absent == [state |-> "absent"]
Partial == [state |-> "partial"]
Complete(list) == [state |-> "complete", list |-> list]
IsComplete(file) == file.state = "complete"

Init ==
  /\ mode = "off"
  /\ source \in Sources
  /\ steady = TRUE
  /\ nature \in Natures
  /\ design = 1 /\ position = 0 /\ seen = {} /\ duplicates = 0
  /\ sim = "None" /\ fresh = <<>>
  /\ records = <<>> /\ distinct = 0
  /\ queue = <<>> /\ promotions = <<>>
  /\ files = [t \in TaskIds |-> NoFile]
  /\ tasksFile = Absent /\ promoFile = Absent
  /\ runs = 0

(* A driver that ends leaves nothing in memory. *)
Exit ==
  /\ mode' = "off"
  /\ design' = 1 /\ position' = 0 /\ seen' = {} /\ duplicates' = 0
  /\ sim' = "None" /\ fresh' = <<>>
  /\ records' = <<>> /\ distinct' = 0
  /\ queue' = <<>> /\ promotions' = <<>>

-----------------------------------------------------------------------------
(* corpus.py: one design after another, each golden first.                  *)

Launch(s) ==
  /\ mode = "off" /\ runs < MaxRuns
  /\ runs' = runs + 1
  /\ source' = s
  /\ steady' = (steady /\ (runs = 0 \/ s = source))
  /\ mode' = "golden"
  /\ UNCHANGED <<nature, loop, corpus, deep, disk>>

GoldenPasses ==
  /\ mode = "golden"
  /\ mode' = "candidate"
  /\ position' = 0 /\ seen' = {} /\ duplicates' = 0 /\ fresh' = <<>>
  /\ UNCHANGED <<source, steady, nature, design, sim, corpus, deep, disk, runs>>

(* A candidate whose text was produced before is counted and skipped. *)
SkipDuplicate ==
  /\ mode = "candidate" /\ position < Len(Todo)
  /\ Mutant \in seen
  /\ duplicates' = duplicates + 1
  /\ position' = position + 1
  /\ UNCHANGED <<mode, source, steady, nature, design, seen, sim, fresh, corpus, deep, disk, runs>>

(* Mutant of TakeCandidate: the text is not entered in seen_hashes. *)
TakeUnseen ==
  /\ mode = "candidate" /\ position < Len(Todo)
  /\ Mutant \notin seen
  /\ mode' = "fidelity"
  /\ UNCHANGED <<source, steady, nature, loop, corpus, deep, disk, runs>>

TakeCandidate ==
  /\ mode = "candidate" /\ position < Len(Todo)
  /\ Mutant \notin seen
  /\ seen' = seen \cup {Mutant}
  /\ mode' = "fidelity"
  /\ UNCHANGED <<source, steady, nature, design, position, duplicates, sim, fresh,
                 corpus, deep, disk, runs>>

(* Mutant of WriteMutant: a file that is already there is kept. *)
WriteMutantOnce ==
  /\ mode = "fidelity"
  /\ files' = [files EXCEPT ![Task] = IF @ = NoFile THEN Mutant ELSE @]
  /\ mode' = "sim"
  /\ UNCHANGED <<source, steady, nature, loop, corpus, deep, tasksFile, promoFile, runs>>

(* The fidelity check passed: the mutant is written to its file. *)
WriteMutant ==
  /\ mode = "fidelity"
  /\ files' = [files EXCEPT ![Task] = Mutant]
  /\ mode' = "sim"
  /\ UNCHANGED <<source, steady, nature, loop, corpus, deep, tasksFile, promoFile, runs>>

(* run_sim: the testbench's own marker line; a simulation that hangs or     *)
(* prints none is SIM-INVALID.                                              *)
Simulate(o) ==
  /\ mode = "sim"
  /\ o \in {nature[Mutant].test, "SIM-INVALID"}
  /\ sim' = o
  /\ mode' = "formal"
  /\ UNCHANGED <<source, steady, nature, design, position, seen, duplicates, fresh,
                 corpus, deep, disk, runs>>

(* check_bmc within k cycles, as SolverProcs describes it. *)
BmcOutcomes(diverges) == {"INDETERMINATE", IF diverges THEN "REFUTED" ELSE "PROVEN-BMC"}

(* Mutant of Decision: a refuted mutant is kept, whatever the testbench says. *)
DecisionIgnoresSim(o, f) ==
  IF o = "SIM-INVALID" THEN "DISCARD"
  ELSE IF f = "REFUTED" THEN "KEEP"
  ELSE "QUARANTINE"

(* Mutant of Decision: what no rule decides keeps its formal verdict.       *)
DecisionFormal(o, f) ==
  IF o = "SIM-INVALID" THEN "DISCARD"
  ELSE IF f = "REFUTED" /\ o = "FAIL" THEN "KEEP"
  ELSE IF f = "REFUTED" /\ o = "PASS" THEN "SILENT"
  ELSE f

Decision(o, f) ==
  IF o = "SIM-INVALID" THEN "DISCARD"
  ELSE IF f = "REFUTED" /\ o = "FAIL" THEN "KEEP"
  ELSE IF f = "REFUTED" /\ o = "PASS" THEN "SILENT"
  ELSE "QUARANTINE"

TaskRecord(decision, o, f) ==
  [task |-> Task, mutant |-> Mutant, decision |-> decision, sim |-> o, formal |-> f]

RecordTask(decision, o, f) ==
  /\ fresh' = Append(fresh, TaskRecord(decision, o, f))
  /\ position' = position + 1
  /\ mode' = "candidate"
  /\ UNCHANGED <<source, steady, nature, design, seen, duplicates, sim, corpus, deep, disk, runs>>

Decide(f) ==
  /\ mode = "formal"
  /\ f \in BmcOutcomes(nature[Mutant].in40)
  /\ RecordTask(Decision(sim, f), sim, f)

(* Mutant of StageRaises: the exception is swallowed with its task. *)
StageSwallowed ==
  /\ mode \in {"fidelity", "sim", "formal"}
  /\ position' = position + 1
  /\ mode' = "candidate"
  /\ UNCHANGED <<source, steady, nature, design, seen, duplicates, sim, fresh, corpus, deep, disk, runs>>

(* Any exception of a stage becomes an ERROR record. *)
StageRaises ==
  /\ mode \in {"fidelity", "sim", "formal"}
  /\ RecordTask("ERROR", "None", "None")

(* The records and the counts of a design are added to those of the run. *)
DesignDone ==
  /\ mode = "candidate" /\ position = Len(Todo)
  /\ records' = records \o fresh
  /\ distinct' = distinct + (Len(Todo) - duplicates)
  /\ design' = design + 1
  /\ mode' = IF design = NDesigns THEN "write" ELSE "golden"
  /\ UNCHANGED <<source, steady, nature, position, seen, duplicates, sim, fresh, deep, disk, runs>>

(* tasks.json is rewritten in place, and only then are the counts compared. *)
TruncateTasks ==
  /\ mode = "write"
  /\ tasksFile' = Partial
  /\ mode' = "writing"
  /\ UNCHANGED <<source, steady, nature, loop, corpus, deep, files, promoFile, runs>>

WriteTasks ==
  /\ mode = "writing"
  /\ tasksFile' = Complete(records)
  /\ mode' = "assert"
  /\ UNCHANGED <<source, steady, nature, loop, corpus, deep, files, promoFile, runs>>

Accounted == Len(records) = distinct

CorpusEnds ==
  /\ mode = "assert" /\ Accounted
  /\ Exit
  /\ UNCHANGED <<source, steady, nature, disk, runs>>

-----------------------------------------------------------------------------
(* deep_bmc_promote.py: tasks.json is read once, and every QUARANTINE       *)
(* record of it is checked again to a greater depth, on the file it names.  *)

LaunchDeep ==
  /\ mode = "off" /\ runs < MaxRuns
  /\ IsComplete(tasksFile)
  /\ runs' = runs + 1
  /\ queue' = tasksFile.list
  /\ mode' = "deep"
  /\ UNCHANGED <<source, steady, nature, loop, corpus, promotions, disk>>

(* Mutant of Promotion: what is not proven equivalent is promoted. *)
PromotionUnlessProven(f) == IF f = "PROVEN-BMC" THEN "STAY-QUARANTINE" ELSE "PROMOTE"
Promotion(f) == IF f = "REFUTED" THEN "PROMOTE" ELSE "STAY-QUARANTINE"

SkipDecided ==
  /\ mode = "deep" /\ queue # <<>> /\ Head(queue).decision # "QUARANTINE"
  /\ queue' = Tail(queue)
  /\ UNCHANGED <<mode, source, steady, nature, loop, corpus, promotions, disk, runs>>

CheckDeep(f) ==
  /\ mode = "deep" /\ queue # <<>> /\ Head(queue).decision = "QUARANTINE"
  /\ f \in BmcOutcomes(nature[files[Head(queue).task]].in200)
  /\ promotions' = Append(promotions, [of |-> Head(queue), decision |-> Promotion(f)])
  /\ queue' = Tail(queue)
  /\ UNCHANGED <<mode, source, steady, nature, loop, corpus, disk, runs>>

TruncatePromotions ==
  /\ mode = "deep" /\ queue = <<>>
  /\ promoFile' = Partial
  /\ mode' = "deepWriting"
  /\ UNCHANGED <<source, steady, nature, loop, corpus, deep, files, tasksFile, runs>>

WritePromotions ==
  /\ mode = "deepWriting"
  /\ promoFile' = Complete(promotions)
  /\ Exit
  /\ UNCHANGED <<source, steady, nature, files, tasksFile, runs>>

-----------------------------------------------------------------------------
(* A golden design that does not pass its own testbench, a check_bmc that   *)
(* raises in the deep search, a failed assertion, an interrupt: the driver  *)
(* ends and what it held in memory is gone.                                 *)
Die ==
  /\ mode # "off"
  /\ Exit
  /\ UNCHANGED <<source, steady, nature, disk, runs>>

Idle == mode = "off" /\ runs = MaxRuns /\ UNCHANGED vars

Next ==
  \/ \E s \in Sources : Launch(s)
  \/ GoldenPasses \/ SkipDuplicate \/ TakeCandidate \/ WriteMutant
  \/ \E o \in Outcomes : Simulate(o)
  \/ \E f \in {"REFUTED", "PROVEN-BMC", "INDETERMINATE"} : Decide(f) \/ CheckDeep(f)
  \/ StageRaises \/ DesignDone \/ TruncateTasks \/ WriteTasks \/ CorpusEnds
  \/ LaunchDeep \/ SkipDecided \/ TruncatePromotions \/ WritePromotions
  \/ Die \/ Idle

Spec == Init /\ [][Next]_vars

-----------------------------------------------------------------------------
(* PROPERTIES                                                              *)

Modes ==
  {"off", "golden", "candidate", "fidelity", "sim", "formal", "write", "writing",
   "assert", "deep", "deepWriting"}
RecordType ==
  [task: (1 .. NDesigns) \X (Nat \ {0}), mutant: Mutants,
   decision: {"KEEP", "SILENT", "QUARANTINE", "DISCARD", "ERROR"},
   sim: Outcomes \cup {"None"},
   formal: {"REFUTED", "PROVEN-BMC", "INDETERMINATE", "None"}]
PromotionType == [of: RecordType, decision: {"PROMOTE", "STAY-QUARANTINE"}]

(* Type invariant of both drivers and of the files they leave behind. *)
TypeOK ==
  /\ mode \in Modes
  /\ source \in Sources /\ steady \in BOOLEAN
  /\ nature \in Natures
  /\ design \in 1 .. (NDesigns + 1)
  /\ position \in Nat /\ duplicates \in Nat /\ distinct \in Int /\ runs \in Nat
  /\ seen \subseteq Mutants
  /\ sim \in Outcomes \cup {"None"}
  /\ fresh \in Seq(RecordType) /\ records \in Seq(RecordType)
  /\ queue \in Seq(RecordType)
  /\ promotions \in Seq(PromotionType)
  /\ files \in [TaskIds -> Mutants \cup {NoFile}]
  /\ \/ tasksFile \in {Absent, Partial}
     \/ tasksFile \in [state: {"complete"}, list: Seq(RecordType)]
  /\ \/ promoFile \in {Absent, Partial}
     \/ promoFile \in [state: {"complete"}, list: Seq(PromotionType)]

(***************************************************************************)
(* The assertion at the end of main never fires, whatever stages raised    *)
(* and whatever the operators repeated: one record per distinct candidate. *)
(***************************************************************************)
AssertionHolds == mode = "assert" => Accounted

(***************************************************************************)
(* Whatever runs were killed on the way, a tasks.json that can be read is  *)
(* that of one whole run: every mutant of every design for one state of    *)
(* the sources is in it exactly once, with the task id of its first        *)
(* occurrence.                                                             *)
(***************************************************************************)
FirstOccurrences(s, d) ==
  { i \in DOMAIN Candidates[s][d] :
      \A j \in 1 .. (i - 1) : Candidates[s][d][j] # Candidates[s][d][i] }

TasksWhole ==
  IsComplete(tasksFile) =>
    /\ \A a, b \in DOMAIN tasksFile.list :
         a # b => tasksFile.list[a].task # tasksFile.list[b].task
    /\ \E s \in Sources :
         { <<r.task, r.mutant>> : r \in { tasksFile.list[a] : a \in DOMAIN tasksFile.list } }
         = UNION { { <<<<d, i>>, Candidates[s][d][i]>> : i \in FirstOccurrences(s, d) }
                   : d \in 1 .. NDesigns }

(***************************************************************************)
(* What the corpus says of a mutant is true of it: a KEEP diverges and its *)
(* testbench fails, a SILENT diverges and its testbench passes, a refuted  *)
(* mutant is never quarantined, and a bounded pass never discards one.     *)
(***************************************************************************)
DecisionsTrue ==
  IsComplete(tasksFile) =>
    \A a \in DOMAIN tasksFile.list :
      LET r == tasksFile.list[a]
          n == nature[r.mutant]
      IN /\ r.decision = "KEEP" => n.in40 /\ n.test = "FAIL"
         /\ r.decision = "SILENT" => n.in40 /\ n.test = "PASS"
         /\ r.decision = "QUARANTINE" => r.formal # "REFUTED"
         /\ r.decision = "DISCARD" => r.sim = "SIM-INVALID"

(***************************************************************************)
(* After a corpus run that was not cut short, the file of every task is    *)
(* the mutant its record is about, also when earlier runs, for other       *)
(* sources, left files of the same names.                                  *)
(***************************************************************************)
RecordsMatchFiles ==
  mode = "assert" =>
    \A a \in DOMAIN records :
      records[a].decision # "ERROR" => files[records[a].task] = records[a].mutant

(***************************************************************************)
(* As long as the sources do not change, a promotion is a real divergence  *)
(* of the mutant whose record it names, and that record was undecided.     *)
(***************************************************************************)
PromotionsTrue ==
  steady /\ IsComplete(promoFile) =>
    \A a \in DOMAIN promoFile.list :
      promoFile.list[a].decision = "PROMOTE" =>
        /\ nature[promoFile.list[a].of.mutant].in200
        /\ promoFile.list[a].of.decision = "QUARANTINE"

(***************************************************************************)
(* corpus.py keeps a refuted mutant only if its testbench fails (one that  *)
(* passes is SILENT), and deep_bmc_promote.py promotes to KEEP: so no      *)
(* promoted mutant should pass its testbench.  The code does not look.     *)
(***************************************************************************)
PromotedAreCaught ==
  IsComplete(promoFile) =>
    \A a \in DOMAIN promoFile.list :
      promoFile.list[a].decision = "PROMOTE" => promoFile.list[a].of.sim # "PASS"

-----------------------------------------------------------------------------
(* The strengthening used in ForgeCorpusProofs: the counts agree after each *)
(* candidate, not only at the end.                                          *)
Processing == mode \in {"fidelity", "sim", "formal"}

CountInv ==
  /\ position \in Nat /\ duplicates \in Nat /\ distinct \in Nat
  /\ fresh \in Seq(RecordType) /\ records \in Seq(RecordType)
  /\ sim \in Outcomes \cup {"None"}
  /\ source \in Sources
  /\ design \in Nat \ {0}
  /\ mode = "golden" \/ mode = "candidate" \/ Processing => design \in 1 .. NDesigns
  /\ mode = "formal" => sim \in Outcomes
  /\ mode = "candidate" => position <= Len(Todo)
  /\ Processing => position < Len(Todo)
  /\ mode = "candidate" \/ Processing => Len(fresh) + duplicates = position
  /\ mode = "off" => design = 1
  /\ Accounted

(* What is known of every record made so far: it is true of its mutant, the *)
(* mutant is in the file it names, and no later task has that name.         *)
DecisionTrue(r) ==
  /\ r.decision = "KEEP" => nature[r.mutant].in40 /\ nature[r.mutant].test = "FAIL"
  /\ r.decision = "SILENT" => nature[r.mutant].in40 /\ nature[r.mutant].test = "PASS"
  /\ r.decision = "QUARANTINE" => r.formal # "REFUTED"
  /\ r.decision = "DISCARD" => r.sim = "SIM-INVALID"

FileMatches(r) == r.decision # "ERROR" => files[r.task] = r.mutant

RecordsInv ==
  /\ nature \in Natures
  /\ files \in [TaskIds -> Mutants \cup {NoFile}]
  /\ mode = "formal" => sim \in {nature[Mutant].test, "SIM-INVALID"}
  /\ mode \in {"sim", "formal"} => files[Task] = Mutant
  /\ mode = "candidate" \/ Processing =>
       \A a \in DOMAIN fresh :
         /\ DecisionTrue(fresh[a]) /\ FileMatches(fresh[a])
         /\ \E i \in 1 .. position : fresh[a].task = <<design, i>>
  /\ \A a \in DOMAIN records :
       /\ DecisionTrue(records[a]) /\ FileMatches(records[a])
       /\ \E d \in 1 .. design - 1, i \in Nat : records[a].task = <<d, i>>
  /\ IsComplete(tasksFile) => \A a \in DOMAIN tasksFile.list : DecisionTrue(tasksFile.list[a])

(* What the corpus lists so far: the first occurrences of the designs done  *)
(* with, of the candidates done with, and each once.                        *)
Listed(list, s, tasks) ==
  /\ \A a \in DOMAIN list :
       /\ list[a].task \in tasks
       /\ list[a].mutant = Candidates[s][list[a].task[1]][list[a].task[2]]
  /\ \A t \in tasks : \E a \in DOMAIN list : list[a].task = t
  /\ \A a, b \in DOMAIN list : a # b => list[a].task # list[b].task

FirstsOf(s, n) == { t \in TaskIds : t[1] <= n /\ t[2] \in FirstOccurrences(s, t[1]) }
FirstsUpTo(s, d, n) ==
  { t \in TaskIds : t[1] = d /\ t[2] <= n /\ t[2] \in FirstOccurrences(s, d) }

ListedInv ==
  /\ mode = "candidate" \/ Processing => Listed(fresh, source, FirstsUpTo(source, design, position))
  /\ mode = "candidate" => seen = { Todo[j] : j \in 1 .. position }
  /\ Processing => /\ seen = { Todo[j] : j \in 1 .. position + 1 }
                   /\ position + 1 \in FirstOccurrences(source, design)
  /\ Listed(records, source, FirstsOf(source, design - 1))
  /\ mode \in {"write", "writing", "assert"} => design = NDesigns + 1
  /\ mode = "off" => records = <<>>
  /\ IsComplete(tasksFile) => \E s \in Sources : Listed(tasksFile.list, s, FirstsOf(s, NDesigns))

(* As long as the sources do not change, the tasks of a list that was       *)
(* written or is searched are those of the sources, and their files hold    *)
(* them: a run that starts anew writes the same mutants under their names.  *)
Fits(r) ==
  /\ r.task \in TaskIds
  /\ r.mutant = Candidates[source][r.task[1]][r.task[2]]
  /\ FileMatches(r)
Promoted(p) ==
  p.decision = "PROMOTE" => nature[p.of.mutant].in200 /\ p.of.decision = "QUARANTINE"

DeepInv ==
  /\ runs \in Nat /\ steady \in BOOLEAN
  /\ queue \in Seq(RecordType) /\ promotions \in Seq(PromotionType)
  /\ IsComplete(tasksFile) => tasksFile.list \in Seq(RecordType)
  /\ runs = 0 => /\ mode = "off" /\ queue = <<>> /\ promotions = <<>>
                 /\ ~IsComplete(tasksFile) /\ ~IsComplete(promoFile)
  /\ steady =>
       /\ \A a \in DOMAIN queue : Fits(queue[a])
       /\ IsComplete(tasksFile) => \A a \in DOMAIN tasksFile.list : Fits(tasksFile.list[a])
       /\ \A a \in DOMAIN promotions : Promoted(promotions[a])
       /\ IsComplete(promoFile) => \A a \in DOMAIN promoFile.list : Promoted(promoFile.list[a])
=============================================================================
