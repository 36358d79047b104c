------------------------------ MODULE Harness ------------------------------
(***************************************************************************)
(* The three scripts that run the agent's path with a stub in place of a   *)
(* model: agent_pilot_plumbing.py, verdict_ladder_validation.py and        *)
(* verify.py.  They are started by hand, one at a time, may raise or be    *)
(* killed anywhere, and read what earlier ones left: the pilot's           *)
(* transcripts, its selection of tasks, and verify_golden.json.            *)
(***************************************************************************)
EXTENDS Integers, Sequences, SequencesExt, FiniteSetsExt, Rounding

CONSTANTS
  KeepLists,   \* what the KEEP tasks may be: sequences of [id, design, depth]
  OldGolden,   \* what verify_golden.json may hold of earlier lists of checks;
               \* it has the stub cases
  DesignsByName, \* the designs, in alphabetical order
  PerDesign,   \* n_per_design
  Example,     \* the task the pilot's report shows as an example
  Checks,      \* what verify.py runs: FIXED_TASK_IDS and its two stub cases
  Measured,    \* what one of them may give: a verdict with its depth
  MaxHarnessRuns \* bound: how many scripts are started

ASSUME KeepListsAssumption ==
  \A list \in KeepLists :
    /\ list \in Seq(ToSet(list))
    /\ \A i, j \in DOMAIN list : list[i].id = list[j].id => i = j
    /\ \A i \in DOMAIN list :
         list[i].depth \in Nat /\ list[i].design \in ToSet(DesignsByName)
ASSUME SpreadAssumption ==
  PerDesign \in Nat /\ PerDesign >= 2 /\ DesignsByName \in Seq(ToSet(DesignsByName))

PilotArms == <<"A", "B">>
NoFile == [is |-> "absent"]
HalfFile == [is |-> "half"]
Whole(file) == file.is = "whole"

VARIABLES
  keep,         \* the KEEP tasks of the corpus
  transcripts,  \* transcripts[<<id, arm>>]: the pilot's trajectory.json
  pilotReport,  \* agent_pilot_plumbing_report.json
  ladderReport, \* verdict_ladder_validation_report.json
  golden,       \* verify_golden.json
  verifyReport, \* verify_run_report.json
  harness,      \* the script that runs: [name, selected, todo, rows]
  harnessRuns

harnessVars == <<keep, transcripts, pilotReport, ladderReport, golden, verifyReport,
                 harness, harnessRuns>>

Ids == { task.id : task \in UNION { ToSet(list) : list \in KeepLists } }

-----------------------------------------------------------------------------
(* _stratified_selection: of each design the tasks at evenly spread places  *)
(* of its pool, which is sorted by depth.                                   *)

(* Mutant of Places: the last step is not taken. *)
PlacesShort(n) == { Rounded(i * (n - 1), PerDesign) : i \in 0 .. PerDesign - 1 }
Places(n) == { Rounded(i * (n - 1), PerDesign - 1) : i \in 0 .. PerDesign - 1 }

(* By design, then by depth; of equal ones the first in the file is first.  *)
PlaceOf(design) == CHOOSE n \in DOMAIN DesignsByName : DesignsByName[n] = design
Before(list, i, j) ==
  LET m == PlaceOf(list[i].design)
      n == PlaceOf(list[j].design) IN
    \/ m < n
    \/ m = n /\ list[i].depth < list[j].depth
    \/ m = n /\ list[i].depth = list[j].depth /\ i < j
Earlier(list, S, i) == Cardinality({ j \in S : Before(list, j, i) })

Pool(list, design) == { i \in DOMAIN list : list[i].design = design }
Chosen(list) ==
  { i \in DOMAIN list :
      LET pool == Pool(list, list[i].design) IN
        \/ Cardinality(pool) <= PerDesign
        \/ Earlier(list, pool, i) \in Places(Cardinality(pool)) }
Stratified(list) ==
  [k \in 1 .. Cardinality(Chosen(list)) |->
    list[CHOOSE i \in Chosen(list) : Earlier(list, Chosen(list), i) = k - 1]]

-----------------------------------------------------------------------------
NoHarness == [name |-> "none", selected |-> <<>>, todo |-> <<>>, rows |-> <<>>]

(* Task by task, both arms of each. *)
Matrix(tasks) ==
  [k \in 1 .. 2 * Len(tasks) |-> <<tasks[(k + 1) \div 2].id, PilotArms[2 - (k % 2)]>>]

(* What each script has to do: the pilot its matrix twice; the validation   *)
(* to read the first condition and run the other three; verify all checks.  *)
Conditions == <<"C1", "C2", "C3", "C4">>
Todo(name, tasks) ==
  CASE name = "pilot" -> Matrix(tasks) \o Matrix(tasks)
    [] name = "ladder" ->
         LET n == Len(tasks) IN
           [k \in 1 .. 4 * n |-> <<tasks[((k - 1) % n) + 1].id, Conditions[((k - 1) \div n) + 1]>>]
    [] OTHER -> <<>>

StartHarness(name) ==
  /\ harness = NoHarness /\ harnessRuns < MaxHarnessRuns
  /\ harnessRuns' = harnessRuns + 1
  /\ harness' = LET tasks == Stratified(keep) IN
       [name |-> name, selected |-> tasks, todo |-> Todo(name, tasks), rows |-> <<>>]
  /\ UNCHANGED <<keep, transcripts, pilotReport, ladderReport, golden, verifyReport>>

Row(verdict, cached) ==
  harness' = [harness EXCEPT
    !.todo = Tail(@),
    !.rows = Append(@, [of |-> Head(harness.todo), verdict |-> verdict, cached |-> cached])]

(* One cell of the pilot's matrix: reused if it is there and whole, else    *)
(* run with golden as the patch, which is judged by the real ladder.        *)
Reuse ==
  /\ harness.name = "pilot" /\ harness.todo # <<>>
  /\ LET file == transcripts[Head(harness.todo)] IN Whole(file) /\ Row(file.verdict, TRUE)
  /\ UNCHANGED <<keep, transcripts, pilotReport, ladderReport, golden, verifyReport, harnessRuns>>

Transcribe(verdict) ==
  /\ transcripts' = [transcripts EXCEPT ![Head(harness.todo)] = [is |-> "whole", verdict |-> verdict]]
  /\ Row(verdict, FALSE)
  /\ UNCHANGED <<keep, pilotReport, ladderReport, golden, verifyReport, harnessRuns>>

(* Mutant of RunStub: what is there is run again. *)
RunStubAlways ==
  /\ harness.name = "pilot" /\ harness.todo # <<>>
  /\ \E verdict \in {"PLAUSIBLE", "INDETERMINATE"} : Transcribe(verdict)

RunStub ==
  /\ harness.name = "pilot" /\ harness.todo # <<>>
  /\ ~Whole(transcripts[Head(harness.todo)])
  /\ \E verdict \in {"PLAUSIBLE", "INDETERMINATE"} : Transcribe(verdict)

(* Both assertions on the second pass, then the demonstration of the cap,   *)
(* which needs a task, and the example, without which nothing is written.   *)
WritePilotReport ==
  /\ harness.name = "pilot" /\ harness.todo = <<>> /\ harness.selected # <<>>
  /\ LET n == Len(harness.rows) \div 2
         first == SubSeq(harness.rows, 1, n) IN
       /\ \A i \in n + 1 .. 2 * n : harness.rows[i].cached
       /\ \E row \in ToSet(first) : row.of = <<Example, "A">>
       /\ pilotReport' = [is |-> "whole", list |-> keep, rows |-> first]
  /\ harness' = NoHarness
  /\ UNCHANGED <<keep, transcripts, ladderReport, golden, verifyReport, harnessRuns>>

(* The validation reads the pilot's transcripts of arm A and runs the rest: *)
(* golden by region, the mutant of another task of the design, no Verilog.  *)
ReadC1 ==
  /\ harness.name = "ladder" /\ harness.todo # <<>> /\ Head(harness.todo)[2] = "C1"
  /\ LET file == transcripts[<<Head(harness.todo)[1], "A">>] IN
       Whole(file) /\ Row(file.verdict, TRUE)
  /\ UNCHANGED <<keep, transcripts, pilotReport, ladderReport, golden, verifyReport, harnessRuns>>

Donors(id) ==
  { d \in ToSet(keep) : d.id # id /\ \E t \in ToSet(harness.selected) : t.id = id /\ t.design = d.design }
Judged(cell) ==
  CASE cell[2] = "C2" -> {"PLAUSIBLE", "INDETERMINATE"}
    [] cell[2] = "C3" -> IF Donors(cell[1]) = {} THEN {} ELSE {"REFUTED", "INDETERMINATE"}
    [] cell[2] = "C4" -> {"INVALID-PATCH"}
    [] OTHER -> {}
RunCondition ==
  /\ harness.name = "ladder" /\ harness.todo # <<>>
  /\ \E verdict \in Judged(Head(harness.todo)) : Row(verdict, FALSE)
  /\ UNCHANGED <<keep, transcripts, pilotReport, ladderReport, golden, verifyReport, harnessRuns>>

WriteLadderReport ==
  /\ harness.name = "ladder" /\ harness.todo = <<>>
  /\ ladderReport' = [is |-> "whole", rows |-> harness.rows]
  /\ harness' = NoHarness
  /\ UNCHANGED <<keep, transcripts, pilotReport, golden, verifyReport, harnessRuns>>

-----------------------------------------------------------------------------
(* verify.py; its rows are a function from the checks to what they gave.    *)

Measure ==
  /\ harness.name \in {"verify", "freeze"} /\ harness.rows = <<>>
  /\ \E rows \in [Checks -> Measured] : harness' = [harness EXCEPT !.rows = rows]
  /\ UNCHANGED <<keep, transcripts, pilotReport, ladderReport, golden, verifyReport, harnessRuns>>

Report(passed) ==
  /\ verifyReport' = [is |-> "whole", passed |-> passed, rows |-> harness.rows, against |-> golden]
  /\ harness' = NoHarness
  /\ UNCHANGED <<keep, transcripts, pilotReport, ladderReport, golden, harnessRuns>>

Freeze ==
  /\ harness.name = "freeze" /\ harness.rows # <<>>
  /\ golden' = [is |-> "whole", rows |-> harness.rows]
  /\ harness' = [harness EXCEPT !.name = "frozen"]
  /\ UNCHANGED <<keep, transcripts, pilotReport, ladderReport, verifyReport, harnessRuns>>

ReportFrozen == harness.name = "frozen" /\ Report(TRUE)

(* Mutant of Failures: a check the golden file lacks is passed over. *)
FailuresListed ==
  { c \in Checks \cap DOMAIN golden.rows : golden.rows[c] # harness.rows[c] }

(* A check that golden lacks is a failure.                                  *)
Failures ==
  { c \in Checks : c \notin DOMAIN golden.rows \/ golden.rows[c] # harness.rows[c] }

(* Without a golden file there is no report; with half of one it raises.    *)
GoldenMissing ==
  /\ harness.name = "verify" /\ harness.rows # <<>> /\ golden = NoFile
  /\ harness' = NoHarness
  /\ UNCHANGED <<keep, transcripts, pilotReport, ladderReport, golden, verifyReport, harnessRuns>>

(* A run without failures that took too long does not pass either.          *)
Compare ==
  /\ harness.name = "verify" /\ harness.rows # <<>> /\ Whole(golden)
  /\ \E slow \in BOOLEAN : Report(Failures = {} /\ ~slow)

-----------------------------------------------------------------------------
(* The script raises, or is killed, maybe while it writes a file.           *)
HarnessStops ==
  /\ harness # NoHarness
  /\ harness' = NoHarness
  /\ \/ UNCHANGED <<transcripts, pilotReport, ladderReport, golden, verifyReport>>
     \/ /\ harness.name = "pilot"
        /\ IF harness.todo = <<>> THEN pilotReport' = HalfFile /\ UNCHANGED transcripts
           ELSE /\ ~Whole(transcripts[Head(harness.todo)])
                /\ transcripts' = [transcripts EXCEPT ![Head(harness.todo)] = HalfFile]
                /\ UNCHANGED pilotReport
        /\ UNCHANGED <<ladderReport, golden, verifyReport>>
     \/ /\ harness.name = "ladder" /\ harness.todo = <<>> /\ ladderReport' = HalfFile
        /\ UNCHANGED <<transcripts, pilotReport, golden, verifyReport>>
     \/ /\ harness.name = "freeze" /\ harness.rows # <<>> /\ golden' = HalfFile
        /\ UNCHANGED <<transcripts, pilotReport, ladderReport, verifyReport>>
     \/ /\ harness.name = "frozen" \/ (harness.name = "verify" /\ harness.rows # <<>> /\ Whole(golden))
        /\ verifyReport' = HalfFile
        /\ UNCHANGED <<transcripts, pilotReport, ladderReport, golden>>
  /\ UNCHANGED <<keep, harnessRuns>>

(* The corpus is generated anew.  Scripts read it once, when they start.    *)
OtherCorpus ==
  /\ harness = NoHarness /\ harnessRuns < MaxHarnessRuns
  /\ \E list \in KeepLists \ {keep} : keep' = list
  /\ UNCHANGED <<transcripts, pilotReport, ladderReport, golden, verifyReport, harness, harnessRuns>>

HarnessDone ==
  harness = NoHarness /\ harnessRuns = MaxHarnessRuns /\ UNCHANGED harnessVars

HarnessStart(list, file) ==
  /\ keep = list /\ golden = file
  /\ transcripts = [cell \in Ids \X ToSet(PilotArms) |-> NoFile]
  /\ pilotReport = NoFile /\ ladderReport = NoFile /\ verifyReport = NoFile
  /\ harness = NoHarness /\ harnessRuns = 0

HarnessInit == \E list \in KeepLists, file \in OldGolden : HarnessStart(list, file)

HarnessNext ==
  \/ \E name \in {"pilot", "ladder", "verify", "freeze"} : StartHarness(name)
  \/ Reuse \/ RunStub \/ WritePilotReport
  \/ ReadC1 \/ RunCondition \/ WriteLadderReport
  \/ Measure \/ Freeze \/ ReportFrozen \/ GoldenMissing \/ Compare
  \/ HarnessStops \/ OtherCorpus \/ HarnessDone

HarnessSpec == HarnessInit /\ [][HarnessNext]_harnessVars

-----------------------------------------------------------------------------
(* PROPERTIES                                                              *)

(***************************************************************************)
(* A pilot report, whatever was killed or reused before and after it, has  *)
(* for each design an earliest and a latest diverging task and             *)
(* n_per_design tasks, or all, in both arms; and both reports cite the     *)
(* verdict that is in the transcript on disk.                              *)
(***************************************************************************)
ReportsTrue ==
  /\ Whole(pilotReport) =>
       LET rows == ToSet(pilotReport.rows)
           tasks == ToSet(pilotReport.list) IN
         /\ \A row \in rows : transcripts[row.of].is = "whole"
                              /\ transcripts[row.of].verdict = row.verdict
         /\ \A t \in tasks :
              LET own == { u \in tasks : u.design = t.design }
                  cited == { u \in own : \A arm \in {"A", "B"} : \E r \in rows : r.of = <<u.id, arm>> } IN
                /\ Cardinality(cited) >= Min({PerDesign, Cardinality(own)})
                /\ \E u \in cited : u.depth <= t.depth
                /\ \E u \in cited : u.depth >= t.depth
  /\ Whole(ladderReport) =>
       \A row \in ToSet(ladderReport.rows) :
         row.of[2] = "C1" => transcripts[<<row.of[1], "A">>].verdict = row.verdict

(***************************************************************************)
(* A report that says passed was compared with a golden file that has all  *)
(* checks, each with the result that was measured, whatever freezes and    *)
(* kills came before.                                                      *)
(***************************************************************************)
PassedIsReproduced ==
  (Whole(verifyReport) /\ verifyReport.passed) =>
    \A c \in Checks :
      /\ c \in DOMAIN verifyReport.against.rows
      /\ verifyReport.against.rows[c] = verifyReport.rows[c]
=============================================================================
