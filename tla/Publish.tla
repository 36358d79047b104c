------------------------------ MODULE Publish ------------------------------
(***************************************************************************)
(* How the corpus becomes the published page: scripts/build_stats.py       *)
(* writes results/corpus_stats.json, make_charts.py draws four figures     *)
(* from it, and build_dashboard.py puts statistics, tasks and figures into *)
(* docs/index.html, stamped with a commit.  The scripts are started by     *)
(* hand, one at a time and in any order, and may raise or be killed        *)
(* anywhere; meanwhile the forge may leave another corpus and the          *)
(* developer may commit.                                                   *)
(***************************************************************************)
EXTENDS Integers, Sequences, SequencesExt, FiniteSetsExt, Rounding

CONSTANTS
  Corpora,     \* Corpora[file]: what the forge may leave there, sets of tasks
  DesignOrder, \* DESIGNS, in order
  HomeOf,      \* HomeOf[design]: its file, CORPUS_FILES
  FormalK,     \* FormalK[design]: the k of DESIGNS
  Generates,   \* Generates[design]: how many mutants its golden source makes
  MaxForges, MaxScripts, MaxCommits \* bounds: how often each happens

TaskFiles == DOMAIN Corpora
DesignNames == ToSet(DesignOrder)

(* A task is [id, design, operator, decision, depth, k]; an ERROR task has  *)
(* no k, and a task without counterexample no depth.                        *)
Unknown == -1
ASSUME CorporaAssumption ==
  /\ IsFiniteSet(TaskFiles)
  /\ \A f \in TaskFiles : \A tasks \in Corpora[f] :
       IsFiniteSet(tasks) /\ \A t \in tasks : t.depth \in Nat \cup {Unknown}
ASSUME DesignAssumption ==
  /\ DesignOrder \in Seq(DesignNames) /\ DesignOrder # <<>>
  /\ DesignNames \cap {"operators", "cells", "histogram", "write"} = {}
  /\ \A d \in DesignNames : HomeOf[d] \in TaskFiles
Torn == [torn |-> TRUE]
Decisions == {"KEEP", "SILENT", "QUARANTINE", "ERROR"}

VARIABLES
  corpora,   \* corpora[file]: tasks.json
  stats,     \* corpus_stats.json
  figures,   \* figures[name]: the .svg
  page,      \* docs/index.html
  commits,   \* the committed trees, the last is HEAD
  pageClean, \* the page is as committed
  script,    \* the script that runs: [name, todo, read]
  disturbed, \* since it was started the forge has ended a run, or between its
             \* two questions to git something was committed
  counts     \* of forge runs and scripts

publishVars ==
  <<corpora, stats, figures, page, commits, pageClean, script, disturbed, counts>>

-----------------------------------------------------------------------------
(* build_stats.py                                                           *)

VerdictsOf(tasks) ==
  [v \in Decisions |-> Cardinality({ t \in tasks : t.decision = v })]
(* What a function counts for the members of a set. *)
Total(count, names) == MapThenSumSet(LAMBDA x : count[x], names)
AddedUp(verdicts) == Total(verdicts, Decisions)
RealBugs(verdicts) == verdicts["KEEP"] + verdicts["SILENT"]

(* Percent to one decimal, in tenths.                                       *)
Rate(n, of) == IF of = 0 THEN Unknown ELSE Rounded(1000 * n, of)

DesignRow(design, tasks) ==
  LET own == { t \in tasks : t.design = design } IN
    [formal_k |-> FormalK[design], recorded |-> Cardinality(own), verdicts |-> VerdictsOf(own)]

OperatorRow(own) ==
  LET verdicts == VerdictsOf(own)
      evaluated == AddedUp(verdicts) - verdicts["ERROR"] IN
    [candidates |-> AddedUp(verdicts), verdicts |-> verdicts,
     silent_rate |-> Rate(verdicts["SILENT"], RealBugs(verdicts)),
     equivalent_rate |-> Rate(verdicts["QUARANTINE"], evaluated)]

OperatorRows(tasks) ==
  [op \in { t.operator : t \in tasks } |-> OperatorRow({ t \in tasks : t.operator = op })]

(* Only cells with real bugs are listed. *)
Cells(tasks) ==
  { cell \in { [design |-> t.design, operator |-> t.operator,
                verdicts |-> VerdictsOf({ u \in tasks : u.design = t.design
                                                      /\ u.operator = t.operator })] : t \in tasks } :
      RealBugs(cell.verdicts) > 0 }

Bucket(depth) ==
  CASE depth < 5 -> "0-4" [] depth \in 5 .. 9 -> "5-9"
    [] depth \in 10 .. 19 -> "10-19" [] OTHER -> "20+"
Histogram(tasks) ==
  [b \in {"0-4", "5-9", "10-19", "20+"} |->
    Cardinality({ t \in tasks : t.decision = "KEEP" /\ t.depth # Unknown /\ Bucket(t.depth) = b })]

(* Mutant of Highest: the design with the most silent bugs. *)
HighestCount(per_design) ==
  SelectInSeq(DesignOrder, LAMBDA d :
    \A e \in DesignNames : per_design[e].silent <= per_design[d].silent)

(* The place of the first design with the highest rate. *)
Highest(per_design) ==
  SelectInSeq(DesignOrder, LAMBDA d :
    \A e \in DesignNames : per_design[e].rate <= per_design[d].rate)

SilentBugRate(rows) ==
  LET per_design ==
        [d \in DesignNames |->
          [keep |-> rows[d].verdicts["KEEP"], silent |-> rows[d].verdicts["SILENT"],
           rate |-> Rate(rows[d].verdicts["SILENT"], RealBugs(rows[d].verdicts))]]
      rates == { per_design[d].rate : d \in DesignNames } \ {Unknown}
      Pooled(names) ==
        Rate(Total([d \in DesignNames |-> per_design[d].silent], names),
             Total([d \in DesignNames |-> per_design[d].keep + per_design[d].silent], names))
  IN [per_design |-> per_design, rate |-> Pooled(DesignNames),
      min |-> IF rates = {} THEN Unknown ELSE Min(rates),
      max |-> IF rates = {} THEN Unknown ELSE Max(rates),
      excluding_highest |-> Pooled(DesignNames \ {DesignOrder[Highest(per_design)]})]

(* Each section reads the files anew.                                       *)
Section(files, name) ==
  LET all == UNION { files[f] : f \in TaskFiles } IN
    CASE name \in DesignNames -> DesignRow(name, files[HomeOf[name]])
      [] name = "operators" -> OperatorRows(all)
      [] name = "cells" -> Cells(all)
      [] name = "histogram" -> Histogram(all)
Sections == DesignOrder \o <<"operators", "cells", "histogram">>

AllRecorded(rows) == Total([d \in DesignNames |-> rows[d].recorded], DesignNames)
AllOf(v, rows) == Total([d \in DesignNames |-> rows[d].verdicts[v]], DesignNames)
Assembled(read) ==
  LET rows == [d \in DesignNames |-> read[d]] IN
    [designs |-> rows, operators |-> read["operators"], cells |-> read["cells"],
     histogram |-> read["histogram"], silent_bug_rate |-> SilentBugRate(rows),
     recorded |-> AllRecorded(rows), verdicts |-> [v \in Decisions |-> AllOf(v, rows)]]

(* The assertions of _design_stats: nothing was dropped.                    *)
Consistent(row, design) == row.recorded = Generates[design]

-----------------------------------------------------------------------------
NoScript == [name |-> "none", todo |-> <<>>, read |-> <<>>]
Figures == <<"fig1", "fig2", "fig3", "fig4">>
Steps(name) ==
  CASE name = "build_stats" -> Append(Sections, "write")
    [] name = "make_charts" -> <<"stats">> \o Figures
    [] name = "build_dashboard" -> <<"git", "status", "stats", "tasks", "guard", "write">>

Start(name) ==
  /\ script = NoScript /\ counts.scripts < MaxScripts
  /\ script' = [name |-> name, todo |-> Steps(name), read |-> <<>>]
  /\ disturbed' = FALSE
  /\ counts' = [counts EXCEPT !.scripts = @ + 1]
  /\ UNCHANGED <<corpora, stats, figures, page, commits, pageClean>>

At(name, step) == script.name = name /\ script.todo # <<>> /\ Head(script.todo) = step
Done(step, value) ==
  script' = [script EXCEPT
    !.todo = Tail(@),
    !.read = [s \in DOMAIN script.read \cup {step} |->
                IF s = step THEN value ELSE script.read[s]]]
(* Half a list of tasks does not parse. *)
Parses(files) == \A f \in files : Torn \notin corpora[f]

ReadSection(name) ==
  /\ At("build_stats", name)
  /\ Parses(IF name \in DesignNames THEN {HomeOf[name]} ELSE TaskFiles)
  /\ name \in DesignNames => Consistent(Section(corpora, name), name)
  /\ Done(name, Section(corpora, name))
  /\ UNCHANGED <<corpora, stats, figures, page, commits, pageClean, disturbed, counts>>

WriteStats ==
  /\ At("build_stats", "write")
  /\ stats' = Assembled(script.read)
  /\ script' = NoScript
  /\ UNCHANGED <<corpora, figures, page, commits, pageClean, disturbed, counts>>

(* make_charts.py and build_dashboard.py load the statistics.               *)
LoadStats ==
  /\ \E name \in {"make_charts", "build_dashboard"} : At(name, "stats")
  /\ stats # Torn
  /\ Done("stats", stats)
  /\ UNCHANGED <<corpora, stats, figures, page, commits, pageClean, disturbed, counts>>

-----------------------------------------------------------------------------
(* make_charts.py                                                           *)

(* What a figure shows; the second cannot be drawn without every rate.      *)
Drawn(name, from) ==
  CASE name = "fig1" -> from.designs
    [] name = "fig2" -> from.silent_bug_rate.per_design
    [] name = "fig3" -> from.operators
    [] name = "fig4" -> from.histogram
Drawable(name, from) ==
  name = "fig2" => \A d \in DesignNames : from.silent_bug_rate.per_design[d].rate # Unknown

Draw(name) ==
  /\ At("make_charts", name)
  /\ Drawable(name, script.read["stats"])
  /\ figures' = [figures EXCEPT ![name] = Drawn(name, script.read["stats"])]
  /\ script' = IF Len(script.todo) = 1 THEN NoScript ELSE [script EXCEPT !.todo = Tail(@)]
  /\ UNCHANGED <<corpora, stats, page, commits, pageClean, disturbed, counts>>

-----------------------------------------------------------------------------
(* build_dashboard.py                                                       *)

Tree == [corpora |-> corpora, stats |-> stats, figures |-> figures]
Dirty == Tree # Last(commits) \/ ~pageClean

(* HEAD, the page's stamp. *)
ReadHead ==
  /\ At("build_dashboard", "git")
  /\ Done("git", Len(commits))
  /\ UNCHANGED <<corpora, stats, figures, page, commits, pageClean, disturbed, counts>>

(* Mutant of CheckStatus: uncommitted changes are no obstacle. *)
CheckStatusAnyTree ==
  /\ At("build_dashboard", "status")
  /\ script' = [script EXCEPT !.todo = Tail(@)]
  /\ UNCHANGED <<corpora, stats, figures, page, commits, pageClean, disturbed, counts>>

(* The build fails if the tree is dirty, asked of another git process than  *)
(* the one that named HEAD.                                                 *)
CheckStatus ==
  /\ At("build_dashboard", "status")
  /\ ~Dirty
  /\ script' = [script EXCEPT !.todo = Tail(@)]
  /\ UNCHANGED <<corpora, stats, figures, page, commits, pageClean, disturbed, counts>>

LoadTasks ==
  /\ At("build_dashboard", "tasks")
  /\ Parses(TaskFiles)
  /\ Done("tasks", UNION { corpora[f] : f \in TaskFiles })
  /\ UNCHANGED <<corpora, stats, figures, page, commits, pageClean, disturbed, counts>>

(* Mutant of Guard: the numbers per design are not compared. *)
GuardTotals(tasks, from) ==
  /\ Cardinality(tasks) = from.recorded /\ VerdictsOf(tasks) = from.verdicts
  /\ \A op \in DOMAIN from.operators :
       OperatorRow({ t \in tasks : t.operator = op }) = from.operators[op]
  /\ Histogram(tasks) = from.histogram

(* _validate_against_corpus_stats: true if the build goes on.  Operators    *)
(* that only the tasks have are not looked for, nor are the cells; without  *)
(* real bugs or the operator named here it raises.                          *)
Guard(tasks, from) ==
  /\ \A t \in tasks : t.k # Unknown => t.k = from.designs[t.design].formal_k
  /\ \A d \in DOMAIN from.designs :
       VerdictsOf({ t \in tasks : t.design = d }) = from.designs[d].verdicts
  /\ \A op \in DOMAIN from.operators :
       LET row == OperatorRow({ t \in tasks : t.operator = op }) IN
         /\ row.verdicts = from.operators[op].verdicts
         /\ row.candidates = from.operators[op].candidates
  /\ Cardinality(tasks) = from.recorded
  /\ LET verdicts == VerdictsOf(tasks) IN
       /\ verdicts = from.verdicts
       /\ RealBugs(verdicts) > 0
       /\ Rate(verdicts["SILENT"], RealBugs(verdicts)) = from.silent_bug_rate.rate
       /\ Rate(verdicts["QUARANTINE"], Cardinality(tasks))
            = Rate(from.verdicts["QUARANTINE"], from.recorded)
  /\ LET per_design == from.silent_bug_rate.per_design IN
       \A d \in DOMAIN per_design :
         LET verdicts == VerdictsOf({ t \in tasks : t.design = d }) IN
           verdicts["KEEP"] = per_design[d].keep /\ verdicts["SILENT"] = per_design[d].silent
  /\ LET name == "blocking_nonblocking_swap" IN
       /\ name \in DOMAIN from.operators
       /\ OperatorRow({ t \in tasks : t.operator = name }).equivalent_rate
            = from.operators[name].equivalent_rate
  /\ Histogram(tasks) = from.histogram

(* After the tasks have been simulated, which takes a minute.               *)
Validate ==
  /\ At("build_dashboard", "guard")
  /\ Guard(script.read["tasks"], script.read["stats"])
  /\ script' = [script EXCEPT !.todo = Tail(@)]
  /\ UNCHANGED <<corpora, stats, figures, page, commits, pageClean, disturbed, counts>>

(* The figures are put in as they are.                                      *)
WritePage ==
  /\ At("build_dashboard", "write")
  /\ page' = [commit |-> script.read["git"], stats |-> script.read["stats"],
              tasks |-> script.read["tasks"], figures |-> figures, undisturbed |-> ~disturbed]
  /\ pageClean' = FALSE
  /\ script' = NoScript
  /\ UNCHANGED <<corpora, stats, figures, commits, disturbed, counts>>

-----------------------------------------------------------------------------
(* A script raises or is killed; if it was writing, half a file stays.      *)
ScriptStops ==
  /\ script # NoScript
  /\ script' = NoScript
  /\ UNCHANGED <<corpora, stats, figures, page, commits, pageClean, disturbed, counts>>

KilledWriting ==
  /\ \/ At("build_stats", "write") /\ stats' = Torn /\ UNCHANGED <<figures, page, pageClean>>
     \/ /\ \E name \in ToSet(Figures) :
             At("make_charts", name) /\ figures' = [figures EXCEPT ![name] = Torn]
        /\ UNCHANGED <<stats, page, pageClean>>
     \/ /\ At("build_dashboard", "write") /\ page' = Torn /\ pageClean' = FALSE
        /\ UNCHANGED <<stats, figures>>
  /\ script' = NoScript
  /\ UNCHANGED <<corpora, commits, disturbed, counts>>

(* A run of the forge ends: another corpus, or half of one.                 *)
ForgeEnds(file) ==
  /\ counts.forges < MaxForges
  /\ \E tasks \in Corpora[file] \cup {{Torn}} : corpora' = [corpora EXCEPT ![file] = tasks]
  /\ disturbed' = TRUE
  /\ counts' = [counts EXCEPT !.forges = @ + 1]
  /\ UNCHANGED <<stats, figures, page, commits, pageClean, script>>

Commit ==
  /\ Dirty /\ Len(commits) <= MaxCommits
  /\ commits' = Append(commits, Tree)
  /\ pageClean' = TRUE
  /\ disturbed' = (disturbed \/ At("build_dashboard", "status"))
  /\ UNCHANGED <<corpora, stats, figures, page, script, counts>>

(* A repository with statistics and figures of the corpus it has.           *)
PublishStart(files) ==
  /\ corpora = files
  /\ stats = Assembled([name \in ToSet(Sections) |-> Section(files, name)])
  /\ figures = [name \in ToSet(Figures) |-> Drawn(name, stats)]
  /\ page = Torn
  /\ commits = <<Tree>> /\ pageClean = TRUE
  /\ script = NoScript /\ disturbed = FALSE
  /\ counts = [forges |-> 0, scripts |-> 0]

Publishable ==
  { files \in [TaskFiles -> UNION { Corpora[f] : f \in TaskFiles }] :
      /\ \A f \in TaskFiles : files[f] \in Corpora[f]
      /\ \A d \in DesignNames : Consistent(DesignRow(d, files[HomeOf[d]]), d) }

PublishInit == \E files \in Publishable : PublishStart(files)

Published ==
  /\ script = NoScript /\ counts.scripts = MaxScripts
  /\ UNCHANGED publishVars

PublishNext ==
  \/ \E name \in {"build_stats", "make_charts", "build_dashboard"} : Start(name)
  \/ \E name \in ToSet(Sections) : ReadSection(name)
  \/ WriteStats \/ LoadStats
  \/ \E name \in ToSet(Figures) : Draw(name)
  \/ ReadHead \/ CheckStatus \/ LoadTasks \/ Validate \/ WritePage
  \/ ScriptStops \/ KilledWriting
  \/ \E file \in TaskFiles : ForgeEnds(file)
  \/ Commit \/ Published

PublishSpec == PublishInit /\ [][PublishNext]_publishVars

-----------------------------------------------------------------------------
(* PROPERTIES                                                              *)

Number(S, P(_)) == Cardinality({ x \in S : P(x) })

(***************************************************************************)
(* Whatever the forge does while the scripts run, and however old or mixed *)
(* the statistics are, the counts that a page shows per design and per     *)
(* listed operator, its headline rate and its histogram are those of the   *)
(* tasks it lists.                                                         *)
(***************************************************************************)
PageCountsAgree ==
  page # Torn =>
    /\ \A d \in DesignNames, v \in Decisions :
         page.stats.designs[d].verdicts[v]
           = Number(page.tasks, LAMBDA t : t.design = d /\ t.decision = v)
    /\ \A op \in DOMAIN page.stats.operators, v \in Decisions :
         page.stats.operators[op].verdicts[v]
           = Number(page.tasks, LAMBDA t : t.operator = op /\ t.decision = v)
    /\ LET silent == Number(page.tasks, LAMBDA t : t.decision = "SILENT")
           real == silent + Number(page.tasks, LAMBDA t : t.decision = "KEEP") IN
         2 * real * page.stats.silent_bug_rate.rate \in 2000 * silent - real .. 2000 * silent + real
    /\ LET Caught(from, to) ==
             Number(page.tasks, LAMBDA t : t.decision = "KEEP" /\ t.depth \in from .. to)
           shown == page.stats.histogram IN
         /\ shown["0-4"] = Caught(0, 4) /\ shown["5-9"] = Caught(5, 9)
         /\ shown["10-19"] = Caught(10, 19)
         /\ shown["20+"] = Number(page.tasks, LAMBDA t : t.decision = "KEEP" /\ t.depth >= 20)

(***************************************************************************)
(* A page shows exactly what the commit it is stamped with holds,          *)
(* statistics, tasks, figures, unless a run of the forge ended during its  *)
(* build or something was committed between the two questions to git, of   *)
(* which only the first names a commit.                                    *)
(***************************************************************************)
PageOfCommit ==
  (page # Torn /\ page.undisturbed) =>
    LET tree == commits[page.commit] IN
      /\ page.stats = tree.stats
      /\ page.tasks = UNION { tree.corpora[f] : f \in TaskFiles }
      /\ page.figures = tree.figures

(***************************************************************************)
(* The sensitivity figures bracket the headline: no design's rate is       *)
(* beyond the range, the pooled rate is within it, and leaving out the     *)
(* highest design never raises it.                                         *)
(***************************************************************************)
RatesOrdered ==
  (stats # Torn /\ stats.silent_bug_rate.rate # Unknown) =>
    LET sbr == stats.silent_bug_rate IN
      /\ \A d \in DesignNames :
           sbr.per_design[d].rate \in {Unknown} \cup sbr.min .. sbr.max
      /\ sbr.rate \in sbr.min .. sbr.max
      /\ sbr.excluding_highest <= sbr.rate
=============================================================================
