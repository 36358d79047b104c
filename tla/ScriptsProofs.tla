--------------------------- MODULE ScriptsProofs ---------------------------
(***************************************************************************)
(* What the published page promises, and what a report of verify.py does,  *)
(* for corpora, commits and golden files of any size; and that all of it,  *)
(* with what SmokeBatchProofs shows of the batch driver, holds of Scripts. *)
(***************************************************************************)
EXTENDS Scripts, SmokeBatchProofs, FiniteSetTheorems, TLAPS

-----------------------------------------------------------------------------
(* THE INVARIANT OF THE PUBLICATION                                        *)

ListsOf(files) == UNION { files[f] : f \in TaskFiles }
TaskSet(tasks) == IsFiniteSet(tasks) /\ \A t \in tasks : t.depth \in Nat \cup {Unknown}

CorporaInv ==
  /\ DOMAIN corpora = TaskFiles
  /\ corpora = [f \in TaskFiles |-> corpora[f]]
  /\ \A f \in TaskFiles : corpora[f] \in Corpora[f] \cup {{Torn}}
StatsInv == stats # Torn => DOMAIN stats.designs = DesignNames
CommitsInv == commits \in Seq(ToSet(commits)) /\ commits # <<>>

(* What is left to do when the dashboard script runs, and what it has read. *)
Left1 == <<"write">>
Left2 == <<"guard", "write">>
Left3 == <<"tasks", "guard", "write">>
Left4 == <<"stats", "tasks", "guard", "write">>
Left5 == <<"status", "stats", "tasks", "guard", "write">>
Left6 == <<"git", "status", "stats", "tasks", "guard", "write">>

ScriptForm(s) == s = [name |-> s.name, todo |-> s.todo, read |-> s.read]

HeadRead ==
  /\ "git" \in DOMAIN script.read
  /\ script.read["git"] \in 1 .. Len(commits)
  /\ ~disturbed => script.read["git"] = Len(commits)
GitRead ==
  /\ "git" \in DOMAIN script.read
  /\ script.read["git"] \in 1 .. Len(commits)
  /\ ~disturbed => commits[script.read["git"]] = Tree
StatsRead ==
  /\ "stats" \in DOMAIN script.read
  /\ script.read["stats"] = stats
  /\ stats # Torn
TasksRead ==
  /\ "tasks" \in DOMAIN script.read
  /\ TaskSet(script.read["tasks"])
  /\ ~disturbed => script.read["tasks"] = ListsOf(corpora)

DashboardInv ==
  script.name = "build_dashboard" =>
    /\ script.todo \in {Left1, Left2, Left3, Left4, Left5, Left6}
    /\ script.todo = Left5 => HeadRead
    /\ script.todo \notin {Left6, Left5} => GitRead
    /\ script.todo \notin {Left6, Left5, Left4} => StatsRead
    /\ script.todo \in {Left1, Left2} => TasksRead
    /\ script.todo = Left1 => Guard(script.read["tasks"], script.read["stats"])

PageInv ==
  page # Torn =>
    /\ page.stats # Torn /\ DOMAIN page.stats.designs = DesignNames
    /\ TaskSet(page.tasks)
    /\ Guard(page.tasks, page.stats)
    /\ page.undisturbed =>
         /\ page.commit \in 1 .. Len(commits)
         /\ page.stats = commits[page.commit].stats
         /\ page.tasks = ListsOf(commits[page.commit].corpora)
         /\ page.figures = commits[page.commit].figures

PublishInv ==
  /\ CorporaInv /\ StatsInv /\ CommitsInv
  /\ ScriptForm(script) /\ disturbed \in BOOLEAN
  /\ DashboardInv /\ PageInv

-----------------------------------------------------------------------------
(* LEMMAS                                                                  *)

(* The steps of the dashboard script, one after the other. *)
LEMMA Lefts ==
  /\ Head(Left6) = "git" /\ Tail(Left6) = Left5 /\ Left6 # <<>>
  /\ Head(Left5) = "status" /\ Tail(Left5) = Left4 /\ Left5 # <<>>
  /\ Head(Left4) = "stats" /\ Tail(Left4) = Left3 /\ Left4 # <<>>
  /\ Head(Left3) = "tasks" /\ Tail(Left3) = Left2 /\ Left3 # <<>>
  /\ Head(Left2) = "guard" /\ Tail(Left2) = Left1 /\ Left2 # <<>>
  /\ Head(Left1) = "write" /\ Left1 # <<>>
BY DEF Left1, Left2, Left3, Left4, Left5, Left6

LEMMA StepsOf == Steps("build_dashboard") = Left6
BY DEF Steps, Left6

(* A sequence that has grown by one. *)
LEMMA Grown ==
  ASSUME NEW s, s \in Seq(ToSet(s)), NEW e
  PROVE  /\ Append(s, e) \in Seq(ToSet(Append(s, e))) /\ Append(s, e) # <<>>
         /\ Len(Append(s, e)) = Len(s) + 1
         /\ \A i \in 1 .. Len(s) : Append(s, e)[i] = s[i]
<1> DEFINE t == Append(s, e)
<1>1. s \in Seq(ToSet(s) \cup {e}) /\ e \in ToSet(s) \cup {e}
  BY DEF ToSet
<1>2. t \in Seq(ToSet(s) \cup {e})
  BY <1>1
<1>3. /\ Len(s) \in Nat /\ Len(t) = Len(s) + 1 /\ DOMAIN t = 1 .. Len(s) + 1
      /\ \A i \in 1 .. Len(s) : t[i] = s[i]
  BY <1>1
<1> HIDE DEF t
<1>4. \A i \in 1 .. Len(t) : t[i] \in ToSet(t)
  BY <1>3 DEF ToSet
<1>5. t \in Seq(ToSet(t))
  BY <1>2, <1>4
<1>6. t # <<>>
  BY <1>3
<1> QED
  BY <1>3, <1>5, <1>6 DEF t

(* One more thing has been read. *)
LEMMA DoneRead ==
  ASSUME NEW step, NEW value, ScriptForm(script), Done(step, value)
  PROVE  /\ ScriptForm(script') /\ script'.name = script.name
         /\ script'.todo = Tail(script.todo)
         /\ step \in DOMAIN script'.read /\ script'.read[step] = value
         /\ \A s \in DOMAIN script.read : s # step =>
              s \in DOMAIN script'.read /\ script'.read[s] = script.read[s]
<1> DEFINE read == [s \in DOMAIN script.read \cup {step} |->
                      IF s = step THEN value ELSE script.read[s]]
<1>1. /\ step \in DOMAIN read /\ read[step] = value
      /\ \A s \in DOMAIN script.read : s # step => s \in DOMAIN read /\ read[s] = script.read[s]
  OBVIOUS
<1>2. script' = [script EXCEPT !.todo = Tail(@), !.read = read]
  BY DEF Done
<1> HIDE DEF read
<1>3. script' = [name |-> script.name, todo |-> Tail(script.todo), read |-> read]
  BY <1>2 DEF ScriptForm
<1> QED
  BY <1>1, <1>3 DEF ScriptForm

(* A corpus that parses is a finite set of tasks. *)
LEMMA TasksFinite ==
  ASSUME CorporaInv, Parses(TaskFiles)
  PROVE  TaskSet(ListsOf(corpora))
<1>1. \A f \in TaskFiles : corpora[f] \in Corpora[f]
  BY DEF CorporaInv, Parses
<1> DEFINE S == { corpora[f] : f \in TaskFiles }
<1>2. corpora \in Surjection(TaskFiles, S)
  BY DEF CorporaInv, Surjection
<1>3. IsFiniteSet(S)
  BY <1>2, FS_Surjection, CorporaAssumption
<1>4. \A T \in S : IsFiniteSet(T) /\ \A t \in T : t.depth \in Nat \cup {Unknown}
  BY <1>1, CorporaAssumption
<1>5. IsFiniteSet(UNION S)
  BY <1>3, <1>4, FS_UNION
<1> QED
  BY <1>4, <1>5 DEF TaskSet, ListsOf

(* What is said of the page and of what was read stays true as long as the  *)
(* files and HEAD do.                                                       *)
LEMMA PageKept ==
  ASSUME PageInv, UNCHANGED <<page, commits>>
  PROVE  PageInv'
BY DEF PageInv

LEMMA NotDashboard ==
  ASSUME script'.name # "build_dashboard"
  PROVE  DashboardInv'
BY DEF DashboardInv

-----------------------------------------------------------------------------
(* THE STEPS                                                               *)

LEMMA PublishInitInv == PublishInit => PublishInv
<1> SUFFICES ASSUME NEW files \in Publishable, PublishStart(files)
             PROVE  PublishInv
  BY DEF PublishInit
<1>1. CorporaInv
  BY DEF PublishStart, Publishable, CorporaInv
<1>2. StatsInv
  BY DEF PublishStart, StatsInv, Assembled
<1>3. CommitsInv
  <2>1. commits = <<Tree>>
    BY DEF PublishStart
  <2> QED
    BY <2>1 DEF CommitsInv, ToSet
<1>4. ScriptForm(script) /\ disturbed \in BOOLEAN /\ script.name # "build_dashboard"
  BY DEF PublishStart, NoScript, ScriptForm
<1>5. PageInv
  BY DEF PublishStart, PageInv
<1> QED
  BY <1>1, <1>2, <1>3, <1>4, <1>5 DEF PublishInv, DashboardInv

LEMMA NoScriptForm == ScriptForm(NoScript) /\ NoScript.name # "build_dashboard"
BY DEF ScriptForm, NoScript

(* Whatever leaves the files, HEAD and the dashboard script alone. *)
LEMMA AloneStep ==
  ASSUME PublishInv, UNCHANGED <<corpora, stats, page, commits>>,
         disturbed' \in BOOLEAN, ScriptForm(script'), script'.name # "build_dashboard"
  PROVE  PublishInv'
<1>1. DashboardInv'
  BY NotDashboard
<1>2. PageInv'
  BY PageKept DEF PublishInv
<1> QED
  BY <1>1, <1>2 DEF PublishInv, CorporaInv, StatsInv, CommitsInv

LEMMA StartStep ==
  ASSUME PublishInv, NEW name \in {"build_stats", "make_charts", "build_dashboard"}, Start(name)
  PROVE  PublishInv'
<1>1. /\ script' = [name |-> name, todo |-> Steps(name), read |-> <<>>]
      /\ disturbed' = FALSE
      /\ UNCHANGED <<corpora, stats, figures, page, commits>>
  BY DEF Start
<1>2. ScriptForm(script')
  BY <1>1 DEF ScriptForm
<1>3. CASE name # "build_dashboard"
  BY <1>1, <1>2, <1>3, AloneStep
<1>4. CASE name = "build_dashboard"
  <2>1. script'.todo = Left6
    BY <1>1, <1>4, StepsOf
  <2>2. DashboardInv'
    BY <2>1, Lefts DEF DashboardInv, Left1, Left2, Left5, Left6
  <2> QED
    BY <1>1, <1>2, <2>2, PageKept DEF PublishInv, CorporaInv, StatsInv, CommitsInv
<1> QED
  BY <1>3, <1>4

LEMMA WriteStatsStep == ASSUME PublishInv, WriteStats PROVE PublishInv'
<1>1. script' = NoScript /\ stats' = Assembled(script.read)
      /\ UNCHANGED <<corpora, figures, page, commits, disturbed>>
  BY DEF WriteStats
<1>2. StatsInv'
  BY <1>1 DEF StatsInv, Assembled
<1>3. ScriptForm(script') /\ script'.name # "build_dashboard"
  BY <1>1, NoScriptForm
<1> QED
  BY <1>1, <1>2, <1>3, NotDashboard, PageKept DEF PublishInv, CorporaInv, CommitsInv

(* The dashboard script looks at HEAD, the status, the statistics, the tasks. *)
LEMMA ReadHeadStep == ASSUME PublishInv, ReadHead PROVE PublishInv'
<1>1. /\ script.name = "build_dashboard" /\ Head(script.todo) = "git"
      /\ Done("git", Len(commits))
      /\ UNCHANGED <<corpora, stats, figures, page, commits, disturbed>>
  BY DEF ReadHead, At
<1>2. /\ ScriptForm(script') /\ script'.name = script.name
      /\ script'.todo = Tail(script.todo)
      /\ "git" \in DOMAIN script'.read /\ script'.read["git"] = Len(commits)
  BY <1>1, DoneRead DEF PublishInv
<1>3. script.todo = Left6 /\ script'.todo = Left5
  BY <1>1, <1>2, Lefts DEF PublishInv, DashboardInv
<1>4. Len(commits) \in 1 .. Len(commits)
  BY DEF PublishInv, CommitsInv
<1>5. HeadRead'
  BY <1>1, <1>2, <1>4 DEF HeadRead
<1>6. DashboardInv'
  BY <1>3, <1>5, Lefts DEF DashboardInv, Left1, Left2, Left3, Left4, Left5, Left6
<1> QED
  BY <1>1, <1>2, <1>6, PageKept DEF PublishInv, CorporaInv, StatsInv, CommitsInv

(* If nothing was committed in between, the clean tree is that of HEAD. *)
LEMMA CheckStatusStep == ASSUME PublishInv, CheckStatus PROVE PublishInv'
<1>1. /\ script.name = "build_dashboard" /\ Head(script.todo) = "status"
      /\ Tree = Last(commits) /\ script' = [script EXCEPT !.todo = Tail(@)]
      /\ UNCHANGED <<corpora, stats, figures, page, commits, disturbed>>
  BY DEF CheckStatus, At, Dirty
<1>2. script' = [name |-> script.name, todo |-> Tail(script.todo), read |-> script.read]
  BY <1>1 DEF PublishInv, ScriptForm
<1>3. script.todo = Left5 /\ script'.todo = Left4 /\ HeadRead
  BY <1>1, <1>2, Lefts DEF PublishInv, DashboardInv
<1>4. commits[Len(commits)] = Tree
  BY <1>1 DEF PublishInv, CommitsInv, Last
<1>5. GitRead'
  BY <1>1, <1>2, <1>3, <1>4 DEF GitRead, HeadRead, Tree
<1>6. DashboardInv'
  BY <1>3, <1>5, Lefts DEF DashboardInv, Left1, Left2, Left3, Left4, Left5, Left6
<1>7. ScriptForm(script')
  BY <1>2 DEF ScriptForm
<1> QED
  BY <1>1, <1>6, <1>7, PageKept DEF PublishInv, CorporaInv, StatsInv, CommitsInv

LEMMA LoadStatsStep == ASSUME PublishInv, LoadStats PROVE PublishInv'
<1>1. /\ \/ script.name = "make_charts"
         \/ script.name = "build_dashboard" /\ Head(script.todo) = "stats"
      /\ stats # Torn /\ Done("stats", stats)
      /\ UNCHANGED <<corpora, stats, figures, page, commits, disturbed>>
  BY DEF LoadStats, At
<1>2. /\ ScriptForm(script') /\ script'.name = script.name
      /\ script'.todo = Tail(script.todo)
      /\ "stats" \in DOMAIN script'.read /\ script'.read["stats"] = stats
      /\ \A s \in DOMAIN script.read : s # "stats" =>
           s \in DOMAIN script'.read /\ script'.read[s] = script.read[s]
  BY <1>1, DoneRead DEF PublishInv
<1>3. CASE script.name = "make_charts"
  BY <1>1, <1>2, <1>3, AloneStep DEF PublishInv
<1>4. CASE script.name = "build_dashboard" /\ Head(script.todo) = "stats"
  <2>1. script.todo = Left4 /\ script'.todo = Left3 /\ GitRead
    BY <1>2, <1>4, Lefts DEF PublishInv, DashboardInv
  <2>2. GitRead'
    BY <1>1, <1>2, <2>1 DEF GitRead, Tree
  <2>3. StatsRead'
    BY <1>1, <1>2 DEF StatsRead
  <2>4. DashboardInv'
    BY <2>1, <2>2, <2>3, Lefts DEF DashboardInv, Left1, Left2, Left3, Left4, Left5, Left6
  <2> QED
    BY <1>1, <1>2, <2>4, PageKept DEF PublishInv, CorporaInv, StatsInv, CommitsInv
<1> QED
  BY <1>1, <1>3, <1>4

LEMMA LoadTasksStep == ASSUME PublishInv, LoadTasks PROVE PublishInv'
<1>1. /\ script.name = "build_dashboard" /\ Head(script.todo) = "tasks"
      /\ Parses(TaskFiles) /\ Done("tasks", ListsOf(corpora))
      /\ UNCHANGED <<corpora, stats, figures, page, commits, disturbed>>
  BY DEF LoadTasks, At, ListsOf
<1>2. /\ ScriptForm(script') /\ script'.name = script.name
      /\ script'.todo = Tail(script.todo)
      /\ "tasks" \in DOMAIN script'.read /\ script'.read["tasks"] = ListsOf(corpora)
      /\ \A s \in DOMAIN script.read : s # "tasks" =>
           s \in DOMAIN script'.read /\ script'.read[s] = script.read[s]
  BY <1>1, DoneRead DEF PublishInv
<1>3. script.todo = Left3 /\ script'.todo = Left2
  BY <1>1, <1>2, Lefts DEF PublishInv, DashboardInv
<1>4. GitRead /\ StatsRead
  BY <1>1, <1>3, Lefts DEF PublishInv, DashboardInv
<1>5. GitRead' /\ StatsRead'
  BY <1>1, <1>2, <1>4 DEF GitRead, StatsRead, Tree
<1>6. TasksRead'
  BY <1>1, <1>2, TasksFinite DEF TasksRead, PublishInv, ListsOf
<1>7. DashboardInv'
  BY <1>3, <1>5, <1>6, Lefts DEF DashboardInv, Left1, Left2, Left3, Left4, Left5, Left6
<1> QED
  BY <1>1, <1>2, <1>7, PageKept DEF PublishInv, CorporaInv, StatsInv, CommitsInv

(* The comparison with the corpus: the build goes on only if it holds. *)
LEMMA ValidateStep == ASSUME PublishInv, Validate PROVE PublishInv'
<1>1. /\ script.name = "build_dashboard" /\ Head(script.todo) = "guard"
      /\ Guard(script.read["tasks"], script.read["stats"])
      /\ script' = [script EXCEPT !.todo = Tail(@)]
      /\ UNCHANGED <<corpora, stats, figures, page, commits, disturbed>>
  BY DEF Validate, At
<1>2. script' = [name |-> script.name, todo |-> Tail(script.todo), read |-> script.read]
  BY <1>1 DEF PublishInv, ScriptForm
<1>3. script.todo = Left2 /\ script'.todo = Left1
  BY <1>1, <1>2, Lefts DEF PublishInv, DashboardInv
<1>4. GitRead /\ StatsRead /\ TasksRead
  BY <1>1, <1>3, Lefts DEF PublishInv, DashboardInv
<1>5. GitRead' /\ StatsRead' /\ TasksRead'
  BY <1>1, <1>2, <1>4 DEF GitRead, StatsRead, TasksRead, Tree, ListsOf
<1>6. Guard(script'.read["tasks"], script'.read["stats"])
  BY <1>1, <1>2
<1>7. DashboardInv'
  BY <1>1, <1>2, <1>3, <1>5, <1>6 DEF DashboardInv, Left1, Left5
<1>8. ScriptForm(script')
  BY <1>2 DEF ScriptForm
<1> QED
  BY <1>1, <1>7, <1>8, PageKept DEF PublishInv, CorporaInv, StatsInv, CommitsInv

LEMMA WritePageStep == ASSUME PublishInv, WritePage PROVE PublishInv'
<1>1. /\ script.name = "build_dashboard" /\ Head(script.todo) = "write"
      /\ page' = [commit |-> script.read["git"], stats |-> script.read["stats"],
                  tasks |-> script.read["tasks"], figures |-> figures, undisturbed |-> ~disturbed]
      /\ script' = NoScript
      /\ UNCHANGED <<corpora, stats, figures, commits, disturbed>>
  BY DEF WritePage, At
<1>2. script.todo = Left1
  BY <1>1, Lefts DEF PublishInv, DashboardInv
<1>3. GitRead /\ StatsRead /\ TasksRead /\ Guard(script.read["tasks"], script.read["stats"])
  BY <1>1, <1>2, Lefts DEF PublishInv, DashboardInv
<1>4. page'.stats # Torn /\ DOMAIN page'.stats.designs = DesignNames /\ TaskSet(page'.tasks)
  BY <1>1, <1>3 DEF StatsRead, TasksRead, PublishInv, StatsInv
<1>5. Guard(page'.tasks, page'.stats)
  BY <1>1, <1>3
<1>6. ASSUME page'.undisturbed
      PROVE  /\ page'.commit \in 1 .. Len(commits')
             /\ page'.stats = commits'[page'.commit].stats
             /\ page'.tasks = ListsOf(commits'[page'.commit].corpora)
             /\ page'.figures = commits'[page'.commit].figures
  <2>1. ~disturbed
    BY <1>1, <1>6 DEF PublishInv
  <2>2. commits[page'.commit] = Tree /\ page'.commit \in 1 .. Len(commits)
    BY <1>1, <1>3, <2>1 DEF GitRead
  <2> QED
    BY <1>1, <1>3, <2>1, <2>2 DEF Tree, StatsRead, TasksRead
<1>7. PageInv'
  BY <1>4, <1>5, <1>6 DEF PageInv
<1>8. ScriptForm(script') /\ script'.name # "build_dashboard"
  BY <1>1, NoScriptForm
<1> QED
  BY <1>1, <1>7, <1>8, NotDashboard DEF PublishInv, CorporaInv, StatsInv, CommitsInv

LEMMA KilledWritingStep == ASSUME PublishInv, KilledWriting PROVE PublishInv'
<1>1. /\ script' = NoScript /\ UNCHANGED <<corpora, commits, disturbed>>
      /\ stats' = stats \/ stats' = Torn
      /\ page' = page \/ page' = Torn
  BY DEF KilledWriting
<1>2. StatsInv'
  BY <1>1 DEF PublishInv, StatsInv
<1>3. PageInv'
  <2>1. CASE page' = page
    BY <1>1, <2>1, PageKept DEF PublishInv
  <2>2. CASE page' = Torn
    BY <2>2 DEF PageInv
  <2> QED
    BY <1>1, <2>1, <2>2
<1>4. ScriptForm(script') /\ script'.name # "build_dashboard"
  BY <1>1, NoScriptForm
<1> QED
  BY <1>1, <1>2, <1>3, <1>4, NotDashboard DEF PublishInv, CorporaInv, CommitsInv

(* The forge may end at any time; the script that runs was disturbed. *)
LEMMA ForgeEndsStep == ASSUME PublishInv, NEW file \in TaskFiles, ForgeEnds(file) PROVE PublishInv'
<1>1. PICK tasks \in Corpora[file] \cup {{Torn}} : corpora' = [corpora EXCEPT ![file] = tasks]
  BY DEF ForgeEnds
<1>2. disturbed' = TRUE /\ UNCHANGED <<stats, figures, page, commits, script>>
  BY DEF ForgeEnds
<1>3. CorporaInv'
  BY <1>1 DEF PublishInv, CorporaInv
<1>4. (GitRead => GitRead') /\ (HeadRead => HeadRead')
  BY <1>2 DEF GitRead, HeadRead
<1>5. (StatsRead => StatsRead') /\ (TasksRead => TasksRead')
  BY <1>2 DEF StatsRead, TasksRead
<1>6. DashboardInv'
  BY <1>2, <1>4, <1>5 DEF PublishInv, DashboardInv
<1> QED
  BY <1>2, <1>3, <1>6, PageKept DEF PublishInv, StatsInv, CommitsInv

(* A commit is added to the earlier ones. *)
LEMMA CommitStep == ASSUME PublishInv, Commit PROVE PublishInv'
<1>1. /\ commits' = Append(commits, Tree)
      /\ disturbed' = (disturbed \/ At("build_dashboard", "status"))
      /\ UNCHANGED <<corpora, stats, figures, page, script>>
  BY DEF Commit
<1>2. /\ CommitsInv' /\ Len(commits) \in Nat /\ Len(commits') = Len(commits) + 1
      /\ \A i \in 1 .. Len(commits) : commits'[i] = commits[i]
  BY <1>1, Grown DEF PublishInv, CommitsInv
<1>3. \A i \in 1 .. Len(commits) : i \in 1 .. Len(commits')
  BY <1>2
<1>4. (GitRead => GitRead') /\ (disturbed => disturbed') /\ disturbed' \in BOOLEAN
  BY <1>1, <1>2, <1>3 DEF GitRead, Tree, PublishInv
<1>5. (StatsRead => StatsRead') /\ (TasksRead => TasksRead')
  BY <1>1, <1>4 DEF StatsRead, TasksRead, ListsOf
<1>6. DashboardInv'
  <2>1. CASE script.name # "build_dashboard"
    BY <1>1, <2>1 DEF DashboardInv
  <2>2. CASE script.name = "build_dashboard" /\ script.todo = Left5
    <3>1. disturbed' /\ HeadRead
      BY <1>1, <2>2, Lefts DEF At, PublishInv, DashboardInv
    <3>2. HeadRead'
      BY <1>1, <1>3, <3>1 DEF HeadRead
    <3> QED
      BY <1>1, <2>2, <3>2, Lefts
         DEF DashboardInv, Left1, Left2, Left3, Left4, Left5, Left6
  <2>3. CASE script.name = "build_dashboard" /\ script.todo # Left5
    BY <1>1, <1>4, <1>5, <2>3 DEF PublishInv, DashboardInv
  <2> QED
    BY <2>1, <2>2, <2>3
<1>7. PageInv'
  <2> SUFFICES ASSUME page # Torn, page.undisturbed
               PROVE  /\ page.commit \in 1 .. Len(commits')
                      /\ commits'[page.commit] = commits[page.commit]
    BY <1>1 DEF PublishInv, PageInv
  <2> QED
    BY <1>2, <1>3 DEF PublishInv, PageInv
<1> QED
  BY <1>1, <1>2, <1>4, <1>6, <1>7 DEF PublishInv, CorporaInv, StatsInv

LEMMA PublishStep == PublishInv /\ [PublishNext]_publishVars => PublishInv'
<1> SUFFICES ASSUME PublishInv, [PublishNext]_publishVars PROVE PublishInv'
  OBVIOUS
<1>1. ASSUME NEW name \in {"build_stats", "make_charts", "build_dashboard"}, Start(name)
      PROVE  PublishInv'
  BY <1>1, StartStep
<1>2. ASSUME NEW name \in ToSet(Sections), ReadSection(name)
      PROVE  PublishInv'
  <2>1. /\ script.name = "build_stats" /\ Done(name, Section(corpora, name))
        /\ UNCHANGED <<corpora, stats, page, commits, disturbed>>
    BY <1>2 DEF ReadSection, At
  <2>2. ScriptForm(script') /\ script'.name = script.name
    BY <2>1, DoneRead DEF PublishInv
  <2> QED
    BY <2>1, <2>2, AloneStep DEF PublishInv
<1>3. CASE WriteStats
  BY <1>3, WriteStatsStep
<1>4. CASE LoadStats
  BY <1>4, LoadStatsStep
<1>5. ASSUME NEW name \in ToSet(Figures), Draw(name)
      PROVE  PublishInv'
  <2>1. /\ script.name = "make_charts"
        /\ script' = NoScript \/ script' = [script EXCEPT !.todo = Tail(@)]
        /\ UNCHANGED <<corpora, stats, page, commits, disturbed>>
    BY <1>5 DEF Draw, At
  <2>2. ScriptForm(script') /\ script'.name # "build_dashboard"
    BY <2>1, NoScriptForm DEF PublishInv, ScriptForm
  <2> QED
    BY <2>1, <2>2, AloneStep DEF PublishInv
<1>6. CASE ReadHead \/ CheckStatus
  BY <1>6, ReadHeadStep, CheckStatusStep
<1>7. CASE LoadTasks
  BY <1>7, LoadTasksStep
<1>8. CASE Validate
  BY <1>8, ValidateStep
<1>9. CASE WritePage
  BY <1>9, WritePageStep
<1>10. CASE ScriptStops
  BY <1>10, NoScriptForm, AloneStep DEF ScriptStops, PublishInv
<1>11. CASE KilledWriting
  BY <1>11, KilledWritingStep
<1>12. ASSUME NEW file \in TaskFiles, ForgeEnds(file)
       PROVE  PublishInv'
  BY <1>12, ForgeEndsStep
<1>13. CASE Commit
  BY <1>13, CommitStep
<1>14. CASE Published \/ UNCHANGED publishVars
  <2>1. UNCHANGED <<corpora, stats, figures, page, commits, script, disturbed>>
    BY <1>14 DEF Published, publishVars
  <2>2. DashboardInv'
    BY <2>1 DEF PublishInv, DashboardInv, HeadRead, GitRead, StatsRead, TasksRead, Tree, ListsOf
  <2> QED
    BY <2>1, <2>2, PageKept DEF PublishInv, CorporaInv, StatsInv, CommitsInv
<1> QED
  BY <1>1, <1>2, <1>3, <1>4, <1>5, <1>6, <1>7, <1>8, <1>9, <1>10, <1>11, <1>12, <1>13, <1>14
     DEF PublishNext

-----------------------------------------------------------------------------
(* THE PAGE                                                                *)

LEMMA PublishCorrect == PublishSpec => []PublishInv
<1> QED
  BY PublishInitInv, PublishStep, PTL DEF PublishSpec

LEMMA PageShown == PublishInv => PageOfCommit
BY DEF PublishInv, PageInv, PageOfCommit, ListsOf

(* If no run of the forge ended during its build, and nothing was committed *)
(* between its two questions to git, a page shows exactly what the commit   *)
(* it is stamped with holds, whatever was built, drawn, killed or committed *)
(* before and since.                                                        *)
THEOREM PageOfCommitCorrect == PublishSpec => []PageOfCommit
<1> QED
  BY PageShown, PublishCorrect, PTL

(* Division. *)
LEMMA Divides ==
  ASSUME NEW a \in Nat, NEW b \in Nat, b > 0
  PROVE  a = b * (a \div b) + (a % b) /\ a \div b \in Nat /\ a % b \in 0 .. b - 1
OBVIOUS

(* What is rounded is off by half a unit at most. *)
LEMMA RoundedNear ==
  ASSUME NEW a \in Nat, NEW b \in Nat, b > 0
  PROVE  Rounded(a, b) \in Nat /\ 2 * b * Rounded(a, b) \in 2 * a - b .. 2 * a + b
<1> DEFINE q == a \div b
           r == a % b
<1>1. a = b * q + r /\ q \in Nat /\ r \in 0 .. b - 1
  BY Divides
<1>2. \/ Rounded(a, b) = q /\ 2 * r <= b
      \/ Rounded(a, b) = q + 1 /\ 2 * r >= b
  BY <1>1 DEF Rounded
<1> HIDE DEF q, r
<1>3. CASE Rounded(a, b) = q /\ 2 * r <= b
  <2>1. 2 * b * q = 2 * (b * q) /\ b * q \in Nat
    BY <1>1
  <2> QED
    BY <1>1, <1>3, <2>1
<1>4. CASE Rounded(a, b) = q + 1 /\ 2 * r >= b
  <2>1. 2 * b * (q + 1) = 2 * (b * q) + 2 * b /\ b * q \in Nat
    BY <1>1
  <2> QED
    BY <1>1, <1>4, <2>1
<1> QED
  BY <1>2, <1>3, <1>4

(* The counts of a set of tasks. *)
LEMMA Counted ==
  ASSUME NEW tasks, TaskSet(tasks), NEW v \in Decisions
  PROVE  /\ VerdictsOf(tasks)[v] = Cardinality({ t \in tasks : t.decision = v })
         /\ VerdictsOf(tasks)[v] \in Nat
<1>1. VerdictsOf(tasks)[v] = Cardinality({ t \in tasks : t.decision = v })
  BY DEF VerdictsOf
<1>2. IsFiniteSet({ t \in tasks : t.decision = v })
  BY FS_Subset DEF TaskSet
<1> QED
  BY <1>1, <1>2, FS_CardinalityType

(* The comparison of the build is enough for all the page shows. *)
LEMMA PageCounts == PublishInv => PageCountsAgree
<1>1. ASSUME PublishInv, page # Torn
      PROVE  PageCountsAgree
  <2> DEFINE tasks == page.tasks
             from == page.stats
             silent == Cardinality({ t \in tasks : t.decision = "SILENT" })
             real == silent + Cardinality({ t \in tasks : t.decision = "KEEP" })
             rate == from.silent_bug_rate.rate
  <2>1. TaskSet(tasks) /\ DOMAIN from.designs = DesignNames /\ Guard(tasks, from)
    BY <1>1 DEF PublishInv, PageInv
  <2>2. ASSUME NEW d \in DesignNames, NEW v \in Decisions
        PROVE  from.designs[d].verdicts[v]
                 = Cardinality({ t \in tasks : t.design = d /\ t.decision = v })
    <3>1. VerdictsOf({ t \in tasks : t.design = d }) = from.designs[d].verdicts
      BY <2>1 DEF Guard
    <3>2. { t \in { u \in tasks : u.design = d } : t.decision = v }
            = { t \in tasks : t.design = d /\ t.decision = v }
      OBVIOUS
    <3> QED
      BY <3>1, <3>2 DEF VerdictsOf
  <2>3. ASSUME NEW op \in DOMAIN from.operators, NEW v \in Decisions
        PROVE  from.operators[op].verdicts[v]
                 = Cardinality({ t \in tasks : t.operator = op /\ t.decision = v })
    <3>1. OperatorRow({ t \in tasks : t.operator = op }).verdicts = from.operators[op].verdicts
      BY <2>1 DEF Guard
    <3>2. OperatorRow({ t \in tasks : t.operator = op }).verdicts
            = VerdictsOf({ t \in tasks : t.operator = op })
      BY DEF OperatorRow
    <3>3. { t \in { u \in tasks : u.operator = op } : t.decision = v }
            = { t \in tasks : t.operator = op /\ t.decision = v }
      OBVIOUS
    <3> QED
      BY <3>1, <3>2, <3>3 DEF VerdictsOf
  <2>4. 2 * real * rate \in 2000 * silent - real .. 2000 * silent + real
    <3>1. /\ VerdictsOf(tasks)["SILENT"] = silent /\ silent \in Nat
          /\ RealBugs(VerdictsOf(tasks)) = real /\ real \in Nat
      <4>1. "SILENT" \in Decisions /\ "KEEP" \in Decisions
        BY DEF Decisions
      <4>2. /\ VerdictsOf(tasks)["SILENT"] = silent /\ silent \in Nat
            /\ VerdictsOf(tasks)["KEEP"] = Cardinality({ t \in tasks : t.decision = "KEEP" })
            /\ VerdictsOf(tasks)["KEEP"] \in Nat
        BY <2>1, <4>1, Counted
      <4> QED
        BY <4>2 DEF RealBugs
    <3>2. real > 0 /\ rate = Rate(silent, real)
      BY <2>1, <3>1 DEF Guard
    <3> HIDE DEF silent, real
    <3>3. rate = Rounded(1000 * silent, real) /\ 1000 * silent \in Nat
      BY <3>1, <3>2 DEF Rate
    <3>4. 2 * real * rate \in 2 * (1000 * silent) - real .. 2 * (1000 * silent) + real
      BY <3>1, <3>2, <3>3, RoundedNear
    <3> QED
      BY <3>1, <3>4
  <2>5. /\ from.histogram["0-4"]
             = Cardinality({ t \in tasks : t.decision = "KEEP" /\ t.depth \in 0 .. 4 })
        /\ from.histogram["5-9"]
             = Cardinality({ t \in tasks : t.decision = "KEEP" /\ t.depth \in 5 .. 9 })
        /\ from.histogram["10-19"]
             = Cardinality({ t \in tasks : t.decision = "KEEP" /\ t.depth \in 10 .. 19 })
        /\ from.histogram["20+"]
             = Cardinality({ t \in tasks : t.decision = "KEEP" /\ t.depth >= 20 })
    <3>1. from.histogram = Histogram(tasks)
      BY <2>1 DEF Guard
    <3>2. ASSUME NEW t \in tasks
          PROVE  /\ t.depth # Unknown /\ Bucket(t.depth) = "0-4" <=> t.depth \in 0 .. 4
                 /\ t.depth # Unknown /\ Bucket(t.depth) = "5-9" <=> t.depth \in 5 .. 9
                 /\ t.depth # Unknown /\ Bucket(t.depth) = "10-19" <=> t.depth \in 10 .. 19
                 /\ t.depth # Unknown /\ Bucket(t.depth) = "20+" <=> t.depth >= 20
      <4>1. t.depth \in Nat \cup {Unknown}
        BY <2>1 DEF TaskSet
      <4>2. ASSUME NEW depth \in Nat
            PROVE  /\ Bucket(depth) = "0-4" <=> depth \in 0 .. 4
                   /\ Bucket(depth) = "5-9" <=> depth \in 5 .. 9
                   /\ Bucket(depth) = "10-19" <=> depth \in 10 .. 19
                   /\ Bucket(depth) = "20+" <=> depth >= 20
        BY DEF Bucket
      <4> QED
        BY <4>1, <4>2 DEF Unknown
    <3>3. from.histogram["0-4"]
             = Cardinality({ t \in tasks : t.decision = "KEEP" /\ t.depth \in 0 .. 4 })
      <4>1. { t \in tasks : t.decision = "KEEP" /\ t.depth # Unknown /\ Bucket(t.depth) = "0-4" }
              = { t \in tasks : t.decision = "KEEP" /\ t.depth \in 0 .. 4 }
        BY <3>2
      <4> QED
        BY <3>1, <4>1 DEF Histogram
    <3>4. from.histogram["5-9"]
             = Cardinality({ t \in tasks : t.decision = "KEEP" /\ t.depth \in 5 .. 9 })
      <4>1. { t \in tasks : t.decision = "KEEP" /\ t.depth # Unknown /\ Bucket(t.depth) = "5-9" }
              = { t \in tasks : t.decision = "KEEP" /\ t.depth \in 5 .. 9 }
        BY <3>2
      <4> QED
        BY <3>1, <4>1 DEF Histogram
    <3>5. from.histogram["10-19"]
             = Cardinality({ t \in tasks : t.decision = "KEEP" /\ t.depth \in 10 .. 19 })
      <4>1. { t \in tasks : t.decision = "KEEP" /\ t.depth # Unknown /\ Bucket(t.depth) = "10-19" }
              = { t \in tasks : t.decision = "KEEP" /\ t.depth \in 10 .. 19 }
        BY <3>2
      <4> QED
        BY <3>1, <4>1 DEF Histogram
    <3>6. from.histogram["20+"]
             = Cardinality({ t \in tasks : t.decision = "KEEP" /\ t.depth >= 20 })
      <4>1. { t \in tasks : t.decision = "KEEP" /\ t.depth # Unknown /\ Bucket(t.depth) = "20+" }
              = { t \in tasks : t.decision = "KEEP" /\ t.depth >= 20 }
        BY <3>2
      <4> QED
        BY <3>1, <4>1 DEF Histogram
    <3> QED
      BY <3>3, <3>4, <3>5, <3>6
  <2> QED
    BY <2>2, <2>3, <2>4, <2>5 DEF PageCountsAgree, Number
<1> QED
  BY <1>1 DEF PageCountsAgree

(* The counts of a page, its headline rate and its histogram are those of   *)
(* the tasks it lists, for corpora of any size, however old or mixed the    *)
(* statistics are.                                                          *)
THEOREM PageCountsCorrect == PublishSpec => []PageCountsAgree
<1> QED
  BY PageCounts, PublishCorrect, PTL

-----------------------------------------------------------------------------
(* TOTALS                                                                  *)

(* Of sets of subsets of a finite set, one has no other below it. *)
LEMMA MinimalSet ==
  ASSUME NEW S, IsFiniteSet(S), NEW Sets \in SUBSET SUBSET S, Sets # {}
  PROVE  \E T \in Sets : \A U \in Sets : U \subseteq T => U = T
<1>1. Sets \subseteq FiniteSubsetsOf(S)
  BY FS_Subset DEF FiniteSubsetsOf
<1>2. PICK T \in Sets : \A U \in Sets : ~(<<U, T>> \in StrictSubsetOrdering(S))
  BY <1>1, FS_StrictSubsetOrderingWellFounded, WFMin
<1>3. \A U \in Sets : U \subseteq T => U = T
  <2> SUFFICES ASSUME NEW U \in Sets, U \subseteq T, U # T PROVE FALSE
    OBVIOUS
  <2>1. <<U, T>> \in (SUBSET S) \X (SUBSET S)
    OBVIOUS
  <2> QED
    BY <1>2, <2>1 DEF StrictSubsetOrdering
<1> QED
  BY <1>3

(* The functions on the subsets of S that add up what count has.  *)
Adds(f, count, S) ==
  f = [s \in SUBSET S |->
         IF s = {} THEN 0
         ELSE count[CHOOSE x \in s : TRUE] + f[s \ {CHOOSE x \in s : TRUE}]]

LEMMA TotalIs ==
  ASSUME NEW count, NEW S
  PROVE  Total(count, S) = (CHOOSE f : Adds(f, count, S))[S]
BY DEF Total, MapThenSumSet, MapThenFoldSet, Adds

(* What is added up for a subset does not depend on the sets around it. *)
LEMMA AddsUnique ==
  ASSUME NEW count, NEW S, NEW T, NEW f, NEW g, Adds(f, count, S), Adds(g, count, T),
         NEW s \in SUBSET (S \cap T), IsFiniteSet(s)
  PROVE  f[s] = g[s]
<1> DEFINE Bad == { U \in SUBSET s : f[U] # g[U] }
<1> SUFFICES ASSUME Bad # {} PROVE FALSE
  OBVIOUS
<1>1. PICK U \in Bad : \A V \in Bad : V \subseteq U => V = U
  <2>1. Bad \in SUBSET SUBSET s
    OBVIOUS
  <2> HIDE DEF Bad
  <2> QED
    BY <2>1, MinimalSet
<1>2. U \in SUBSET S /\ U \in SUBSET T /\ U \in SUBSET s /\ f[U] # g[U]
  BY <1>1
<1> DEFINE x == CHOOSE x \in U : TRUE
<1>3. /\ f[U] = IF U = {} THEN 0 ELSE count[x] + f[U \ {x}]
      /\ g[U] = IF U = {} THEN 0 ELSE count[x] + g[U \ {x}]
  BY <1>2 DEF Adds
<1>4. U # {}
  BY <1>2, <1>3
<1>5. x \in U
  BY <1>4
<1> HIDE DEF x
<1>6. f[U \ {x}] = g[U \ {x}]
  BY <1>1, <1>2, <1>5
<1> QED
  BY <1>2, <1>3, <1>6

(* There is a function that adds up. *)
LEMMA AddsExists ==
  ASSUME NEW S, IsFiniteSet(S), NEW count \in [S -> Nat]
  PROVE  \E f : f \in [SUBSET S -> Nat] /\ Adds(f, count, S)
<1> DEFINE Good(T) == \E f : f \in [SUBSET T -> Nat] /\ Adds(f, count, T)
           Bad == { T \in SUBSET S : ~Good(T) }
<1> SUFFICES ASSUME Bad # {} PROVE FALSE
  OBVIOUS
<1>1. PICK T \in Bad : \A U \in Bad : U \subseteq T => U = T
  <2>1. Bad \in SUBSET SUBSET S
    OBVIOUS
  <2> HIDE DEF Bad
  <2> QED
    BY <2>1, MinimalSet
<1>2. T \in SUBSET S /\ ~Good(T) /\ \A s \in SUBSET T : IsFiniteSet(s)
  BY <1>1, FS_Subset
<1>3. ASSUME NEW s \in SUBSET T, s # T PROVE Good(s)
  BY <1>1, <1>3
<1> DEFINE F(s) == CHOOSE f : f \in [SUBSET s -> Nat] /\ Adds(f, count, s)
<1>4. ASSUME NEW s \in SUBSET T, s # T
      PROVE  F(s) \in [SUBSET s -> Nat] /\ Adds(F(s), count, s)
  BY <1>3, <1>4
<1> DEFINE x == CHOOSE z \in T : TRUE
           f == [s \in SUBSET T |->
                   IF s # T THEN F(s)[s]
                   ELSE IF T = {} THEN 0 ELSE count[x] + F(T \ {x})[T \ {x}]]
<1>5. ASSUME T # {} PROVE x \in T /\ count[x] \in Nat /\ T \ {x} \in SUBSET T /\ T \ {x} # T
  BY <1>2, <1>5
<1> HIDE DEF F, x, Good, Bad
<1>6. f \in [SUBSET T -> Nat]
  <2>1. ASSUME NEW s \in SUBSET T, s # T PROVE F(s)[s] \in Nat
    BY <1>4, <2>1
  <2> QED
    BY <1>5, <2>1
<1>7. ASSUME NEW s \in SUBSET T, s # {}, NEW y, y = CHOOSE z \in s : TRUE
      PROVE  f[s] = count[y] + f[s \ {y}]
  <2>1. y \in s /\ s \ {y} \in SUBSET T /\ s \ {y} # T /\ f[s \ {y}] = F(s \ {y})[s \ {y}]
    BY <1>7
  <2>2. CASE s = T
    BY <1>7, <2>1, <2>2 DEF x
  <2>3. CASE s # T
    <3>1. Adds(F(s), count, s)
      BY <1>4, <2>3
    <3>2. F(s)[s] = count[y] + F(s)[s \ {y}]
      BY <1>7, <3>1 DEF Adds
    <3>3. Adds(F(s \ {y}), count, s \ {y})
      BY <1>4, <2>1
    <3>4. s \ {y} \in SUBSET (s \cap (s \ {y})) /\ IsFiniteSet(s \ {y})
      BY <1>2, <2>1
    <3>5. F(s)[s \ {y}] = F(s \ {y})[s \ {y}]
      BY <3>1, <3>3, <3>4, AddsUnique
    <3> QED
      BY <2>1, <2>3, <3>2, <3>5
  <2> QED
    BY <2>2, <2>3
<1> HIDE DEF f
<1>8. ASSUME NEW s \in SUBSET T
      PROVE  f[s] = IF s = {} THEN 0
                    ELSE count[CHOOSE z \in s : TRUE] + f[s \ {CHOOSE z \in s : TRUE}]
  <2>1. CASE s # {}
    <3> DEFINE y == CHOOSE z \in s : TRUE
    <3>1. y = CHOOSE z \in s : TRUE
      OBVIOUS
    <3> HIDE DEF y
    <3>2. f[s] = count[y] + f[s \ {y}]
      BY <1>7, <2>1, <3>1
    <3> QED
      BY <2>1, <3>1, <3>2
  <2>2. CASE s = {} /\ T = {}
    BY <2>2 DEF f
  <2>3. CASE s = {} /\ T # {}
    <3>1. Adds(F({}), count, {})
      BY <1>4, <2>3
    <3>2. F({})[{}] = 0
      BY <3>1 DEF Adds
    <3> QED
      BY <2>3, <3>2 DEF f
  <2> QED
    BY <2>1, <2>2, <2>3
<1>9. Adds(f, count, T)
  <2>1. f = [s \in SUBSET T |-> f[s]]
    BY DEF f
  <2> QED
    BY <1>8, <2>1 DEF Adds
<1> QED
  BY <1>2, <1>6, <1>9 DEF Good

GivesTotals(f, count, S) ==
  /\ f \in [SUBSET S -> Nat] /\ Adds(f, count, S)
  /\ \A s \in SUBSET S : Total(count, s) = f[s]

(* So a total is a natural number, nothing for nothing, and whatever member *)
(* is taken first.                                                          *)
LEMMA TotalAdds ==
  ASSUME NEW S, IsFiniteSet(S), NEW count \in [S -> Nat]
  PROVE  \E f : GivesTotals(f, count, S)
<1>1. PICK f : f \in [SUBSET S -> Nat] /\ Adds(f, count, S)
  BY AddsExists
<1>2. ASSUME NEW s \in SUBSET S PROVE Total(count, s) = f[s]
  <2>1. IsFiniteSet(s)
    BY FS_Subset
  <2> DEFINE r == [x \in s |-> count[x]]
  <2>2. PICK g : Adds(g, r, s)
    BY <2>1, AddsExists
  <2>3. Adds(g, count, s)
    <3>1. \A u \in SUBSET s : u # {} => (CHOOSE x \in u : TRUE) \in s
      OBVIOUS
    <3>2. \A u \in SUBSET s : u # {} => r[CHOOSE x \in u : TRUE] = count[CHOOSE x \in u : TRUE]
      BY <3>1
    <3>3. DOMAIN g = SUBSET s /\ g = [u \in SUBSET s |-> g[u]]
      BY <2>2 DEF Adds
    <3>4. \A u \in SUBSET s :
            g[u] = IF u = {} THEN 0
                   ELSE count[CHOOSE x \in u : TRUE] + g[u \ {CHOOSE x \in u : TRUE}]
      BY <2>2, <3>2 DEF Adds
    <3> HIDE DEF r
    <3> QED
      BY <3>3, <3>4 DEF Adds
  <2>4. Adds(CHOOSE h : Adds(h, count, s), count, s)
    BY <2>3
  <2>5. s \in SUBSET (s \cap S)
    OBVIOUS
  <2> QED
    BY <1>1, <2>1, <2>4, <2>5, AddsUnique, TotalIs
<1>3. \A s \in SUBSET S : Total(count, s) = f[s]
  BY <1>2
<1> QED
  BY <1>1, <1>3 DEF GivesTotals

TakesFirst(count, s) == \E x \in s : Total(count, s) = count[x] + Total(count, s \ {x})

LEMMA TotalFirst ==
  ASSUME NEW S, IsFiniteSet(S), NEW count \in [S -> Nat]
  PROVE  /\ \A s \in SUBSET S : Total(count, s) \in Nat
         /\ Total(count, {}) = 0
         /\ \A s \in SUBSET S : s # {} => TakesFirst(count, s)
<1>1. PICK f : /\ f \in [SUBSET S -> Nat] /\ Adds(f, count, S)
               /\ \A s \in SUBSET S : Total(count, s) = f[s]
  <2>1. PICK f : GivesTotals(f, count, S)
    BY TotalAdds
  <2> QED
    BY <2>1 DEF GivesTotals
<1>2. Total(count, {}) = 0
  BY <1>1 DEF Adds
<1>3. ASSUME NEW s \in SUBSET S, s # {}
      PROVE  \E x \in s : Total(count, s) = count[x] + Total(count, s \ {x})
  <2> DEFINE x == CHOOSE x \in s : TRUE
  <2>1. x \in s
    BY <1>3
  <2>2. f[s] = count[x] + f[s \ {x}]
    BY <1>1, <1>3 DEF Adds
  <2> HIDE DEF x
  <2>3. s \ {x} \in SUBSET S
    OBVIOUS
  <2> QED
    BY <1>1, <2>1, <2>2, <2>3
<1> QED
  BY <1>1, <1>2, <1>3 DEF TakesFirst

LEMMA TotalAny ==
  ASSUME NEW S, IsFiniteSet(S), NEW count \in [S -> Nat], NEW s \in SUBSET S, NEW x \in s
  PROVE  Total(count, s) = count[x] + Total(count, s \ {x})
<1> DEFINE Bad == { T \in SUBSET S : \E y \in T : Total(count, T) # count[y] + Total(count, T \ {y}) }
<1> SUFFICES ASSUME Bad # {} PROVE FALSE
  OBVIOUS
<1>1. PICK T \in Bad : \A U \in Bad : U \subseteq T => U = T
  <2>1. Bad \in SUBSET SUBSET S
    OBVIOUS
  <2> HIDE DEF Bad
  <2> QED
    BY <2>1, MinimalSet
<1>2. PICK y \in T : Total(count, T) # count[y] + Total(count, T \ {y})
  BY <1>1
<1>3. T \in SUBSET S
  BY <1>1
<1>4. PICK z \in T : Total(count, T) = count[z] + Total(count, T \ {z})
  <2>1. T # {}
    BY <1>2
  <2>2. TakesFirst(count, T)
    BY <1>3, <2>1, TotalFirst
  <2> QED
    BY <2>2 DEF TakesFirst
<1>5. y # z
  BY <1>2, <1>4
<1>6. ASSUME NEW U \in SUBSET T, U # T, NEW u \in U
      PROVE  Total(count, U) = count[u] + Total(count, U \ {u})
  BY <1>1, <1>6
<1> HIDE DEF Bad
<1>7. /\ Total(count, T \ {z}) = count[y] + Total(count, (T \ {z}) \ {y})
      /\ Total(count, T \ {y}) = count[z] + Total(count, (T \ {y}) \ {z})
  <2>1. y \in T \ {z} /\ T \ {z} \in SUBSET T /\ T \ {z} # T
    BY <1>5
  <2>2. z \in T \ {y} /\ T \ {y} \in SUBSET T /\ T \ {y} # T
    BY <1>5
  <2> QED
    BY <1>6, <2>1, <2>2
<1>8. (T \ {z}) \ {y} = (T \ {y}) \ {z}
  OBVIOUS
<1>9. /\ count[y] \in Nat /\ count[z] \in Nat /\ Total(count, (T \ {y}) \ {z}) \in Nat
  <2>1. (T \ {y}) \ {z} \in SUBSET S
    BY <1>3
  <2> QED
    BY <1>3, <2>1, TotalFirst DEF TakesFirst
<1> DEFINE rest == Total(count, (T \ {y}) \ {z})
<1>10. /\ Total(count, T) = count[z] + (count[y] + rest)
       /\ count[y] + Total(count, T \ {y}) = count[y] + (count[z] + rest)
  BY <1>4, <1>7, <1>8
<1> HIDE DEF rest
<1>11. count[z] + (count[y] + rest) = count[y] + (count[z] + rest)
  BY <1>9 DEF rest
<1> QED
  BY <1>2, <1>10, <1>11

(* Pairs of totals are in every set of pairs that those of the members are  *)
(* in and that is closed under addition.                                    *)
LEMMA TotalsIn ==
  ASSUME NEW S, IsFiniteSet(S), NEW v \in [S -> Nat], NEW w \in [S -> Nat],
         NEW C \in SUBSET (Nat \X Nat), <<0, 0>> \in C,
         \A a, b, c, d \in Nat : <<a, b>> \in C /\ <<c, d>> \in C => <<a + c, b + d>> \in C,
         NEW T \in SUBSET S, \A x \in T : <<v[x], w[x]>> \in C
  PROVE  <<Total(v, T), Total(w, T)>> \in C
<1> DEFINE Bad == { U \in SUBSET S : U \subseteq T /\ <<Total(v, U), Total(w, U)>> \notin C }
<1> SUFFICES ASSUME Bad # {} PROVE FALSE
  OBVIOUS
<1>1. PICK U \in Bad : \A V \in Bad : V \subseteq U => V = U
  <2>1. Bad \in SUBSET SUBSET S
    OBVIOUS
  <2> HIDE DEF Bad
  <2> QED
    BY <2>1, MinimalSet
<1>2. U \in SUBSET S /\ U \subseteq T /\ <<Total(v, U), Total(w, U)>> \notin C
  BY <1>1
<1>3. U # {}
  BY <1>2, TotalFirst
<1>4. PICK x \in U : TRUE
  BY <1>3
<1>5. IsFiniteSet(U) /\ U \ {x} \in SUBSET S /\ U \ {x} # U
  BY <1>2, FS_Subset
<1>6. ASSUME NEW count \in [S -> Nat]
      PROVE  /\ Total(count, U) = count[x] + Total(count, U \ {x})
             /\ count[x] \in Nat /\ Total(count, U \ {x}) \in Nat
  BY <1>2, <1>4, <1>5, TotalFirst, TotalAny
<1>7. <<Total(v, U \ {x}), Total(w, U \ {x})>> \in C
  BY <1>1, <1>2, <1>5
<1>8. <<v[x], w[x]>> \in C
  BY <1>2
<1> QED
  BY <1>2, <1>6, <1>7, <1>8

-----------------------------------------------------------------------------
(* RATES                                                                   *)

(* A finite set of numbers has a least and a greatest.  *)
LEMMA Extremes ==
  ASSUME NEW S, IsFiniteSet(S), S \subseteq Int, S # {}
  PROVE  /\ Min(S) \in S /\ \A x \in S : Min(S) <= x
         /\ Max(S) \in S /\ \A x \in S : Max(S) >= x
<1> DEFINE Lower(y) == { x \in S : x < y }
           Upper(y) == { x \in S : x > y }
           Lowers == { Lower(y) : y \in S }
           Uppers == { Upper(y) : y \in S }
<1>1. IsFiniteSet(S)
  OBVIOUS
<1>2. ASSUME NEW x \in S, NEW y \in S, x < y
      PROVE  Lower(x) \subseteq Lower(y) /\ Lower(x) # Lower(y)
  <2>1. \A z \in S : z < x => z < y
    BY <1>2
  <2>2. x \in Lower(y) /\ x \notin Lower(x)
    BY <1>2
  <2> QED
    BY <2>1, <2>2
<1>3. ASSUME NEW x \in S, NEW y \in S, x > y
      PROVE  Upper(x) \subseteq Upper(y) /\ Upper(x) # Upper(y)
  <2>1. \A z \in S : z > x => z > y
    BY <1>3
  <2>2. x \in Upper(y) /\ x \notin Upper(x)
    BY <1>3
  <2> QED
    BY <2>1, <2>2
<1> HIDE DEF Lower, Upper
<1>4. \E y \in S : \A x \in S : y <= x
  <2>1. PICK T \in Lowers : \A U \in Lowers : U \subseteq T => U = T
    <3>1. Lowers \in SUBSET SUBSET S
      BY DEF Lower
    <3>2. Lowers # {}
      OBVIOUS
    <3> HIDE DEF Lowers
    <3> QED
      BY ONLY <1>1, <3>1, <3>2, MinimalSet
  <2>2. PICK y \in S : T = Lower(y)
    BY <2>1
  <2>3. \A x \in S : ~(x < y)
    BY <1>2, <2>1, <2>2
  <2> QED
    BY <2>3
<1>5. \E y \in S : \A x \in S : y >= x
  <2>1. PICK T \in Uppers : \A U \in Uppers : U \subseteq T => U = T
    <3>1. Uppers \in SUBSET SUBSET S
      BY DEF Upper
    <3>2. Uppers # {}
      OBVIOUS
    <3> HIDE DEF Uppers
    <3> QED
      BY ONLY <1>1, <3>1, <3>2, MinimalSet
  <2>2. PICK y \in S : T = Upper(y)
    BY <2>1
  <2>3. \A x \in S : ~(x > y)
    BY <1>3, <2>1, <2>2
  <2> QED
    BY <2>3
<1> QED
  BY <1>4, <1>5 DEF Min, Max

(* The pairs of a share and its whole that a rate of at most limit has, and *)
(* those of a rate beyond it.  Nothing of nothing is in both.               *)
AtMost(limit) ==
  { p \in Nat \X Nat :
      \/ 2000 * p[1] < (2 * limit + 1) * p[2]
      \/ 2000 * p[1] = (2 * limit + 1) * p[2] /\ (limit % 2 = 0 \/ p[2] = 0) }
Beyond(limit) ==
  { p \in Nat \X Nat :
      \/ 2000 * p[1] > (2 * limit + 1) * p[2]
      \/ 2000 * p[1] = (2 * limit + 1) * p[2] /\ (limit % 2 = 1 \/ p[2] = 0) }

(* What is rounded is off by half a unit at most, and then it is even. *)
LEMMA RoundedTight ==
  ASSUME NEW a \in Nat, NEW b \in Nat, b > 0
  PROVE  /\ Rounded(a, b) \in Nat
         /\ 2 * a <= (2 * Rounded(a, b) + 1) * b
         /\ 2 * a >= (2 * Rounded(a, b) - 1) * b
         /\ (2 * a = (2 * Rounded(a, b) + 1) * b \/ 2 * a = (2 * Rounded(a, b) - 1) * b)
              => Rounded(a, b) % 2 = 0
<1> DEFINE q == a \div b
           r == a % b
<1>1. a = b * q + r /\ q \in Nat /\ r \in 0 .. b - 1
  BY Divides
<1>2. \/ Rounded(a, b) = q /\ (2 * r < b \/ (2 * r = b /\ q % 2 = 0))
      \/ Rounded(a, b) = q + 1 /\ (2 * r > b \/ (2 * r = b /\ q % 2 = 1))
  BY <1>1 DEF Rounded
<1> HIDE DEF q, r
<1> DEFINE bq == b * q
<1>3. /\ bq \in Nat /\ a = bq + r
      /\ (2 * q + 1) * b = 2 * bq + b
      /\ (2 * q - 1) * b = 2 * bq - b
      /\ (2 * (q + 1) + 1) * b = 2 * bq + 3 * b
      /\ (2 * (q + 1) - 1) * b = 2 * bq + b
  BY <1>1
<1>4. q % 2 = 1 => (q + 1) % 2 = 0
  BY <1>1
<1> HIDE DEF bq
<1>5. CASE Rounded(a, b) = q /\ (2 * r < b \/ (2 * r = b /\ q % 2 = 0))
  BY <1>1, <1>3, <1>5
<1>6. CASE Rounded(a, b) = q + 1 /\ (2 * r > b \/ (2 * r = b /\ q % 2 = 1))
  <2>1. Rounded(a, b) \in Nat /\ (q % 2 = 1 => Rounded(a, b) % 2 = 0)
    BY <1>1, <1>4, <1>6
  <2>2. /\ (2 * Rounded(a, b) + 1) * b = 2 * bq + 3 * b
        /\ (2 * Rounded(a, b) - 1) * b = 2 * bq + b
    BY <1>3, <1>6
  <2> QED
    BY <1>1, <1>3, <1>6, <2>1, <2>2
<1> QED
  BY <1>2, <1>5, <1>6

LEMMA RateSide ==
  ASSUME NEW n \in Nat, NEW r \in Nat, n <= r, NEW limit \in Int
  PROVE  /\ <<n, r>> \in AtMost(limit) <=> (r = 0 \/ Rate(n, r) <= limit)
         /\ <<n, r>> \in Beyond(limit) <=> (r = 0 \/ Rate(n, r) > limit)
         /\ r = 0 => Rate(n, r) = Unknown
         /\ r # 0 => Rate(n, r) \in Nat
<1> DEFINE k == 2 * limit + 1
           p == k * r
<1>1. /\ <<n, r>> \in AtMost(limit) <=>
           (2000 * n < p \/ (2000 * n = p /\ (limit % 2 = 0 \/ r = 0)))
      /\ <<n, r>> \in Beyond(limit) <=>
           (2000 * n > p \/ (2000 * n = p /\ (limit % 2 = 1 \/ r = 0)))
  BY DEF AtMost, Beyond
<1>2. CASE r = 0
  <2>1. n = 0 /\ p = 0
    BY <1>2
  <2> QED
    BY <1>1, <1>2, <2>1 DEF Rate
<1>3. CASE r # 0
  <2> DEFINE a == 1000 * n
             v == Rounded(a, r)
             up == (2 * v + 1) * r
             low == (2 * v - 1) * r
  <2>1. a \in Nat /\ r > 0 /\ Rate(n, r) = v /\ 2 * a = 2000 * n
    BY <1>3 DEF Rate
  <2>2. v \in Nat /\ 2 * a <= up /\ 2 * a >= low /\ (2 * a = up \/ 2 * a = low => v % 2 = 0)
    BY <2>1, RoundedTight
  <2> HIDE DEF v
  <2>3. p \in Int /\ up \in Int /\ low \in Int
    BY <2>2
  <2>4. ASSUME v < limit PROVE up < p
    <3>1. 2 * v + 1 < k /\ 2 * v + 1 \in Int /\ k \in Int
      BY <2>2, <2>4
    <3>2. (k - (2 * v + 1)) * r > 0
      BY <2>1, <3>1
    <3>3. (k - (2 * v + 1)) * r = p - up
      BY <2>2
    <3> HIDE DEF k, up, p
    <3> QED
      BY <2>3, <3>2, <3>3
  <2>5. v = limit => up = p
    OBVIOUS
  <2>6. v = limit + 1 => low = p
    OBVIOUS
  <2>7. ASSUME v > limit + 1 PROVE low > p
    <3>1. 2 * v - 1 > k /\ 2 * v - 1 \in Int /\ k \in Int
      BY <2>2, <2>7
    <3>2. (2 * v - 1 - k) * r > 0
      BY <2>1, <3>1
    <3>3. (2 * v - 1 - k) * r = low - p
      BY <2>2
    <3> HIDE DEF k, low, p
    <3> QED
      BY <2>3, <3>2, <3>3
  <2>8. v = limit + 1 /\ v % 2 = 0 => limit % 2 = 1
    BY <2>2
  <2>9. limit % 2 = 0 \/ limit % 2 = 1
    OBVIOUS
  <2> HIDE DEF up, low, p, a, k
  <2>10. CASE v <= limit
    <3>1. v < limit \/ v = limit
      BY <2>2, <2>10
    <3>2. 2000 * n < p \/ (2000 * n = p /\ limit % 2 = 0)
      BY <2>1, <2>2, <2>3, <2>4, <2>5, <3>1
    <3> QED
      BY <1>1, <1>3, <2>1, <2>2, <2>3, <2>10, <3>2
  <2>11. CASE v > limit
    <3>1. v > limit + 1 \/ v = limit + 1
      BY <2>2, <2>11
    <3>2. 2000 * n > p \/ (2000 * n = p /\ limit % 2 = 1)
      BY <2>1, <2>2, <2>3, <2>6, <2>7, <2>8, <3>1
    <3> QED
      BY <1>1, <1>3, <2>1, <2>2, <2>3, <2>11, <3>2
  <2> QED
    BY <2>2, <2>10, <2>11
<1> QED
  BY <1>2, <1>3

(* Both sides are closed under pooling. *)
LEMMA Pools ==
  ASSUME NEW limit \in Int, NEW C \in {AtMost(limit), Beyond(limit)}
  PROVE  /\ C \in SUBSET (Nat \X Nat) /\ <<0, 0>> \in C
         /\ \A a, b, c, d \in Nat :
              <<a, b>> \in C /\ <<c, d>> \in C => <<a + c, b + d>> \in C
<1> DEFINE k == 2 * limit + 1
<1>1. C \in SUBSET (Nat \X Nat)
  BY DEF AtMost, Beyond
<1>2. <<0, 0>> \in C
  <2>1. k * 0 = 0
    OBVIOUS
  <2> QED
    BY <2>1 DEF AtMost, Beyond
<1>3. ASSUME NEW a \in Nat, NEW b \in Nat, NEW c \in Nat, NEW d \in Nat,
             <<a, b>> \in C, <<c, d>> \in C
      PROVE  <<a + c, b + d>> \in C
  <2> DEFINE x == k * b
             y == k * d
  <2>1. k * (b + d) = x + y /\ x \in Int /\ y \in Int
    OBVIOUS
  <2>2. CASE C = AtMost(limit)
    <3>1. /\ 2000 * a < x \/ (2000 * a = x /\ (limit % 2 = 0 \/ b = 0))
          /\ 2000 * c < y \/ (2000 * c = y /\ (limit % 2 = 0 \/ d = 0))
      BY <1>3, <2>2 DEF AtMost
    <3> HIDE DEF x, y, k
    <3>2. \/ 2000 * (a + c) < x + y
          \/ 2000 * (a + c) = x + y /\ (limit % 2 = 0 \/ b + d = 0)
      BY <2>1, <3>1
    <3>3. \/ 2000 * (a + c) < k * (b + d)
          \/ 2000 * (a + c) = k * (b + d) /\ (limit % 2 = 0 \/ b + d = 0)
      BY <2>1, <3>2
    <3> QED
      BY <2>2, <3>3 DEF AtMost, k
  <2>3. CASE C = Beyond(limit)
    <3>1. /\ 2000 * a > x \/ (2000 * a = x /\ (limit % 2 = 1 \/ b = 0))
          /\ 2000 * c > y \/ (2000 * c = y /\ (limit % 2 = 1 \/ d = 0))
      BY <1>3, <2>3 DEF Beyond
    <3> HIDE DEF x, y, k
    <3>2. \/ 2000 * (a + c) > x + y
          \/ 2000 * (a + c) = x + y /\ (limit % 2 = 1 \/ b + d = 0)
      BY <2>1, <3>1
    <3>3. \/ 2000 * (a + c) > k * (b + d)
          \/ 2000 * (a + c) = k * (b + d) /\ (limit % 2 = 1 \/ b + d = 0)
      BY <2>1, <3>2
    <3> QED
      BY <2>3, <3>3 DEF Beyond, k
  <2> QED
    BY <2>2, <2>3
<1> QED
  BY <1>1, <1>2, <1>3

LEMMA DesignsFinite == IsFiniteSet(DesignNames) /\ DesignNames # {}
<1>1. Len(DesignOrder) \in Nat /\ DOMAIN DesignOrder = 1 .. Len(DesignOrder)
  BY DesignAssumption
<1>2. DesignOrder \in Surjection(1 .. Len(DesignOrder), DesignNames)
  BY <1>1, DesignAssumption DEF Surjection, DesignNames, ToSet
<1>3. IsFiniteSet(1 .. Len(DesignOrder))
  BY <1>1, FS_Interval
<1>4. IsFiniteSet(DesignNames)
  BY <1>2, <1>3, FS_Surjection
<1>5. 1 \in DOMAIN DesignOrder
  BY <1>1, DesignAssumption
<1> QED
  BY <1>4, <1>5 DEF DesignNames, ToSet

Bracketed(sbr) ==
  sbr.rate # Unknown =>
    /\ \A d \in DesignNames : sbr.per_design[d].rate \in {Unknown} \cup sbr.min .. sbr.max
    /\ sbr.rate \in sbr.min .. sbr.max
    /\ sbr.excluding_highest <= sbr.rate

(* The counts that rates are computed from. *)
Counts(row) == row.verdicts["KEEP"] \in Nat /\ row.verdicts["SILENT"] \in Nat
RowCounts(rows) == \A d \in DesignNames : Counts(rows[d])

(* The rate of the designs pooled is between the least and the greatest of  *)
(* theirs, and without the one with the greatest it is not higher.          *)
LEMMA RatesBracketed ==
  ASSUME NEW rows, RowCounts(rows)
  PROVE  Bracketed(SilentBugRate(rows))
<1> DEFINE D == DesignNames
           silent == [d \in D |-> rows[d].verdicts["SILENT"]]
           real == [d \in D |-> RealBugs(rows[d].verdicts)]
           rate == [d \in D |-> Rate(silent[d], real[d])]
           per_design ==
             [d \in D |->
               [keep |-> rows[d].verdicts["KEEP"], silent |-> rows[d].verdicts["SILENT"],
                rate |-> Rate(rows[d].verdicts["SILENT"], RealBugs(rows[d].verdicts))]]
           rates == { per_design[d].rate : d \in D } \ {Unknown}
           highest == DesignOrder[Highest(per_design)]
           Pooled(names) == Rate(Total(silent, names), Total(real, names))
           sbr == SilentBugRate(rows)
<1>1. /\ silent \in [D -> Nat] /\ real \in [D -> Nat]
      /\ \A d \in D : silent[d] <= real[d]
  BY DEF RowCounts, Counts, RealBugs
<1>2. \A d \in D : per_design[d].rate = rate[d]
  OBVIOUS
<1>3. /\ [d \in D |-> per_design[d].silent] = silent
      /\ [d \in D |-> per_design[d].keep + per_design[d].silent] = real
  BY DEF RealBugs
<1>4. /\ sbr.per_design = per_design /\ sbr.rate = Pooled(D)
      /\ sbr.min = IF rates = {} THEN Unknown ELSE Min(rates)
      /\ sbr.max = IF rates = {} THEN Unknown ELSE Max(rates)
      /\ sbr.excluding_highest = Pooled(D \ {highest})
  BY <1>3 DEF SilentBugRate
<1> HIDE DEF silent, real, sbr
<1>5. ASSUME NEW d \in D, NEW limit \in Int
      PROVE  /\ <<silent[d], real[d]>> \in AtMost(limit) <=> (real[d] = 0 \/ rate[d] <= limit)
             /\ <<silent[d], real[d]>> \in Beyond(limit) <=> (real[d] = 0 \/ rate[d] > limit)
  BY <1>1, RateSide
<1>5a. ASSUME NEW d \in D
      PROVE  /\ real[d] = 0 => rate[d] = Unknown
             /\ real[d] # 0 => rate[d] \in Nat
  <2>1. 0 \in Int
    OBVIOUS
  <2> QED
    BY <1>1, <2>1, RateSide
<1>6. IsFiniteSet(D) /\ D # {}
  BY DesignsFinite
<1> HIDE DEF rate, per_design
<1>7. ASSUME NEW names \in SUBSET D, NEW limit \in Int,
             NEW C \in {AtMost(limit), Beyond(limit)},
             \A d \in names : <<silent[d], real[d]>> \in C
      PROVE  <<Total(silent, names), Total(real, names)>> \in C
  BY <1>1, <1>6, <1>7, Pools, TotalsIn
<1>8. ASSUME NEW names \in SUBSET D
      PROVE  /\ Total(silent, names) \in Nat /\ Total(real, names) \in Nat
             /\ Total(silent, names) <= Total(real, names)
  <2>1. Total(silent, names) \in Nat /\ Total(real, names) \in Nat
    BY <1>1, <1>6, TotalFirst
  <2>2. \A d \in names : <<silent[d], real[d]>> \in { p \in Nat \X Nat : p[1] <= p[2] }
    BY <1>1
  <2>3. <<Total(silent, names), Total(real, names)>> \in { p \in Nat \X Nat : p[1] <= p[2] }
    <3> DEFINE C == { p \in Nat \X Nat : p[1] <= p[2] }
    <3>1. C \in SUBSET (Nat \X Nat) /\ <<0, 0>> \in C
      OBVIOUS
    <3>2. \A a, b, c, d \in Nat : <<a, b>> \in C /\ <<c, d>> \in C => <<a + c, b + d>> \in C
      OBVIOUS
    <3>3. \A d \in names : <<silent[d], real[d]>> \in C
      BY <2>2
    <3> HIDE DEF C
    <3>4. <<Total(silent, names), Total(real, names)>> \in C
      BY <1>1, <1>6, <3>1, <3>2, <3>3, TotalsIn
    <3> QED
      BY <3>4 DEF C
  <2> QED
    BY <2>1, <2>3
<1>9. ASSUME NEW names \in SUBSET D, NEW limit \in Int
      PROVE  LET n == Total(silent, names)
                 r == Total(real, names) IN
             /\ <<n, r>> \in AtMost(limit) <=> (r = 0 \/ Pooled(names) <= limit)
             /\ <<n, r>> \in Beyond(limit) <=> (r = 0 \/ Pooled(names) > limit)
  BY <1>8, RateSide
<1>9a. ASSUME NEW names \in SUBSET D
      PROVE  /\ Total(real, names) = 0 => Pooled(names) = Unknown
             /\ Total(real, names) # 0 => Pooled(names) \in Nat
  <2>1. 0 \in Int
    OBVIOUS
  <2> QED
    BY <1>8, <2>1, RateSide
<1> HIDE DEF Pooled
<1> SUFFICES ASSUME Pooled(D) # Unknown
             PROVE  /\ \A d \in D : per_design[d].rate \in {Unknown} \cup sbr.min .. sbr.max
                    /\ Pooled(D) \in sbr.min .. sbr.max
                    /\ Pooled(D \ {highest}) <= Pooled(D)
  BY <1>4 DEF Bracketed, sbr
<1>10. Total(real, D) # 0 /\ Pooled(D) \in Nat
  BY <1>9, <1>9a
<1>11. rates \subseteq Nat /\ \A d \in D : rate[d] \in rates \/ rate[d] = Unknown
  BY <1>2, <1>5a
<1>12. \E d \in D : real[d] # 0
  <2> SUFFICES ASSUME \A d \in D : real[d] = 0 PROVE FALSE
    OBVIOUS
  <2> DEFINE C == {<<0, 0>>}
  <2>1. C \in SUBSET (Nat \X Nat) /\ <<0, 0>> \in C
    OBVIOUS
  <2>2. \A a, b, c, d \in Nat : <<a, b>> \in C /\ <<c, d>> \in C => <<a + c, b + d>> \in C
    OBVIOUS
  <2>3. \A d \in D : <<silent[d], real[d]>> \in C
    BY <1>1
  <2> HIDE DEF C
  <2>4. <<Total(silent, D), Total(real, D)>> \in C
    BY <1>1, <1>6, <2>1, <2>2, <2>3, TotalsIn
  <2> QED
    BY <1>10, <2>4 DEF C
<1>13. rates # {} /\ IsFiniteSet(rates)
  <2>1. rates # {}
    <3>1. PICK d \in D : real[d] # 0
      BY <1>12
    <3>2. rate[d] \in Nat
      BY <1>5, <1>5a, <3>1
    <3>3. rate[d] # Unknown
      BY <3>2 DEF Unknown
    <3> QED
      BY <1>2, <3>3
  <2>2. rate \in Surjection(D, { rate[d] : d \in D })
    BY DEF Surjection, rate
  <2>3. IsFiniteSet({ rate[d] : d \in D })
    BY <1>6, <2>2, FS_Surjection
  <2>4. rates \subseteq { rate[d] : d \in D }
    BY <1>2
  <2> QED
    BY <2>1, <2>3, <2>4, FS_Subset
<1> HIDE DEF rates
<1> DEFINE low == Min(rates)
           high == Max(rates)
<1>14. /\ low \in rates /\ \A x \in rates : low <= x
       /\ high \in rates /\ \A x \in rates : high >= x
  <2>1. rates \subseteq Int
    BY <1>11
  <2> QED
    BY ONLY <2>1, <1>13, Extremes
<1>15. sbr.min = low /\ sbr.max = high /\ low \in Nat /\ high \in Nat
  BY <1>4, <1>11, <1>13, <1>14
<1> HIDE DEF low, high
<1>16. \A d \in D : per_design[d].rate \in {Unknown} \cup sbr.min .. sbr.max
  <2> SUFFICES ASSUME NEW d \in D, rate[d] \in rates
               PROVE  rate[d] \in low .. high
    BY <1>2, <1>11, <1>15
  <2>1. rate[d] \in Nat /\ low <= rate[d] /\ high >= rate[d]
    BY <1>11, <1>14
  <2> QED
    BY <1>15, <2>1
<1>17. Pooled(D) <= high
  <2>1. ASSUME NEW d \in D PROVE <<silent[d], real[d]>> \in AtMost(high)
    <3>1. real[d] = 0 \/ rate[d] <= high
      BY <1>5a, <1>11, <1>14 DEF Unknown
    <3> QED
      BY <1>5, <1>15, <3>1
  <2>2. high \in Int /\ D \in SUBSET D
    BY <1>15
  <2>3. <<Total(silent, D), Total(real, D)>> \in AtMost(high)
    BY <1>7, <2>1, <2>2
  <2> QED
    BY <1>9, <1>10, <2>2, <2>3
<1>18. Pooled(D) >= low
  <2>1. ASSUME NEW d \in D PROVE <<silent[d], real[d]>> \in Beyond(low - 1)
    <3>1. low - 1 \in Int
      BY <1>15
    <3>2. real[d] = 0 \/ rate[d] > low - 1
      <4>1. real[d] = 0 \/ (rate[d] \in rates /\ rate[d] \in Nat)
        BY <1>1, <1>5a, <1>11 DEF Unknown
      <4>2. rate[d] \in rates => low <= rate[d]
        BY <1>14
      <4> QED
        BY <1>15, <4>1, <4>2
    <3> QED
      BY <1>5, <1>5a, <3>1, <3>2
  <2>2. Pooled(D) > low - 1
    <3>1. low - 1 \in Int
      BY <1>15
    <3> QED
      BY <1>7, <1>9, <1>9a, <1>10, <2>1, <3>1
  <2> QED
    BY <1>10, <1>15, <2>2
<1>19. highest \in D /\ \A d \in D : rate[d] <= rate[highest]
  <2> DEFINE Test(d) == \A e \in D : per_design[e].rate <= per_design[d].rate
             I == { i \in 1 .. Len(DesignOrder) : Test(DesignOrder[i]) }
  <2>1. Highest(per_design) = IF I # {} THEN Min(I) ELSE 0
    BY DEF Highest, SelectInSeq
  <2>2. I # {}
    <3>1. PICK h \in D : rate[h] = high
      BY <1>2, <1>14 DEF rates
    <3>2. \A e \in D : rate[e] <= rate[h]
      BY <1>5, <1>5a, <1>11, <1>14, <1>15, <3>1 DEF Unknown
    <3>3. PICK i \in 1 .. Len(DesignOrder) : DesignOrder[i] = h
      BY DesignAssumption DEF DesignNames, ToSet
    <3>4. Test(DesignOrder[i])
      BY <1>2, <3>2, <3>3
    <3> QED
      BY <3>4
  <2>3. I \subseteq Int /\ IsFiniteSet(I)
    <3>1. Len(DesignOrder) \in Nat
      BY DesignAssumption
    <3>2. IsFiniteSet(1 .. Len(DesignOrder)) /\ I \in SUBSET (1 .. Len(DesignOrder))
      BY <3>1, FS_Interval
    <3>3. I \subseteq Int
      BY <3>1
    <3> HIDE DEF I
    <3> QED
      BY <3>2, <3>3, FS_Subset
  <2>4. Min(I) \in I
    <3> HIDE DEF I
    <3> QED
      BY <2>2, <2>3, Extremes
  <2>5. Highest(per_design) \in 1 .. Len(DesignOrder) /\ Test(highest)
    BY <2>1, <2>2, <2>4
  <2> QED
    BY <1>2, <2>5, DesignAssumption
<1> HIDE DEF highest
<1>20. Pooled(D \ {highest}) <= Pooled(D)
  <2> DEFINE rest == D \ {highest}
             pool == Pooled(D)
  <2> SUFFICES ASSUME Total(real, rest) # 0, Pooled(rest) > pool PROVE FALSE
    <3>1. Pooled(rest) \in Nat \/ Pooled(rest) = Unknown
      BY <1>9, <1>9a
    <3>2. Total(real, rest) = 0 => Pooled(rest) = Unknown
      BY <1>9, <1>9a
    <3> HIDE DEF rest
    <3> QED
      BY <1>10, <3>1, <3>2 DEF Unknown, rest
  <2>1. pool \in Int
    BY <1>10
  <2> HIDE DEF pool
  <2>2. CASE real[highest] = 0 \/ rate[highest] <= pool
    <3>1. ASSUME NEW d \in rest PROVE <<silent[d], real[d]>> \in AtMost(pool)
      <4>1. rate[highest] <= pool
        BY <1>5, <1>5a, <1>10, <1>19, <2>2 DEF Unknown, pool
      <4>2. real[d] = 0 \/ rate[d] <= pool
        BY <1>5, <1>5a, <1>19, <2>1, <4>1 DEF Unknown
      <4> QED
        BY <1>5, <1>5a, <2>1, <4>2
    <3>2. <<Total(silent, rest), Total(real, rest)>> \in AtMost(pool)
      BY <1>7, <2>1, <3>1
    <3>3. Pooled(rest) <= pool
      BY <1>9, <1>9a, <2>1, <3>2
    <3>4. Pooled(rest) \in Nat
      BY <1>9, <1>9a
    <3> QED
      BY <2>1, <3>3, <3>4
  <2>3. CASE real[highest] # 0 /\ rate[highest] > pool
    <3>1. /\ <<silent[highest], real[highest]>> \in Beyond(pool)
          /\ <<Total(silent, rest), Total(real, rest)>> \in Beyond(pool)
      BY <1>5, <1>5a, <1>9, <1>9a, <1>19, <2>1, <2>3
    <3>2. /\ Total(silent, D) = silent[highest] + Total(silent, rest)
          /\ Total(real, D) = real[highest] + Total(real, rest)
      BY <1>1, <1>6, <1>19, TotalAny
    <3>3. /\ silent[highest] \in Nat /\ real[highest] \in Nat
          /\ Total(silent, rest) \in Nat /\ Total(real, rest) \in Nat
      BY <1>1, <1>8, <1>19
    <3>4. <<Total(silent, D), Total(real, D)>> \in Beyond(pool)
      BY <2>1, <3>1, <3>2, <3>3, Pools
    <3> QED
      BY <1>9, <1>9a, <1>10, <2>1, <3>4 DEF pool
  <2>4. real[highest] # 0 => rate[highest] \in Nat
    BY <1>5, <1>5a, <1>19
  <2> QED
    BY <2>1, <2>2, <2>3, <2>4
<1> QED
  BY <1>10, <1>15, <1>16, <1>17, <1>18, <1>20

-----------------------------------------------------------------------------
(* THE STATISTICS                                                          *)

(* What build_stats.py has not read yet, it still has to; it writes last.   *)
BuildInv ==
  script.name = "build_stats" =>
    /\ script.todo \in Seq(ToSet(Sections) \cup {"write"})
    /\ \A i \in 1 .. Len(script.todo) : script.todo[i] = "write" => i = Len(script.todo)
    /\ \A d \in DesignNames :
         \/ \E i \in 1 .. Len(script.todo) : script.todo[i] = d
         \/ d \in DOMAIN script.read /\ Counts(script.read[d])

RatesInv == BuildInv /\ RatesOrdered

LEMMA SectionsForm ==
  /\ Sections \in Seq(ToSet(Sections)) /\ "write" \notin ToSet(Sections)
  /\ \A d \in DesignNames : d \in ToSet(Sections) /\ \E i \in 1 .. Len(Sections) : Sections[i] = d
<1> DEFINE more == <<"operators", "cells", "histogram">>
           S == DesignNames \cup {"operators", "cells", "histogram"}
           n == Len(DesignOrder)
<1>1. /\ DesignOrder \in Seq(S) /\ more \in Seq(S) /\ Len(more) = 3
      /\ n \in Nat /\ "write" \notin S
  BY DesignAssumption
<1>2. /\ Sections \in Seq(S) /\ Len(Sections) = n + 3
      /\ \A i \in 1 .. n : Sections[i] = DesignOrder[i]
  <2> HIDE DEF more
  <2> QED
    BY <1>1 DEF Sections, more
<1>3. \A i \in 1 .. Len(Sections) : Sections[i] \in S /\ Sections[i] \in ToSet(Sections)
  BY <1>2 DEF ToSet
<1>4. Sections \in Seq(ToSet(Sections))
  BY <1>2, <1>3
<1>5. "write" \notin ToSet(Sections)
  BY <1>1, <1>2, <1>3 DEF ToSet
<1>6. ASSUME NEW d \in DesignNames
      PROVE  \E i \in 1 .. Len(Sections) : Sections[i] = d
  <2>1. PICK i \in 1 .. n : DesignOrder[i] = d
    BY DesignAssumption DEF DesignNames, ToSet
  <2> QED
    BY <1>1, <1>2, <2>1
<1> QED
  BY <1>3, <1>4, <1>5, <1>6

(* A script that starts has everything to read.                             *)
LEMMA BuildStarts ==
  ASSUME script'.name = "build_stats" => script'.todo = Append(Sections, "write")
  PROVE  BuildInv'
<1> SUFFICES ASSUME script'.name = "build_stats"
             PROVE  /\ script'.todo \in Seq(ToSet(Sections) \cup {"write"})
                    /\ \A i \in 1 .. Len(script'.todo) :
                         script'.todo[i] = "write" => i = Len(script'.todo)
                    /\ \A d \in DesignNames : \E i \in 1 .. Len(script'.todo) : script'.todo[i] = d
  BY DEF BuildInv
<1> DEFINE todo == Append(Sections, "write")
<1>1. Sections \in Seq(ToSet(Sections) \cup {"write"}) /\ Len(Sections) \in Nat
  BY SectionsForm
<1>2. /\ todo \in Seq(ToSet(Sections) \cup {"write"})
      /\ Len(todo) = Len(Sections) + 1
      /\ \A i \in 1 .. Len(Sections) : todo[i] = Sections[i] /\ todo[i] \in ToSet(Sections)
  BY <1>1, SectionsForm DEF ToSet
<1> HIDE DEF todo
<1>3. \A i \in 1 .. Len(todo) : todo[i] = "write" => i = Len(todo)
  BY <1>1, <1>2, SectionsForm
<1>4. \A d \in DesignNames : \E i \in 1 .. Len(todo) : todo[i] = d
  BY <1>1, <1>2, SectionsForm
<1> QED
  BY <1>2, <1>3, <1>4 DEF todo

(* The row of a design has counts. *)
LEMMA SectionCounts ==
  ASSUME NEW d \in DesignNames, NEW files,
         IsFiniteSet(files[HomeOf[d]])
  PROVE  Counts(Section(files, d))
<1> DEFINE own == { t \in files[HomeOf[d]] : t.design = d }
<1>1. IsFiniteSet(own)
  <2>1. PICK tasks : tasks = files[HomeOf[d]]
    OBVIOUS
  <2>2. IsFiniteSet(tasks) /\ own \in SUBSET tasks
    BY <2>1
  <2> HIDE DEF own
  <2> QED
    BY ONLY <2>2, FS_Subset
<1>2. Section(files, d) = DesignRow(d, files[HomeOf[d]])
  BY DesignAssumption DEF Section
<1>3. DesignRow(d, files[HomeOf[d]]).verdicts = VerdictsOf(own)
  BY DEF DesignRow
<1>4. ASSUME NEW v \in Decisions
      PROVE  VerdictsOf(own)[v] \in Nat
  <2>1. IsFiniteSet({ t \in own : t.decision = v })
    BY <1>1, FS_Subset
  <2>2. Cardinality({ t \in own : t.decision = v }) \in Nat
    BY <2>1, FS_CardinalityType
  <2> QED
    BY <2>2 DEF VerdictsOf
<1> HIDE DEF own
<1>5. "KEEP" \in Decisions /\ "SILENT" \in Decisions
  BY DEF Decisions
<1> QED
  BY <1>2, <1>3, <1>4, <1>5 DEF Counts

LEMMA AssembledRates ==
  ASSUME NEW read, \A d \in DesignNames : Counts(read[d])
  PROVE  Bracketed(Assembled(read).silent_bug_rate)
<1> DEFINE rows == [d \in DesignNames |-> read[d]]
<1>1. Assembled(read).silent_bug_rate = SilentBugRate(rows)
  BY DEF Assembled
<1>2. RowCounts(rows)
  BY DEF RowCounts
<1> QED
  BY <1>1, <1>2, RatesBracketed

LEMMA RatesStart ==
  ASSUME NEW files \in Publishable, PublishStart(files)
  PROVE  RatesInv
<1> DEFINE read == [name \in ToSet(Sections) |-> Section(files, name)]
<1>1. stats = Assembled(read) /\ script.name # "build_stats"
  BY DEF PublishStart, NoScript
<1>2. ASSUME NEW d \in DesignNames PROVE Counts(read[d])
  <2>1. files[HomeOf[d]] \in Corpora[HomeOf[d]] /\ HomeOf[d] \in TaskFiles
    BY DesignAssumption DEF Publishable
  <2>2. IsFiniteSet(files[HomeOf[d]])
    BY <2>1, CorporaAssumption
  <2> QED
    BY <2>2, SectionCounts, SectionsForm
<1> HIDE DEF read
<1> QED
  BY <1>1, <1>2, AssembledRates DEF RatesInv, BuildInv, RatesOrdered, Bracketed

LEMMA ReadSectionRates ==
  ASSUME PublishInv, BuildInv, NEW name \in ToSet(Sections), ReadSection(name)
  PROVE  BuildInv'
<1>1. /\ script.name = "build_stats" /\ script.todo # <<>> /\ Head(script.todo) = name
      /\ Done(name, Section(corpora, name))
      /\ Parses(IF name \in DesignNames THEN {HomeOf[name]} ELSE TaskFiles)
  BY DEF ReadSection, At
<1>2. /\ script'.name = script.name /\ script'.todo = Tail(script.todo)
      /\ name \in DOMAIN script'.read /\ script'.read[name] = Section(corpora, name)
      /\ \A s \in DOMAIN script.read : s # name =>
           s \in DOMAIN script'.read /\ script'.read[s] = script.read[s]
  BY <1>1, DoneRead DEF PublishInv
<1>3. ASSUME name \in DesignNames PROVE Counts(Section(corpora, name))
  <2>1. HomeOf[name] \in TaskFiles /\ Torn \notin corpora[HomeOf[name]]
    BY <1>1, <1>3, DesignAssumption DEF Parses
  <2>2. corpora[HomeOf[name]] \in Corpora[HomeOf[name]]
    BY <2>1 DEF PublishInv, CorporaInv
  <2>3. IsFiniteSet(corpora[HomeOf[name]])
    BY <2>1, <2>2, CorporaAssumption
  <2> QED
    BY <1>3, <2>3, SectionCounts
<1> DEFINE todo == script.todo
           S == ToSet(Sections) \cup {"write"}
<1>4. /\ todo \in Seq(S) /\ todo # <<>> /\ Head(todo) = name
      /\ \A i \in 1 .. Len(todo) : todo[i] = "write" => i = Len(todo)
      /\ \A d \in DesignNames :
           \/ \E i \in 1 .. Len(todo) : todo[i] = d
           \/ d \in DOMAIN script.read /\ Counts(script.read[d])
  BY <1>1 DEF BuildInv
<1>5. /\ script'.todo \in Seq(S) /\ Len(todo) \in Nat /\ Len(script'.todo) = Len(todo) - 1
      /\ todo[1] = name
      /\ \A i \in 1 .. Len(todo) - 1 : script'.todo[i] = todo[i + 1]
  BY <1>2, <1>4
<1> HIDE DEF todo
<1>6. \A i \in 1 .. Len(script'.todo) : script'.todo[i] = "write" => i = Len(script'.todo)
  <2> TAKE i \in 1 .. Len(script'.todo)
  <2>1. i + 1 \in 1 .. Len(todo) /\ script'.todo[i] = todo[i + 1]
    BY <1>5
  <2> QED
    BY <1>4, <1>5, <2>1
<1>7. ASSUME NEW d \in DesignNames
      PROVE  \/ \E i \in 1 .. Len(script'.todo) : script'.todo[i] = d
             \/ d \in DOMAIN script'.read /\ Counts(script'.read[d])
  <2>1. CASE d = name
    BY <1>2, <1>3, <2>1
  <2>2. ASSUME NEW i \in 1 .. Len(todo), todo[i] = d, d # name
        PROVE  \E j \in 1 .. Len(script'.todo) : script'.todo[j] = d
    <3>1. i # 1
      BY <1>5, <2>2
    <3>2. i - 1 \in 1 .. Len(script'.todo) /\ script'.todo[i - 1] = d
      BY <1>5, <2>2, <3>1
    <3> QED
      BY <3>2
  <2> QED
    BY <1>2, <1>4, <2>1, <2>2
<1> QED
  BY <1>5, <1>6, <1>7 DEF BuildInv, S

LEMMA WriteStatsRates ==
  ASSUME BuildInv, WriteStats
  PROVE  RatesInv'
<1>1. /\ script.name = "build_stats" /\ script.todo # <<>> /\ Head(script.todo) = "write"
      /\ stats' = Assembled(script.read) /\ script' = NoScript
  BY DEF WriteStats, At
<1>2. script.todo[1] = "write" /\ Len(script.todo) = 1
  <2>1. /\ script.todo \in Seq(ToSet(Sections) \cup {"write"})
        /\ \A i \in 1 .. Len(script.todo) : script.todo[i] = "write" => i = Len(script.todo)
    BY <1>1 DEF BuildInv
  <2>2. script.todo[1] = "write" /\ 1 \in 1 .. Len(script.todo)
    BY <1>1, <2>1
  <2> QED
    BY <2>1, <2>2
<1>3. ASSUME NEW d \in DesignNames PROVE Counts(script.read[d])
  <2>1. d # "write"
    BY DesignAssumption
  <2> QED
    BY <1>1, <1>2, <2>1 DEF BuildInv
<1>4. RatesOrdered'
  <2>1. Bracketed(stats'.silent_bug_rate)
    BY <1>1, <1>3, AssembledRates
  <2> QED
    BY <2>1 DEF RatesOrdered, Bracketed
<1>5. BuildInv'
  BY <1>1 DEF BuildInv, NoScript
<1> QED
  BY <1>4, <1>5 DEF RatesInv

LEMMA RatesStep == PublishInv /\ RatesInv /\ [PublishNext]_publishVars => RatesInv'
<1> SUFFICES ASSUME PublishInv, RatesInv, [PublishNext]_publishVars PROVE RatesInv'
  OBVIOUS
<1>1. ASSUME stats' = stats \/ stats' = Torn, script'.name # "build_stats"
      PROVE  RatesInv'
  BY <1>1 DEF RatesInv, BuildInv, RatesOrdered
<1>2. ASSUME stats' = stats, script' = script
      PROVE  RatesInv'
  BY <1>2 DEF RatesInv, BuildInv, RatesOrdered
<1>3. ASSUME NEW step, NEW value, Done(step, value)
      PROVE  script'.name = script.name
  BY <1>3, DoneRead DEF PublishInv
<1>4. ASSUME NEW name \in {"build_stats", "make_charts", "build_dashboard"}, Start(name)
      PROVE  RatesInv'
  <2>1. /\ script' = [name |-> name, todo |-> Steps(name), read |-> <<>>]
        /\ stats' = stats
    BY <1>4 DEF Start
  <2>2. script'.name = "build_stats" => script'.todo = Append(Sections, "write")
    BY <2>1 DEF Steps
  <2> QED
    BY <2>1, <2>2, BuildStarts DEF RatesInv, RatesOrdered
<1>5. ASSUME NEW name \in ToSet(Sections), ReadSection(name)
      PROVE  RatesInv'
  <2>1. stats' = stats
    BY <1>5 DEF ReadSection
  <2> QED
    BY <1>5, <2>1, ReadSectionRates DEF RatesInv, RatesOrdered
<1>6. CASE WriteStats
  BY <1>6, WriteStatsRates DEF RatesInv
<1>7. CASE LoadStats
  <2>1. script.name \in {"make_charts", "build_dashboard"} /\ Done("stats", stats) /\ stats' = stats
    BY <1>7 DEF LoadStats, At
  <2> QED
    BY <1>1, <1>3, <2>1
<1>8. ASSUME NEW name \in ToSet(Figures), Draw(name)
      PROVE  RatesInv'
  <2>1. /\ script.name = "make_charts" /\ stats' = stats
        /\ script' = NoScript \/ script' = [script EXCEPT !.todo = Tail(@)]
    BY <1>8 DEF Draw, At
  <2>2. script'.name # "build_stats"
    BY <2>1 DEF PublishInv, ScriptForm, NoScript
  <2> QED
    BY <1>1, <2>1, <2>2
<1>9. CASE ReadHead \/ LoadTasks
  <2>1. /\ script.name = "build_dashboard" /\ stats' = stats
        /\ \E step, value : Done(step, value)
    BY <1>9 DEF ReadHead, LoadTasks, At
  <2> QED
    BY <1>1, <1>3, <2>1
<1>10. CASE CheckStatus \/ Validate
  <2>1. /\ script.name = "build_dashboard" /\ stats' = stats
        /\ script' = [script EXCEPT !.todo = Tail(@)]
    BY <1>10 DEF CheckStatus, Validate, At
  <2>2. script'.name = script.name
    BY <2>1 DEF PublishInv, ScriptForm
  <2> QED
    BY <1>1, <2>1, <2>2
<1>11. CASE WritePage \/ ScriptStops \/ KilledWriting
  <2>1. script' = NoScript /\ (stats' = stats \/ stats' = Torn)
    BY <1>11 DEF WritePage, ScriptStops, KilledWriting
  <2> QED
    BY <1>1, <2>1 DEF NoScript
<1>12. ASSUME NEW file \in TaskFiles, ForgeEnds(file)
       PROVE  RatesInv'
  BY <1>2, <1>12 DEF ForgeEnds
<1>13. CASE Commit \/ Published \/ UNCHANGED publishVars
  BY <1>2, <1>13 DEF Commit, Published, publishVars
<1> QED
  BY <1>4, <1>5, <1>6, <1>7, <1>8, <1>9, <1>10, <1>11, <1>12, <1>13 DEF PublishNext

(* However many designs and tasks there are and whatever is read while the  *)
(* forge goes on, the statistics are written with a pooled rate between the *)
(* least and the greatest rate of a design, and without the design with the *)
(* highest the rate is not higher, all of them rounded as Python does.      *)
THEOREM RatesOrderedCorrect == PublishSpec => []RatesOrdered
<1>1. PublishInit => PublishInv /\ RatesInv
  BY PublishInitInv, RatesStart DEF PublishInit
<1>2. (PublishInv /\ RatesInv) /\ [PublishNext]_publishVars => (PublishInv /\ RatesInv)'
  BY PublishStep, RatesStep
<1>3. PublishInv /\ RatesInv => RatesOrdered
  BY DEF RatesInv
<1> QED
  BY <1>1, <1>2, <1>3, PTL DEF PublishSpec

-----------------------------------------------------------------------------
(* THE SELECTION OF TASKS                                                  *)

(* Before orders the tasks of a list. *)
LEMMA BeforeOrders ==
  ASSUME NEW list \in KeepLists
  PROVE  /\ \A i \in DOMAIN list : ~Before(list, i, i)
         /\ \A i, j \in DOMAIN list : i # j => Before(list, i, j) \/ Before(list, j, i)
         /\ \A i, j, k \in DOMAIN list :
              Before(list, i, j) /\ Before(list, j, k) => Before(list, i, k)
         /\ \A i, j \in DOMAIN list : Before(list, i, j) /\ list[i].design = list[j].design =>
              list[i].depth <= list[j].depth
<1> DEFINE p(i) == PlaceOf(list[i].design)
           d(i) == list[i].depth
<1>1. DOMAIN list \subseteq Nat
  BY KeepListsAssumption
<1>2. ASSUME NEW i \in DOMAIN list PROVE p(i) \in Nat /\ d(i) \in Nat
  <2>1. list[i].design \in ToSet(DesignsByName) /\ d(i) \in Nat
    BY KeepListsAssumption
  <2>2. \E n \in DOMAIN DesignsByName : DesignsByName[n] = list[i].design
    BY <2>1 DEF ToSet
  <2>3. p(i) \in DOMAIN DesignsByName
    BY <2>2 DEF PlaceOf
  <2> QED
    BY <2>1, <2>3, SpreadAssumption
<1>3. ASSUME NEW i \in DOMAIN list, NEW j \in DOMAIN list
      PROVE  Before(list, i, j) <=>
               \/ p(i) < p(j)
               \/ p(i) = p(j) /\ d(i) < d(j)
               \/ p(i) = p(j) /\ d(i) = d(j) /\ i < j
  BY DEF Before
<1>4. ASSUME NEW i \in DOMAIN list, NEW j \in DOMAIN list, list[i].design = list[j].design
      PROVE  p(i) = p(j)
  BY <1>4
<1> HIDE DEF p, d
<1>5. \A i \in DOMAIN list : ~Before(list, i, i)
  BY <1>1, <1>2, <1>3
<1>6. \A i, j \in DOMAIN list : i # j => Before(list, i, j) \/ Before(list, j, i)
  BY <1>1, <1>2, <1>3
<1>7. \A i, j, k \in DOMAIN list :
        Before(list, i, j) /\ Before(list, j, k) => Before(list, i, k)
  BY <1>1, <1>2, <1>3
<1>8. \A i, j \in DOMAIN list : Before(list, i, j) /\ list[i].design = list[j].design =>
        d(i) <= d(j)
  BY <1>2, <1>3, <1>4
<1> QED
  BY <1>5, <1>6, <1>7, <1>8 DEF d

LEMMA ListFinite ==
  ASSUME NEW list \in KeepLists, NEW S \in SUBSET DOMAIN list
  PROVE  IsFiniteSet(S) /\ Cardinality(S) \in Nat
<1>1. Len(list) \in Nat /\ DOMAIN list = 1 .. Len(list)
  BY KeepListsAssumption
<1>2. IsFiniteSet(1 .. Len(list))
  BY <1>1, FS_Interval
<1>3. IsFiniteSet(S)
  BY <1>1, <1>2, FS_Subset
<1> QED
  BY <1>3, FS_CardinalityType

(* How many come earlier numbers the members of a set of tasks from 0.      *)
LEMMA EarlierNumbers ==
  ASSUME NEW list \in KeepLists, NEW S \in SUBSET DOMAIN list
  PROVE  /\ \A i \in S : Earlier(list, S, i) \in 0 .. Cardinality(S) - 1
         /\ \A i, j \in S : Before(list, i, j) => Earlier(list, S, i) < Earlier(list, S, j)
         /\ \A i, j \in S : Earlier(list, S, i) = Earlier(list, S, j) => i = j
         /\ \A k \in 0 .. Cardinality(S) - 1 : \E i \in S : Earlier(list, S, i) = k
<1> DEFINE first(i) == { j \in S : Before(list, j, i) }
           n == Cardinality(S)
<1>1. IsFiniteSet(S) /\ n \in Nat
  BY ListFinite
<1>2. ASSUME NEW i \in S
      PROVE  /\ IsFiniteSet(first(i)) /\ Cardinality(first(i)) \in Nat
             /\ first(i) \in SUBSET (S \ {i}) /\ Earlier(list, S, i) = Cardinality(first(i))
  <2>1. first(i) \in SUBSET DOMAIN list
    OBVIOUS
  <2>2. IsFiniteSet(first(i)) /\ Cardinality(first(i)) \in Nat
    BY <2>1, ListFinite
  <2>3. first(i) \in SUBSET (S \ {i})
    BY BeforeOrders
  <2> QED
    BY <2>2, <2>3 DEF Earlier
<1>3. ASSUME NEW i \in S PROVE Earlier(list, S, i) \in 0 .. n - 1
  <2>1. IsFiniteSet(S \ {i}) /\ Cardinality(S \ {i}) = n - 1
    BY <1>1, FS_RemoveElement
  <2>2. Cardinality(first(i)) <= n - 1
    <3> HIDE DEF first, n
    <3> QED
      BY <1>2, <2>1, FS_Subset
  <2> QED
    BY <1>1, <1>2, <2>2
<1>4. ASSUME NEW i \in S, NEW j \in S, Before(list, i, j)
      PROVE  Earlier(list, S, i) < Earlier(list, S, j)
  <2>1. first(i) \in SUBSET first(j)
    BY <1>4, BeforeOrders
  <2>2. i \in first(j) /\ i \notin first(i)
    BY <1>4, BeforeOrders
  <2> HIDE DEF first
  <2>3. /\ Cardinality(first(i)) <= Cardinality(first(j))
        /\ Cardinality(first(j)) # Cardinality(first(i))
    BY <1>2, <2>1, <2>2, FS_Subset
  <2> QED
    BY <1>2, <2>3
<1>5. ASSUME NEW i \in S, NEW j \in S, Earlier(list, S, i) = Earlier(list, S, j), i # j
      PROVE  FALSE
  <2>1. Before(list, i, j) \/ Before(list, j, i)
    BY <1>5, BeforeOrders
  <2> QED
    BY <1>1, <1>3, <1>4, <1>5, <2>1
<1>6. ASSUME NEW k \in 0 .. n - 1 PROVE \E i \in S : Earlier(list, S, i) = k
  <2> DEFINE f == [i \in S |-> Earlier(list, S, i)]
  <2>1. f \in Injection(S, 0 .. n - 1)
    BY <1>3, <1>5 DEF Injection, IsInjective
  <2>2. IsFiniteSet(0 .. n - 1) /\ Cardinality(0 .. n - 1) = n
    BY <1>1, FS_Interval
  <2> HIDE DEF f
  <2>3. f \in Surjection(S, 0 .. n - 1)
    BY <2>1, <2>2, FS_Injection
  <2>4. \E i \in S : f[i] = k
    BY <2>3 DEF Surjection
  <2> QED
    BY <2>4 DEF f
<1> QED
  BY <1>3, <1>4, <1>5, <1>6

(* The selection has exactly the chosen tasks. *)
LEMMA StratifiedHas ==
  ASSUME NEW list \in KeepLists
  PROVE  /\ Cardinality(Chosen(list)) \in Nat
         /\ Stratified(list) \in Seq(ToSet(list))
         /\ Len(Stratified(list)) = Cardinality(Chosen(list))
         /\ \A i \in Chosen(list) : \E k \in 1 .. Len(Stratified(list)) : Stratified(list)[k] = list[i]
<1> DEFINE S == Chosen(list)
           n == Cardinality(S)
           at(k) == CHOOSE i \in S : Earlier(list, S, i) = k - 1
<1>1. S \in SUBSET DOMAIN list
  BY DEF Chosen
<1>2. n \in Nat
  BY <1>1, ListFinite
<1> HIDE DEF S
<1>3. ASSUME NEW k \in 1 .. n PROVE at(k) \in S /\ Earlier(list, S, at(k)) = k - 1
  <2>1. k - 1 \in 0 .. n - 1
    BY <1>2
  <2>2. \E i \in S : Earlier(list, S, i) = k - 1
    BY <1>1, <2>1, EarlierNumbers
  <2> QED
    BY <2>2
<1>4. Stratified(list) = [k \in 1 .. n |-> list[at(k)]]
  BY DEF Stratified, S
<1> HIDE DEF at
<1>5. \A k \in 1 .. n : list[at(k)] \in ToSet(list)
  BY <1>1, <1>3 DEF ToSet
<1>6. Stratified(list) \in Seq(ToSet(list)) /\ Len(Stratified(list)) = n
  BY <1>2, <1>4, <1>5
<1>7. ASSUME NEW i \in S PROVE \E k \in 1 .. n : Stratified(list)[k] = list[i]
  <2>1. Earlier(list, S, i) \in 0 .. n - 1
    BY <1>1, EarlierNumbers
  <2> DEFINE k == Earlier(list, S, i) + 1
  <2>2. k \in 1 .. n /\ k - 1 = Earlier(list, S, i)
    BY <1>2, <2>1
  <2>3. at(k) = i
    BY <1>1, <1>3, <2>2, EarlierNumbers
  <2> QED
    BY <1>4, <2>2, <2>3
<1> QED
  BY <1>2, <1>6, <1>7 DEF S

(* The places in a pool that has more tasks than are taken: the first, the  *)
(* last and as many as are asked for.                                       *)
LEMMA PlacesSpread ==
  ASSUME NEW n \in Nat, n > PerDesign
  PROVE  /\ Places(n) \in SUBSET (0 .. n - 1) /\ 0 \in Places(n) /\ n - 1 \in Places(n)
         /\ IsFiniteSet(Places(n)) /\ Cardinality(Places(n)) = PerDesign
<1> DEFINE b == PerDesign - 1
           m == n - 1
           spot(i) == Rounded(i * m, b)
<1>1. b \in Nat /\ b > 0 /\ m \in Nat /\ m > b /\ PerDesign = b + 1
  BY SpreadAssumption
<1>2. Places(n) = { spot(i) : i \in 0 .. b }
  BY DEF Places
<1> HIDE DEF b, m
<1>3. ASSUME NEW i \in 0 .. b
      PROVE  spot(i) \in Nat /\ 2 * b * spot(i) \in 2 * (i * m) - b .. 2 * (i * m) + b /\ i * m \in Nat
  BY <1>1, RoundedNear
<1> HIDE DEF spot
<1>4. ASSUME NEW i \in 0 .. b, NEW j \in 0 .. b, i < j
      PROVE  spot(i) < spot(j)
  <2>1. j * m - i * m >= m
    <3>1. (j - i) * m >= m
      BY <1>1, <1>4
    <3>2. (j - i) * m = j * m - i * m
      BY <1>1
    <3> QED
      BY <3>1, <3>2
  <2> DEFINE x == 2 * b * spot(i)
             y == 2 * b * spot(j)
             u == i * m
             v == j * m
  <2>2. /\ x \in 2 * u - b .. 2 * u + b /\ y \in 2 * v - b .. 2 * v + b /\ u \in Nat /\ v \in Nat
        /\ v - u >= m
    BY <1>3, <2>1
  <2>3. y - x = 2 * b * (spot(j) - spot(i))
    BY <1>1, <1>3
  <2> HIDE DEF x, y, u, v
  <2>4. y - x > 0
    BY <1>1, <2>2
  <2>5. spot(j) - spot(i) \in Int
    BY <1>3
  <2>6. spot(j) - spot(i) > 0
    <3> SUFFICES ASSUME spot(j) - spot(i) <= 0 PROVE FALSE
      BY <2>5
    <3>1. 2 * b * (spot(j) - spot(i)) <= 0
      BY <1>1, <2>5
    <3> QED
      BY <2>2, <2>3, <2>4, <3>1
  <2> QED
    BY <1>3, <2>6
<1>5. spot(0) = 0
  <2>1. 0 \in 0 .. b /\ 0 * m = 0
    BY <1>1
  <2>2. spot(0) \in Nat /\ 2 * b * spot(0) <= b
    BY <1>1, <1>3, <2>1
  <2>3. spot(0) >= 1 => 2 * b * spot(0) >= 2 * b
    BY <1>1, <2>2
  <2> QED
    BY <1>1, <2>2, <2>3
<1>6. spot(b) = m
  <2>1. b \in 0 .. b
    BY <1>1
  <2> DEFINE w == b * m
             z == b * spot(b)
  <2>2. /\ spot(b) \in Nat /\ w \in Nat /\ z \in Nat /\ 2 * z \in 2 * w - b .. 2 * w + b
    <3>1. 2 * b * spot(b) = 2 * z
      BY <1>1, <1>3, <2>1
    <3> QED
      BY <1>1, <1>3, <2>1, <3>1
  <2>3. z - w = b * (spot(b) - m)
    BY <1>1, <2>2
  <2> HIDE DEF w, z
  <2>4. z - w < b /\ w - z < b /\ spot(b) - m \in Int
    BY <1>1, <2>2
  <2>5. spot(b) - m >= 1 => b * (spot(b) - m) >= b
    BY <1>1, <2>4
  <2>6. spot(b) - m <= -1 => b * (spot(b) - m) <= -b
    BY <1>1, <2>4
  <2> QED
    BY <1>1, <2>2, <2>3, <2>4, <2>5, <2>6
<1>7. \A i \in 0 .. b : spot(i) \in 0 .. m
  <2> TAKE i \in 0 .. b
  <2>1. i < b \/ i = b
    BY <1>1
  <2>2. b \in 0 .. b
    BY <1>1
  <2> QED
    BY <1>1, <1>3, <1>4, <1>6, <2>1, <2>2
<1>8. IsFiniteSet(Places(n)) /\ Cardinality(Places(n)) = b + 1
  <2> DEFINE f == [i \in 0 .. b |-> spot(i)]
  <2>1. f \in Surjection(0 .. b, Places(n))
    BY <1>2 DEF Surjection
  <2>2. f \in Injection(0 .. b, Places(n))
    <3>1. \A i, j \in 0 .. b : i # j => spot(i) # spot(j)
      <4> SUFFICES ASSUME NEW i \in 0 .. b, NEW j \in 0 .. b, i # j PROVE spot(i) # spot(j)
        OBVIOUS
      <4>1. i < j \/ j < i
        BY <1>1
      <4> QED
        BY <1>3, <1>4, <4>1
    <3> QED
      BY <1>2, <3>1 DEF Injection, IsInjective
  <2>3. IsFiniteSet(0 .. b) /\ Cardinality(0 .. b) = b + 1
    BY <1>1, FS_Interval
  <2> HIDE DEF f
  <2> QED
    BY <2>1, <2>2, <2>3, FS_Surjection
<1>9. 0 \in Places(n) /\ m \in Places(n)
  <2>1. 0 \in 0 .. b /\ b \in 0 .. b
    BY <1>1
  <2> QED
    BY <1>2, <1>5, <1>6, <2>1
<1> QED
  BY <1>1, <1>2, <1>7, <1>8, <1>9 DEF m

(* Of each design enough tasks are chosen, an earliest and a latest one too. *)
Enough(list, i) ==
  LET pool == Pool(list, list[i].design)
      taken == pool \cap Chosen(list) IN
    /\ IsFiniteSet(taken) /\ Cardinality(taken) \in Nat
    /\ taken = pool \/ Cardinality(taken) >= PerDesign
    /\ \E j \in taken : list[j].depth <= list[i].depth
    /\ \E j \in taken : list[j].depth >= list[i].depth

LEMMA ChosenEnough ==
  ASSUME NEW list \in KeepLists, NEW i \in DOMAIN list
  PROVE  Enough(list, i)
<1> DEFINE pool == Pool(list, list[i].design)
           taken == pool \cap Chosen(list)
           n == Cardinality(pool)
<1>1. /\ pool \in SUBSET DOMAIN list /\ i \in pool
      /\ \A j \in pool : Pool(list, list[j].design) = pool /\ list[j].design = list[i].design
  BY DEF Pool
<1>2. /\ IsFiniteSet(pool) /\ n \in Nat
      /\ IsFiniteSet(taken) /\ Cardinality(taken) \in Nat
  <2>1. taken \in SUBSET DOMAIN list
    BY <1>1
  <2> QED
    BY <1>1, <2>1, ListFinite
<1>3. \A j \in pool : list[j].depth \in Nat
  BY <1>1, KeepListsAssumption
<1>4. taken = { j \in pool : n <= PerDesign \/ Earlier(list, pool, j) \in Places(n) }
  BY <1>1 DEF Chosen
<1> HIDE DEF pool, taken, n
<1>5. CASE n <= PerDesign
  <2>1. taken = pool
    BY <1>4, <1>5
  <2>2. list[i].depth <= list[i].depth /\ list[i].depth >= list[i].depth
    BY <1>1, <1>3
  <2> QED
    BY <1>1, <1>2, <2>1, <2>2 DEF pool, taken, Enough
<1>6. CASE n > PerDesign
  <2>1. /\ Places(n) \in SUBSET (0 .. n - 1) /\ 0 \in Places(n) /\ n - 1 \in Places(n)
        /\ IsFiniteSet(Places(n)) /\ Cardinality(Places(n)) = PerDesign
    BY <1>2, <1>6, PlacesSpread
  <2>2. taken = { j \in pool : Earlier(list, pool, j) \in Places(n) }
    BY <1>2, <1>4, <1>6, <2>1, SpreadAssumption
  <2>3. \A k \in 0 .. n - 1 : \E j \in pool : Earlier(list, pool, j) = k
    BY <1>1, EarlierNumbers DEF n
  <2>4. Cardinality(taken) >= PerDesign
    <3> DEFINE f == [j \in taken |-> Earlier(list, pool, j)]
    <3>1. f \in Surjection(taken, Places(n))
      <4>1. \A k \in Places(n) : \E j \in taken : f[j] = k
        BY <2>1, <2>2, <2>3
      <4>2. f \in [taken -> Places(n)]
        BY <2>2
      <4> HIDE DEF f
      <4> QED
        BY <4>1, <4>2 DEF Surjection
    <3> HIDE DEF f
    <3> QED
      BY <1>2, <2>1, <3>1, FS_Surjection
  <2>5. PICK a \in pool : Earlier(list, pool, a) = 0
    BY <2>1, <2>3
  <2>6. PICK z \in pool : Earlier(list, pool, z) = n - 1
    BY <2>1, <2>3
  <2>7. a \in taken /\ z \in taken
    BY <2>1, <2>2, <2>5, <2>6
  <2>8. list[a].depth <= list[i].depth
    <3>1. i = a \/ Before(list, i, a) \/ Before(list, a, i)
      BY <1>1, BeforeOrders
    <3>2. ASSUME Before(list, i, a) PROVE FALSE
      <4>1. Earlier(list, pool, i) < 0 /\ Earlier(list, pool, i) \in 0 .. n - 1
        BY <1>1, <2>5, <3>2, EarlierNumbers DEF n
      <4> QED
        BY <4>1
    <3>3. list[i].depth <= list[i].depth
      BY <1>1, <1>3
    <3> QED
      BY <1>1, <3>1, <3>2, <3>3, BeforeOrders
  <2>9. list[z].depth >= list[i].depth
    <3>1. i = z \/ Before(list, i, z) \/ Before(list, z, i)
      BY <1>1, BeforeOrders
    <3>2. ASSUME Before(list, z, i) PROVE FALSE
      <4>1. Earlier(list, pool, i) > n - 1 /\ Earlier(list, pool, i) \in 0 .. n - 1
        <5>1. Earlier(list, pool, z) < Earlier(list, pool, i)
          BY <1>1, <3>2, EarlierNumbers
        <5>2. Earlier(list, pool, i) \in 0 .. n - 1
          BY <1>1, EarlierNumbers DEF n
        <5> QED
          BY <2>6, <5>1, <5>2
      <4> QED
        BY <1>2, <4>1
    <3>3. Before(list, i, z) => list[i].depth <= list[z].depth
      BY <1>1, BeforeOrders
    <3>4. list[i].depth \in Nat /\ list[z].depth \in Nat
      BY <1>1, <1>3
    <3> QED
      BY <3>1, <3>2, <3>3, <3>4
  <2> QED
    BY <1>2, <2>4, <2>7, <2>8, <2>9 DEF pool, taken, Enough
<1> QED
  BY <1>2, <1>5, <1>6, SpreadAssumption

(* What the report shows of a list, if it cites all chosen tasks.           *)
LEMMA CitedEnough ==
  ASSUME NEW list \in KeepLists, NEW t \in ToSet(list), NEW cited,
         cited \subseteq { u \in ToSet(list) : u.design = t.design },
         \A j \in Chosen(list) : list[j].design = t.design => list[j] \in cited
  PROVE  /\ Cardinality(cited) >=
              Min({PerDesign, Cardinality({ u \in ToSet(list) : u.design = t.design })})
         /\ \E u \in cited : u.depth <= t.depth
         /\ \E u \in cited : u.depth >= t.depth
<1>1. PICK i \in DOMAIN list : t = list[i]
  BY DEF ToSet
<1> DEFINE pool == Pool(list, list[i].design)
           taken == pool \cap Chosen(list)
           own == { u \in ToSet(list) : u.design = t.design }
<1>2. /\ IsFiniteSet(taken) /\ Cardinality(taken) \in Nat
      /\ taken = pool \/ Cardinality(taken) >= PerDesign
      /\ \E j \in taken : list[j].depth <= list[i].depth
      /\ \E j \in taken : list[j].depth >= list[i].depth
  <2>1. Enough(list, i)
    BY ChosenEnough
  <2> QED
    BY <2>1 DEF Enough
<1>3. \A j \in taken : list[j] \in cited
  BY <1>1 DEF Pool
<1>4. pool \in SUBSET DOMAIN list /\ taken \in SUBSET pool /\ taken \in SUBSET DOMAIN list
  BY DEF Pool
<1>5. IsFiniteSet(pool) /\ Cardinality(pool) \in Nat
  BY <1>4, ListFinite
<1>6. own = { list[j] : j \in pool }
  BY <1>1 DEF Pool, ToSet
<1>7. cited \in SUBSET own
  OBVIOUS
<1> HIDE DEF taken, pool, own
<1>8. IsFiniteSet(own) /\ Cardinality(own) \in Nat /\ Cardinality(own) = Cardinality(pool)
  <2> DEFINE f == [j \in pool |-> list[j]]
  <2>1. f \in Surjection(pool, own)
    BY <1>6 DEF Surjection
  <2>2. f \in Injection(pool, own)
    <3>1. \A j, k \in pool : list[j] = list[k] => j = k
      BY <1>4, KeepListsAssumption
    <3> QED
      BY <1>6, <3>1 DEF Injection, IsInjective
  <2> HIDE DEF f
  <2> QED
    BY <1>5, <2>1, <2>2, FS_Surjection, FS_CardinalityType
<1>9. IsFiniteSet(cited) /\ Cardinality(cited) \in Nat
  BY <1>7, <1>8, FS_Subset, FS_CardinalityType
<1>10. Cardinality(cited) >= Cardinality(taken)
  <2> DEFINE f == [j \in taken |-> list[j]]
  <2>1. f \in Injection(taken, cited)
    <3>1. \A j, k \in taken : list[j] = list[k] => j = k
      BY <1>4, KeepListsAssumption
    <3> QED
      BY <1>3, <3>1 DEF Injection, IsInjective
  <2> HIDE DEF f
  <2> QED
    BY <1>9, <2>1, FS_Injection
<1>11. Cardinality(cited) >= Min({PerDesign, Cardinality(own)})
  <2>1. Cardinality(cited) >= PerDesign \/ Cardinality(cited) >= Cardinality(own)
    BY <1>2, <1>8, <1>9, <1>10, SpreadAssumption
  <2>2. /\ PerDesign \in Nat /\ Cardinality(own) \in Nat
        /\ Min({PerDesign, Cardinality(own)}) \in {PerDesign, Cardinality(own)}
        /\ \A x \in {PerDesign, Cardinality(own)} : Min({PerDesign, Cardinality(own)}) <= x
    <3> DEFINE S == {PerDesign, Cardinality(own)}
    <3>1. \E x \in S : \A y \in S : x <= y
      BY <1>8, SpreadAssumption
    <3> HIDE DEF S
    <3>2. Min(S) \in S /\ \A y \in S : Min(S) <= y
      BY <3>1 DEF Min
    <3> QED
      BY <1>8, <3>2, SpreadAssumption DEF S
  <2> QED
    BY <1>9, <2>1, <2>2
<1> QED
  BY <1>1, <1>2, <1>3, <1>11 DEF own

(* The matrix has each arm of each task, in cells of the corpus.            *)
PilotCells == Ids \X {"A", "B"}

LEMMA MatrixHas ==
  ASSUME NEW list \in KeepLists
  PROVE  LET tasks == Stratified(list) IN
         /\ Matrix(tasks) \in Seq(PilotCells) /\ Len(tasks) \in Nat
         /\ Len(Matrix(tasks)) = 2 * Len(tasks)
         /\ \A j \in 1 .. Len(tasks), arm \in {"A", "B"} :
              \E k \in 1 .. Len(Matrix(tasks)) : Matrix(tasks)[k] = <<tasks[j].id, arm>>
<1> DEFINE tasks == Stratified(list)
           n == Len(tasks)
<1>1. tasks \in Seq(ToSet(list)) /\ n \in Nat
  BY StratifiedHas
<1>2. \A j \in 1 .. n : tasks[j].id \in Ids
  BY <1>1 DEF Ids
<1>3. PilotArms[1] = "A" /\ PilotArms[2] = "B"
  BY DEF PilotArms
<1> HIDE DEF tasks
<1>4. ASSUME NEW k \in 1 .. 2 * n
      PROVE  (k + 1) \div 2 \in 1 .. n /\ 2 - (k % 2) \in {1, 2}
  BY <1>1
<1> DEFINE matrix == [k \in 1 .. 2 * n |-> <<tasks[(k + 1) \div 2].id, PilotArms[2 - (k % 2)]>>]
<1>5. Matrix(tasks) = matrix
  BY DEF Matrix
<1>6. \A k \in 1 .. 2 * n : matrix[k] \in PilotCells
  BY <1>2, <1>3, <1>4 DEF PilotCells
<1>7. matrix \in Seq(PilotCells) /\ Len(matrix) = 2 * n
  <2>1. 2 * n \in Nat
    BY <1>1
  <2> QED
    BY <1>6, <2>1
<1>8. ASSUME NEW j \in 1 .. n
      PROVE  /\ \E k \in 1 .. 2 * n : matrix[k] = <<tasks[j].id, "A">>
             /\ \E k \in 1 .. 2 * n : matrix[k] = <<tasks[j].id, "B">>
  <2>1. /\ 2 * j - 1 \in 1 .. 2 * n /\ (2 * j - 1 + 1) \div 2 = j /\ (2 * j - 1) % 2 = 1
        /\ 2 * j \in 1 .. 2 * n /\ (2 * j + 1) \div 2 = j /\ (2 * j) % 2 = 0
    BY <1>1
  <2>2. matrix[2 * j - 1] = <<tasks[j].id, "A">>
    BY <1>3, <2>1
  <2>3. matrix[2 * j] = <<tasks[j].id, "B">>
    BY <1>3, <2>1
  <2> QED
    BY <2>1, <2>2, <2>3
<1> HIDE DEF matrix
<1> QED
  BY <1>1, <1>5, <1>7, <1>8 DEF tasks

-----------------------------------------------------------------------------
(* THE REPORT OF VERIFY.PY                                                 *)

Reproduced(report) ==
  \A c \in Checks : c \in DOMAIN report.against.rows /\ report.against.rows[c] = report.rows[c]

(* What is frozen is a function from the checks, and is what was measured.  *)
HarnessInv ==
  /\ harness = [name |-> harness.name, selected |-> harness.selected,
                todo |-> harness.todo, rows |-> harness.rows]
  /\ harness.name \in {"verify", "freeze"} /\ harness.rows # <<>> =>
       harness.rows \in [Checks -> Measured]
  /\ harness.name = "frozen" =>
       harness.rows \in [Checks -> Measured] /\ golden = [is |-> "whole", rows |-> harness.rows]
  /\ Whole(verifyReport) /\ verifyReport.passed => Reproduced(verifyReport)

LEMMA HarnessStartInv ==
  ASSUME NEW list, NEW file, HarnessStart(list, file)
  PROVE  HarnessInv
BY DEF HarnessStart, HarnessInv, NoHarness, NoFile, Whole

LEMMA HarnessInitInv == HarnessInit => HarnessInv
BY HarnessStartInv DEF HarnessInit

LEMMA RowForm ==
  ASSUME HarnessInv, NEW verdict, NEW cached, Row(verdict, cached)
  PROVE  /\ harness'.name = harness.name
         /\ harness' = [name |-> harness'.name, selected |-> harness'.selected,
                        todo |-> harness'.todo, rows |-> harness'.rows]
BY DEF HarnessInv, Row

(* Steps that neither freeze nor report. *)
LEMMA OtherStep ==
  ASSUME HarnessInv, verifyReport' = verifyReport,
         harness' = [name |-> harness'.name, selected |-> harness'.selected,
                     todo |-> harness'.todo, rows |-> harness'.rows],
         \/ harness'.name \notin {"verify", "freeze", "frozen"}
         \/ harness'.name \in {"verify", "freeze"} /\ harness'.rows = <<>>
         \/ harness'.name \in {"verify", "freeze"} /\ harness'.rows \in [Checks -> Measured]
  PROVE  HarnessInv'
BY DEF HarnessInv, Reproduced

LEMMA NoHarnessForm ==
  /\ NoHarness = [name |-> NoHarness.name, selected |-> NoHarness.selected,
                  todo |-> NoHarness.todo, rows |-> NoHarness.rows]
  /\ NoHarness.name = "none"
BY DEF NoHarness

LEMMA ReportStep ==
  ASSUME HarnessInv, NEW passed, Report(passed),
         passed => Reproduced([rows |-> harness.rows, against |-> golden])
  PROVE  HarnessInv'
<1>1. /\ verifyReport' = [is |-> "whole", passed |-> passed, rows |-> harness.rows, against |-> golden]
      /\ harness' = NoHarness
  BY DEF Report
<1>2. verifyReport'.passed => Reproduced(verifyReport')
  BY <1>1 DEF Reproduced
<1> QED
  BY <1>1, <1>2, NoHarnessForm DEF HarnessInv

LEMMA HarnessStep == HarnessInv /\ [HarnessNext]_harnessVars => HarnessInv'
<1> SUFFICES ASSUME HarnessInv, [HarnessNext]_harnessVars PROVE HarnessInv'
  OBVIOUS
<1>1. ASSUME NEW name \in {"pilot", "ladder", "verify", "freeze"}, StartHarness(name)
      PROVE  HarnessInv'
  <2>1. PICK selected, todo :
          harness' = [name |-> name, selected |-> selected, todo |-> todo, rows |-> <<>>]
    BY <1>1 DEF StartHarness
  <2> QED
    BY <1>1, <2>1, OtherStep DEF StartHarness
<1>2. CASE Reuse \/ RunStub \/ ReadC1 \/ RunCondition
  <2>1. /\ harness.name \in {"pilot", "ladder"} /\ verifyReport' = verifyReport
        /\ \E verdict, cached : Row(verdict, cached)
    BY <1>2 DEF Reuse, RunStub, Transcribe, ReadC1, RunCondition
  <2> QED
    BY <2>1, RowForm, OtherStep
<1>3. CASE WritePilotReport \/ WriteLadderReport \/ GoldenMissing
  BY <1>3, NoHarnessForm, OtherStep DEF WritePilotReport, WriteLadderReport, GoldenMissing
<1>4. CASE Measure
  <2>1. PICK rows \in [Checks -> Measured] : harness' = [harness EXCEPT !.rows = rows]
    BY <1>4 DEF Measure
  <2>2. /\ harness' = [name |-> harness.name, selected |-> harness.selected,
                       todo |-> harness.todo, rows |-> rows]
        /\ harness.name \in {"verify", "freeze"} /\ verifyReport' = verifyReport
    BY <1>4, <2>1 DEF HarnessInv, Measure
  <2> QED
    BY <2>2, OtherStep
<1>5. CASE Freeze
  <2>1. /\ harness' = [harness EXCEPT !.name = "frozen"] /\ harness.rows \in [Checks -> Measured]
        /\ golden' = [is |-> "whole", rows |-> harness.rows] /\ verifyReport' = verifyReport
    BY <1>5 DEF Freeze, HarnessInv
  <2>2. harness' = [name |-> "frozen", selected |-> harness.selected,
                    todo |-> harness.todo, rows |-> harness.rows]
    BY <2>1 DEF HarnessInv
  <2> QED
    BY <2>1, <2>2 DEF HarnessInv, Reproduced
<1>6. CASE ReportFrozen
  <2>1. harness.rows \in [Checks -> Measured] /\ golden = [is |-> "whole", rows |-> harness.rows]
    BY <1>6 DEF ReportFrozen, HarnessInv
  <2>2. Reproduced([rows |-> harness.rows, against |-> golden])
    BY <2>1 DEF Reproduced
  <2> QED
    BY <1>6, <2>2, ReportStep DEF ReportFrozen
<1>7. CASE Compare
  <2>1. PICK slow \in BOOLEAN : Report(Failures = {} /\ ~slow)
    BY <1>7 DEF Compare
  <2>2. Failures = {} => Reproduced([rows |-> harness.rows, against |-> golden])
    BY DEF Failures, Reproduced
  <2> DEFINE passed == Failures = {} /\ ~slow
  <2>3. passed => Reproduced([rows |-> harness.rows, against |-> golden])
    BY <2>2
  <2> HIDE DEF passed
  <2>4. Report(passed)
    BY <2>1 DEF passed
  <2> QED
    BY <2>3, <2>4, ReportStep
<1>8. CASE HarnessStops
  <2>1. harness' = NoHarness /\ (verifyReport' = verifyReport \/ verifyReport' = HalfFile)
    BY <1>8 DEF HarnessStops
  <2>2. ~Whole(HalfFile)
    BY DEF Whole, HalfFile
  <2> QED
    BY <2>1, <2>2, NoHarnessForm DEF HarnessInv
<1>9. CASE OtherCorpus \/ HarnessDone \/ UNCHANGED harnessVars
  BY <1>9 DEF OtherCorpus, HarnessDone, harnessVars, HarnessInv, Reproduced
<1> QED
  BY <1>1, <1>2, <1>3, <1>4, <1>5, <1>6, <1>7, <1>8, <1>9 DEF HarnessNext

LEMMA ReportReproduced == HarnessInv => PassedIsReproduced
BY DEF HarnessInv, Reproduced, PassedIsReproduced

(* A report that says passed was compared with a golden file that has every *)
(* check with the result that was measured, whatever freezes and kills came *)
(* before and however many checks there are.                                *)
THEOREM PassedCorrect == HarnessSpec => []PassedIsReproduced
<1> QED
  BY ReportReproduced, HarnessInitInv, HarnessStep, PTL DEF HarnessSpec

-----------------------------------------------------------------------------
(* THE REPORTS OF THE PILOT AND THE VALIDATION                             *)

(* A verdict is cited as the transcript on disk has it; a transcript that   *)
(* is whole stays.                                                          *)
OnDisk(files, cell, verdict) ==
  cell \in PilotCells /\ Whole(files[cell]) /\ files[cell].verdict = verdict
Stays(files, new) ==
  DOMAIN new = PilotCells /\ \A cell \in PilotCells : Whole(files[cell]) => new[cell] = files[cell]

(* The cells that have been run or reused, and those that are left.         *)
Through(files, rows, todo, full) ==
  /\ full \in Seq(PilotCells) /\ todo \in Seq(PilotCells) /\ rows \in Seq(ToSet(rows))
  /\ Len(rows) + Len(todo) = Len(full)
  /\ \A k \in 1 .. Len(rows) : rows[k].of = full[k] /\ OnDisk(files, full[k], rows[k].verdict)
  /\ \A k \in 1 .. Len(todo) : todo[k] = full[Len(rows) + k]

(* The rows of the first condition cite the pilot's transcripts of arm A.   *)
FromPilot(files, rows) ==
  \A k \in 1 .. Len(rows) : rows[k].of[2] = "C1" => OnDisk(files, <<rows[k].of[1], "A">>, rows[k].verdict)
Validates(files, rows, todo) ==
  /\ todo \in Seq(Ids \X ToSet(Conditions)) /\ rows \in Seq(ToSet(rows))
  /\ FromPilot(files, rows)

Twice(tasks) == Matrix(tasks) \o Matrix(tasks)

(* What a pilot report that is on disk shows.                               *)
Shows(files, report) ==
  /\ report.list \in KeepLists
  /\ \A r \in ToSet(report.rows) : OnDisk(files, r.of, r.verdict)
  /\ \A j \in 1 .. Len(Stratified(report.list)), arm \in {"A", "B"} :
       \E r \in ToSet(report.rows) : r.of = <<Stratified(report.list)[j].id, arm>>

ReportsInv ==
  /\ keep \in KeepLists /\ DOMAIN transcripts = PilotCells
  /\ harness.name = "pilot" =>
       Through(transcripts, harness.rows, harness.todo, Twice(Stratified(keep)))
  /\ harness.name = "ladder" => Validates(transcripts, harness.rows, harness.todo)
  /\ Whole(pilotReport) => Shows(transcripts, pilotReport)
  /\ Whole(ladderReport) =>
       ladderReport.rows \in Seq(ToSet(ladderReport.rows)) /\ FromPilot(transcripts, ladderReport.rows)

LEMMA DiskStays ==
  ASSUME NEW files, NEW new, Stays(files, new), NEW cell, NEW verdict, OnDisk(files, cell, verdict)
  PROVE  OnDisk(new, cell, verdict)
BY DEF Stays, OnDisk

LEMMA ThroughStays ==
  ASSUME NEW files, NEW new, Stays(files, new), NEW rows, NEW todo, NEW full,
         Through(files, rows, todo, full)
  PROVE  Through(new, rows, todo, full)
BY DiskStays DEF Through

LEMMA FromPilotStays ==
  ASSUME NEW files, NEW new, Stays(files, new), NEW rows, FromPilot(files, rows)
  PROVE  FromPilot(new, rows)
BY DiskStays DEF FromPilot

LEMMA ShowsStays ==
  ASSUME NEW files, NEW new, Stays(files, new), NEW report, Shows(files, report)
  PROVE  Shows(new, report)
BY DiskStays DEF Shows

(* The first cell that is left moves to the rows. *)
LEMMA TailOf ==
  ASSUME NEW S, NEW todo \in Seq(S), todo # <<>>
  PROVE  /\ Head(todo) = todo[1] /\ Head(todo) \in S /\ Len(todo) \in Nat /\ Len(todo) >= 1
         /\ Tail(todo) \in Seq(S) /\ Len(Tail(todo)) = Len(todo) - 1
         /\ \A k \in 1 .. Len(todo) - 1 : Tail(todo)[k] = todo[k + 1]
OBVIOUS

LEMMA ThroughNext ==
  ASSUME NEW files, NEW rows, NEW todo, NEW full, Through(files, rows, todo, full), todo # <<>>,
         NEW row, row.of = Head(todo), OnDisk(files, row.of, row.verdict)
  PROVE  Through(files, Append(rows, row), Tail(todo), full)
<1> DEFINE new == Append(rows, row)
           left == Tail(todo)
<1>1. /\ new \in Seq(ToSet(new)) /\ Len(new) = Len(rows) + 1 /\ Len(rows) \in Nat
      /\ \A k \in 1 .. Len(rows) : new[k] = rows[k]
      /\ new[Len(rows) + 1] = row
  BY Grown DEF Through
<1>2. /\ Head(todo) = todo[1] /\ Len(todo) \in Nat /\ Len(todo) >= 1
      /\ left \in Seq(PilotCells) /\ Len(left) = Len(todo) - 1
      /\ \A k \in 1 .. Len(todo) - 1 : left[k] = todo[k + 1]
  BY TailOf DEF Through
<1> HIDE DEF new, left
<1>3. row.of = full[Len(rows) + 1]
  BY <1>1, <1>2 DEF Through
<1>4. \A k \in 1 .. Len(new) : new[k].of = full[k] /\ OnDisk(files, full[k], new[k].verdict)
  <2> TAKE k \in 1 .. Len(new)
  <2>1. k \in 1 .. Len(rows) \/ k = Len(rows) + 1
    BY <1>1
  <2>2. CASE k \in 1 .. Len(rows)
    BY <1>1, <2>2 DEF Through
  <2>3. CASE k = Len(rows) + 1
    BY <1>1, <1>3, <2>3
  <2> QED
    BY <2>1, <2>2, <2>3
<1>5. \A k \in 1 .. Len(left) : left[k] = full[Len(new) + k]
  <2> TAKE k \in 1 .. Len(left)
  <2>1. /\ k \in 1 .. Len(todo) - 1 /\ k + 1 \in 1 .. Len(todo)
        /\ Len(rows) + (k + 1) = Len(new) + k
    BY <1>1, <1>2
  <2>2. left[k] = todo[k + 1] /\ todo[k + 1] = full[Len(rows) + (k + 1)]
    BY <1>2, <2>1 DEF Through
  <2> QED
    BY <2>1, <2>2
<1>6. Len(new) + Len(left) = Len(full)
  <2>1. Len(rows) + Len(todo) = Len(full)
    BY DEF Through
  <2>2. Len(new) = Len(rows) + 1 /\ Len(rows) \in Nat
    BY <1>1
  <2>3. Len(left) = Len(todo) - 1 /\ Len(todo) \in Nat
    BY <1>2
  <2> QED
    BY <2>1, <2>2, <2>3
<1>7. full \in Seq(PilotCells)
  BY DEF Through
<1> QED
  BY <1>1, <1>2, <1>4, <1>5, <1>6, <1>7 DEF Through, new, left

LEMMA ValidatesNext ==
  ASSUME NEW files, NEW rows, NEW todo, Validates(files, rows, todo), todo # <<>>,
         NEW row, row.of = Head(todo),
         row.of[2] = "C1" => OnDisk(files, <<row.of[1], "A">>, row.verdict)
  PROVE  Validates(files, Append(rows, row), Tail(todo))
<1> DEFINE new == Append(rows, row)
<1>1. /\ new \in Seq(ToSet(new)) /\ Len(new) = Len(rows) + 1 /\ Len(rows) \in Nat
      /\ \A k \in 1 .. Len(rows) : new[k] = rows[k]
      /\ new[Len(rows) + 1] = row
  BY Grown DEF Validates
<1>2. Tail(todo) \in Seq(Ids \X ToSet(Conditions))
  BY TailOf DEF Validates
<1> HIDE DEF new
<1>3. \A k \in 1 .. Len(new) :
        new[k].of[2] = "C1" => OnDisk(files, <<new[k].of[1], "A">>, new[k].verdict)
  <2> TAKE k \in 1 .. Len(new)
  <2>1. k \in 1 .. Len(rows) \/ k = Len(rows) + 1
    BY <1>1
  <2>2. CASE k \in 1 .. Len(rows)
    BY <1>1, <2>2 DEF Validates, FromPilot
  <2>3. CASE k = Len(rows) + 1
    BY <1>1, <2>3
  <2> QED
    BY <2>1, <2>2, <2>3
<1> QED
  BY <1>1, <1>2, <1>3 DEF Validates, FromPilot, new

(* How the scripts start. *)
LEMMA ThroughStarts ==
  ASSUME NEW list \in KeepLists, NEW files
  PROVE  /\ Twice(Stratified(list)) \in Seq(PilotCells)
         /\ Len(Twice(Stratified(list))) = 2 * Len(Matrix(Stratified(list)))
         /\ Len(Matrix(Stratified(list))) \in Nat
         /\ \A k \in 1 .. Len(Matrix(Stratified(list))) :
              Twice(Stratified(list))[k] = Matrix(Stratified(list))[k]
         /\ Through(files, <<>>, Twice(Stratified(list)), Twice(Stratified(list)))
<1> DEFINE m == Matrix(Stratified(list))
           full == Twice(Stratified(list))
<1>1. m \in Seq(PilotCells)
  BY MatrixHas
<1>2. full = m \o m
  BY DEF Twice
<1> HIDE DEF m, full
<1>3. /\ full \in Seq(PilotCells) /\ Len(full) = 2 * Len(m) /\ Len(m) \in Nat
      /\ \A k \in 1 .. Len(m) : full[k] = m[k]
  BY <1>1, <1>2
<1>4. <<>> \in Seq(ToSet(<<>>)) /\ Len(<<>>) = 0
  OBVIOUS
<1>5. Through(files, <<>>, full, full)
  BY <1>3, <1>4 DEF Through
<1> QED
  BY <1>3, <1>5 DEF m, full

LEMMA ValidatesStarts ==
  ASSUME NEW list \in KeepLists, NEW files
  PROVE  Validates(files, <<>>, Todo("ladder", Stratified(list)))
<1> DEFINE tasks == Stratified(list)
           n == Len(tasks)
           todo == [k \in 1 .. 4 * n |-> <<tasks[((k - 1) % n) + 1].id, Conditions[((k - 1) \div n) + 1]>>]
<1>1. Todo("ladder", tasks) = todo
  BY DEF Todo
<1>2. tasks \in Seq(ToSet(list)) /\ n \in Nat
  BY StratifiedHas
<1>3. \A j \in 1 .. n : tasks[j].id \in Ids
  BY <1>2 DEF Ids
<1>4. \A j \in 1 .. 4 : Conditions[j] \in ToSet(Conditions)
  BY DEF Conditions, ToSet
<1> HIDE DEF tasks
<1>5. ASSUME NEW k \in 1 .. 4 * n
      PROVE  ((k - 1) % n) + 1 \in 1 .. n /\ ((k - 1) \div n) + 1 \in 1 .. 4
  <2>1. n > 0 /\ k - 1 \in 0 .. 4 * n - 1
    BY <1>2
  <2> DEFINE q == (k - 1) \div n
  <2>2. (k - 1) % n \in 0 .. n - 1 /\ q \in Int /\ k - 1 = n * q + ((k - 1) % n)
    BY <1>2, <2>1
  <2> HIDE DEF q
  <2>3. q >= 0
    <3>1. q <= -1 => n * q <= -n
      BY <1>2, <2>1, <2>2
    <3> QED
      BY <1>2, <2>1, <2>2, <3>1
  <2>4. q <= 3
    <3>1. q >= 4 => n * q >= 4 * n
      BY <1>2, <2>1, <2>2
    <3> QED
      BY <1>2, <2>1, <2>2, <3>1
  <2> QED
    BY <1>2, <2>2, <2>3, <2>4 DEF q
<1>6. todo \in Seq(Ids \X ToSet(Conditions))
  <2>1. \A k \in 1 .. 4 * n : todo[k] \in Ids \X ToSet(Conditions)
    BY <1>3, <1>4, <1>5
  <2>2. 4 * n \in Nat /\ DOMAIN todo = 1 .. 4 * n /\ todo = [k \in 1 .. 4 * n |-> todo[k]]
    BY <1>2
  <2> HIDE DEF todo, n
  <2> QED
    BY <2>1, <2>2
<1>7. <<>> \in Seq(ToSet(<<>>)) /\ Len(<<>>) = 0
  OBVIOUS
<1> QED
  BY <1>1, <1>6, <1>7 DEF Validates, FromPilot, tasks

(* When all cells are through, the first pass has every chosen task.        *)
LEMMA FirstPassShows ==
  ASSUME NEW list \in KeepLists, NEW files, NEW rows,
         Through(files, rows, <<>>, Twice(Stratified(list))),
         NEW report, report = [is |-> "whole", list |-> list, rows |-> SubSeq(rows, 1, Len(rows) \div 2)]
  PROVE  Shows(files, report)
<1> DEFINE m == Matrix(Stratified(list))
           full == Twice(Stratified(list))
           first == SubSeq(rows, 1, Len(m))
<1>1. /\ Len(full) = 2 * Len(m) /\ Len(m) \in Nat
      /\ \A k \in 1 .. Len(m) : full[k] = m[k]
  BY ThroughStarts
<1>2. /\ rows \in Seq(ToSet(rows)) /\ Len(rows) = 2 * Len(m)
      /\ \A k \in 1 .. Len(rows) : rows[k].of = full[k] /\ OnDisk(files, full[k], rows[k].verdict)
  BY <1>1 DEF Through
<1>3. /\ \A j \in 1 .. Len(Stratified(list)), arm \in {"A", "B"} :
           \E k \in 1 .. Len(m) : m[k] = <<Stratified(list)[j].id, arm>>
  BY MatrixHas
<1>4. Len(rows) \div 2 = Len(m) /\ report.list = list /\ report.rows = first
  BY <1>1, <1>2
<1> HIDE DEF m, full
<1>5. Len(first) = Len(m) /\ DOMAIN first = 1 .. Len(m) /\ \A k \in 1 .. Len(m) : first[k] = rows[k]
  <2> DEFINE n == Len(m)
  <2>1. rows \in Seq(ToSet(rows)) /\ n \in Nat /\ n <= Len(rows)
    BY <1>1, <1>2
  <2> HIDE DEF n
  <2> QED
    BY ONLY <2>1 DEF n
<1> HIDE DEF first
<1>6. \A k \in 1 .. Len(m) :
        first[k].of = m[k] /\ OnDisk(files, first[k].of, first[k].verdict) /\ first[k] \in ToSet(first)
  <2> TAKE k \in 1 .. Len(m)
  <2>1. first[k] \in ToSet(first) /\ first[k] = rows[k] /\ full[k] = m[k]
    BY <1>1, <1>5 DEF ToSet
  <2>2. k \in 1 .. Len(rows)
    BY <1>1, <1>2
  <2> QED
    BY <1>2, <2>1, <2>2
<1>7. \A r \in ToSet(first) : OnDisk(files, r.of, r.verdict)
  BY <1>5, <1>6 DEF ToSet
<1>8. \A j \in 1 .. Len(Stratified(list)), arm \in {"A", "B"} :
        \E r \in ToSet(first) : r.of = <<Stratified(list)[j].id, arm>>
  BY <1>3, <1>6
<1> QED
  BY <1>4, <1>7, <1>8 DEF Shows

(* What is on disk goes on being what the reports cite.                     *)
LEMMA ReportsStay ==
  ASSUME ReportsInv, Stays(transcripts, transcripts')
  PROVE  /\ Whole(pilotReport) => Shows(transcripts', pilotReport)
         /\ Whole(ladderReport) =>
              ladderReport.rows \in Seq(ToSet(ladderReport.rows))
              /\ FromPilot(transcripts', ladderReport.rows)
BY ShowsStays, FromPilotStays DEF ReportsInv

(* A transcript that was not whole is written. *)
LEMMA Written ==
  ASSUME NEW files, DOMAIN files = PilotCells, NEW cell \in PilotCells, ~Whole(files[cell]), NEW file
  PROVE  Stays(files, [files EXCEPT ![cell] = file])
BY DEF Stays

LEMMA Untouched ==
  ASSUME NEW files, DOMAIN files = PilotCells
  PROVE  Stays(files, files)
BY DEF Stays

(* One more cell. *)
LEMMA RowsOf ==
  ASSUME HarnessInv, NEW verdict, NEW cached, Row(verdict, cached)
  PROVE  \E row : /\ row.of = Head(harness.todo) /\ row.verdict = verdict
                  /\ harness'.name = harness.name
                  /\ harness'.rows = Append(harness.rows, row)
                  /\ harness'.todo = Tail(harness.todo)
<1> DEFINE row == [of |-> Head(harness.todo), verdict |-> verdict, cached |-> cached]
<1>1. harness' = [harness EXCEPT !.todo = Tail(@), !.rows = Append(@, row)]
  BY DEF Row
<1>2. row.of = Head(harness.todo) /\ row.verdict = verdict
  OBVIOUS
<1> HIDE DEF row
<1>3. /\ harness'.name = harness.name /\ harness'.rows = Append(harness.rows, row)
      /\ harness'.todo = Tail(harness.todo)
  BY <1>1 DEF HarnessInv
<1> QED
  BY <1>2, <1>3

LEMMA PilotRow ==
  ASSUME ReportsInv, HarnessInv, harness.name = "pilot", harness.todo # <<>>,
         NEW verdict, NEW cached, Row(verdict, cached),
         Stays(transcripts, transcripts'),
         OnDisk(transcripts', Head(harness.todo), verdict),
         UNCHANGED <<keep, pilotReport, ladderReport>>
  PROVE  ReportsInv'
<1>1. PICK row : /\ row.of = Head(harness.todo) /\ row.verdict = verdict
                 /\ harness'.name = harness.name
                 /\ harness'.rows = Append(harness.rows, row)
                 /\ harness'.todo = Tail(harness.todo)
  BY RowsOf
<1> DEFINE full == Twice(Stratified(keep))
<1>2. Through(transcripts', harness.rows, harness.todo, full)
  BY ThroughStays DEF ReportsInv
<1> HIDE DEF full
<1>3. Through(transcripts', harness'.rows, harness'.todo, full)
  BY <1>1, <1>2, ThroughNext
<1>4. Through(transcripts', harness'.rows, harness'.todo, Twice(Stratified(keep')))
  BY <1>3 DEF full
<1>5. DOMAIN transcripts' = PilotCells
  BY DEF Stays
<1>6. harness'.name # "ladder" /\ keep' \in KeepLists
  BY <1>1 DEF ReportsInv
<1> QED
  BY <1>4, <1>5, <1>6, ReportsStay DEF ReportsInv

LEMMA LadderRow ==
  ASSUME ReportsInv, HarnessInv, harness.name = "ladder", harness.todo # <<>>,
         NEW verdict, NEW cached, Row(verdict, cached),
         Head(harness.todo)[2] = "C1" => OnDisk(transcripts, <<Head(harness.todo)[1], "A">>, verdict),
         UNCHANGED <<keep, transcripts, pilotReport, ladderReport>>
  PROVE  ReportsInv'
<1>1. PICK row : /\ row.of = Head(harness.todo) /\ row.verdict = verdict
                 /\ harness'.name = harness.name
                 /\ harness'.rows = Append(harness.rows, row)
                 /\ harness'.todo = Tail(harness.todo)
  BY RowsOf
<1>2. Validates(transcripts, harness.rows, harness.todo)
  BY DEF ReportsInv
<1>3. Validates(transcripts', harness'.rows, harness'.todo)
  BY <1>1, <1>2, ValidatesNext
<1> QED
  BY <1>1, <1>3 DEF ReportsInv

LEMMA ReportsStep == HarnessInv /\ ReportsInv /\ [HarnessNext]_harnessVars => ReportsInv'
<1> SUFFICES ASSUME HarnessInv, ReportsInv, [HarnessNext]_harnessVars PROVE ReportsInv'
  OBVIOUS
<1>0. DOMAIN transcripts = PilotCells /\ keep \in KeepLists
  BY DEF ReportsInv
<1>1. ASSUME NEW name \in {"pilot", "ladder", "verify", "freeze"}, StartHarness(name)
      PROVE  ReportsInv'
  <2>1. /\ harness'.name = name /\ harness'.rows = <<>>
        /\ harness'.todo = Todo(name, Stratified(keep))
        /\ UNCHANGED <<keep, transcripts, pilotReport, ladderReport>>
    BY <1>1 DEF StartHarness
  <2>2. CASE name = "pilot"
    <3>1. Todo(name, Stratified(keep)) = Twice(Stratified(keep))
      BY <2>2 DEF Todo, Twice
    <3>2. Through(transcripts', harness'.rows, harness'.todo, Twice(Stratified(keep')))
      BY <1>0, <2>1, <3>1, ThroughStarts
    <3> QED
      BY <2>1, <2>2, <3>2 DEF ReportsInv
  <2>3. CASE name = "ladder"
    <3>1. Validates(transcripts', harness'.rows, harness'.todo)
      BY <1>0, <2>1, <2>3, ValidatesStarts
    <3> QED
      BY <2>1, <2>3, <3>1 DEF ReportsInv
  <2>4. CASE name \in {"verify", "freeze"}
    BY <2>1, <2>4 DEF ReportsInv
  <2> QED
    BY <2>2, <2>3, <2>4
<1>2. CASE Reuse
  <2>1. /\ harness.name = "pilot" /\ harness.todo # <<>>
        /\ Whole(transcripts[Head(harness.todo)])
        /\ Row(transcripts[Head(harness.todo)].verdict, TRUE)
        /\ UNCHANGED <<keep, transcripts, pilotReport, ladderReport>>
    BY <1>2 DEF Reuse
  <2>2. Head(harness.todo) \in PilotCells
    BY <2>1, TailOf DEF ReportsInv, Through
  <2>3. OnDisk(transcripts', Head(harness.todo), transcripts[Head(harness.todo)].verdict)
    BY <2>1, <2>2 DEF OnDisk
  <2> QED
    BY <1>0, <2>1, <2>3, Untouched, PilotRow
<1>3. CASE RunStub
  <2>1. PICK verdict : /\ harness.name = "pilot" /\ harness.todo # <<>>
        /\ ~Whole(transcripts[Head(harness.todo)])
        /\ transcripts' = [transcripts EXCEPT ![Head(harness.todo)] = [is |-> "whole", verdict |-> verdict]]
        /\ Row(verdict, FALSE)
        /\ UNCHANGED <<keep, pilotReport, ladderReport>>
    BY <1>3 DEF RunStub, Transcribe
  <2>2. Head(harness.todo) \in PilotCells
    BY <2>1, TailOf DEF ReportsInv, Through
  <2>3. OnDisk(transcripts', Head(harness.todo), verdict)
    BY <1>0, <2>1, <2>2 DEF OnDisk, Whole
  <2>4. Stays(transcripts, transcripts')
    BY <1>0, <2>1, <2>2, Written
  <2> QED
    BY <2>1, <2>3, <2>4, PilotRow
<1>4. CASE WritePilotReport
  <2>1. /\ harness.name = "pilot" /\ harness.todo = <<>>
        /\ pilotReport' = [is |-> "whole", list |-> keep,
                           rows |-> SubSeq(harness.rows, 1, Len(harness.rows) \div 2)]
        /\ harness'.name = "none" /\ UNCHANGED <<keep, transcripts, ladderReport>>
    BY <1>4, NoHarnessForm DEF WritePilotReport
  <2>2. Through(transcripts, harness.rows, <<>>, Twice(Stratified(keep)))
    BY <2>1 DEF ReportsInv
  <2>3. Shows(transcripts, pilotReport')
    BY <1>0, <2>1, <2>2, FirstPassShows
  <2> QED
    BY <2>1, <2>3 DEF ReportsInv
<1>5. CASE ReadC1
  <2>1. /\ harness.name = "ladder" /\ harness.todo # <<>>
        /\ Whole(transcripts[<<Head(harness.todo)[1], "A">>])
        /\ Row(transcripts[<<Head(harness.todo)[1], "A">>].verdict, TRUE)
        /\ UNCHANGED <<keep, transcripts, pilotReport, ladderReport>>
    BY <1>5 DEF ReadC1
  <2>2. Head(harness.todo) \in Ids \X ToSet(Conditions)
    BY <2>1, TailOf DEF ReportsInv, Validates
  <2>3. <<Head(harness.todo)[1], "A">> \in PilotCells
    BY <2>2 DEF PilotCells
  <2>4. OnDisk(transcripts, <<Head(harness.todo)[1], "A">>, transcripts[<<Head(harness.todo)[1], "A">>].verdict)
    BY <2>1, <2>3 DEF OnDisk
  <2> QED
    BY <2>1, <2>4, LadderRow
<1>6. CASE RunCondition
  <2>1. PICK verdict \in Judged(Head(harness.todo)) :
          /\ harness.name = "ladder" /\ harness.todo # <<>> /\ Row(verdict, FALSE)
          /\ UNCHANGED <<keep, transcripts, pilotReport, ladderReport>>
    BY <1>6 DEF RunCondition
  <2>2. Head(harness.todo)[2] # "C1"
    BY <2>1 DEF Judged
  <2> QED
    BY <2>1, <2>2, LadderRow
<1>7. CASE WriteLadderReport
  <2>1. /\ harness.name = "ladder" /\ ladderReport' = [is |-> "whole", rows |-> harness.rows]
        /\ harness'.name = "none" /\ UNCHANGED <<keep, transcripts, pilotReport>>
    BY <1>7, NoHarnessForm DEF WriteLadderReport
  <2>2. harness.rows \in Seq(ToSet(harness.rows)) /\ FromPilot(transcripts, harness.rows)
    BY <2>1 DEF ReportsInv, Validates
  <2> QED
    BY <2>1, <2>2 DEF ReportsInv
<1>8. CASE Measure
  <2>1. /\ harness.name \in {"verify", "freeze"} /\ harness'.name = harness.name
        /\ UNCHANGED <<keep, transcripts, pilotReport, ladderReport>>
    BY <1>8 DEF Measure, HarnessInv
  <2> QED
    BY <2>1 DEF ReportsInv
<1>9. CASE Freeze
  <2>1. harness'.name = "frozen" /\ UNCHANGED <<keep, transcripts, pilotReport, ladderReport>>
    BY <1>9 DEF Freeze, HarnessInv
  <2> QED
    BY <2>1 DEF ReportsInv
<1>10. CASE ReportFrozen \/ GoldenMissing \/ Compare
  <2>1. harness'.name = "none" /\ UNCHANGED <<keep, transcripts, pilotReport, ladderReport>>
    BY <1>10, NoHarnessForm DEF ReportFrozen, GoldenMissing, Compare, Report
  <2> QED
    BY <2>1 DEF ReportsInv
<1>11. CASE HarnessStops
  <2>1. harness'.name = "none" /\ keep' = keep
    BY <1>11, NoHarnessForm DEF HarnessStops
  <2>2. Stays(transcripts, transcripts')
    <3>1. CASE transcripts' = transcripts
      BY <1>0, <3>1, Untouched
    <3>2. CASE /\ harness.name = "pilot" /\ harness.todo # <<>>
               /\ ~Whole(transcripts[Head(harness.todo)])
               /\ transcripts' = [transcripts EXCEPT ![Head(harness.todo)] = HalfFile]
      <4>1. Head(harness.todo) \in PilotCells
        BY <3>2, TailOf DEF ReportsInv, Through
      <4> QED
        BY <1>0, <3>2, <4>1, Written
    <3> QED
      BY <1>11, <3>1, <3>2 DEF HarnessStops
  <2>3. /\ pilotReport' = pilotReport \/ ~Whole(pilotReport')
        /\ ladderReport' = ladderReport \/ ~Whole(ladderReport')
    BY <1>11 DEF HarnessStops, HalfFile, Whole
  <2>4. DOMAIN transcripts' = PilotCells
    BY <2>2 DEF Stays
  <2> QED
    BY <1>0, <2>1, <2>2, <2>3, <2>4, ReportsStay DEF ReportsInv
<1>12. CASE OtherCorpus
  <2>1. /\ harness' = harness /\ harness.name = "none" /\ keep' \in KeepLists
        /\ UNCHANGED <<transcripts, pilotReport, ladderReport>>
    BY <1>12, NoHarnessForm DEF OtherCorpus
  <2> QED
    BY <2>1 DEF ReportsInv
<1>13. CASE HarnessDone \/ UNCHANGED harnessVars
  BY <1>13 DEF HarnessDone, harnessVars, ReportsInv
<1> QED
  BY <1>1, <1>2, <1>3, <1>4, <1>5, <1>6, <1>7, <1>8, <1>9, <1>10, <1>11, <1>12, <1>13 DEF HarnessNext

LEMMA ReportsStart ==
  ASSUME NEW list \in KeepLists, NEW file, HarnessStart(list, file)
  PROVE  ReportsInv
<1>1. /\ keep = list /\ DOMAIN transcripts = PilotCells
      /\ ~Whole(pilotReport) /\ ~Whole(ladderReport) /\ harness.name = "none"
  BY NoHarnessForm DEF HarnessStart, NoFile, Whole, PilotCells, PilotArms, ToSet
<1> QED
  BY <1>1 DEF ReportsInv

LEMMA ReportsShown == ReportsInv => ReportsTrue
<1> SUFFICES ASSUME ReportsInv PROVE ReportsTrue
  OBVIOUS
<1>1. ASSUME Whole(pilotReport), NEW row \in ToSet(pilotReport.rows)
      PROVE  transcripts[row.of].is = "whole" /\ transcripts[row.of].verdict = row.verdict
  BY <1>1 DEF ReportsInv, Shows, OnDisk, Whole
<1>2. ASSUME Whole(pilotReport), NEW t \in ToSet(pilotReport.list)
      PROVE  LET rows == ToSet(pilotReport.rows)
                 own == { u \in ToSet(pilotReport.list) : u.design = t.design }
                 cited == { u \in own : \A arm \in {"A", "B"} : \E r \in rows : r.of = <<u.id, arm>> } IN
             /\ Cardinality(cited) >= Min({PerDesign, Cardinality(own)})
             /\ \E u \in cited : u.depth <= t.depth
             /\ \E u \in cited : u.depth >= t.depth
  <2> DEFINE list == pilotReport.list
             rows == ToSet(pilotReport.rows)
             own == { u \in ToSet(pilotReport.list) : u.design = t.design }
             cited == { u \in own : \A arm \in {"A", "B"} : \E r \in rows : r.of = <<u.id, arm>> }
  <2>1. /\ list \in KeepLists
        /\ \A j \in 1 .. Len(Stratified(list)), arm \in {"A", "B"} :
             \E r \in rows : r.of = <<Stratified(list)[j].id, arm>>
    BY <1>2 DEF ReportsInv, Shows
  <2>2. ASSUME NEW j \in Chosen(list), list[j].design = t.design PROVE list[j] \in cited
    <3>1. PICK k \in 1 .. Len(Stratified(list)) : Stratified(list)[k] = list[j]
      BY <2>1, StratifiedHas
    <3>2. list[j] \in ToSet(list)
      BY DEF Chosen, ToSet
    <3> QED
      BY <2>1, <2>2, <3>1, <3>2
  <2>3. cited \subseteq own
    OBVIOUS
  <2> HIDE DEF cited
  <2> QED
    BY <2>1, <2>2, <2>3, CitedEnough DEF cited
<1>3. ASSUME Whole(ladderReport), NEW row \in ToSet(ladderReport.rows), row.of[2] = "C1"
      PROVE  transcripts[<<row.of[1], "A">>].verdict = row.verdict
  <2>1. PICK k \in 1 .. Len(ladderReport.rows) : row = ladderReport.rows[k]
    BY <1>3 DEF ReportsInv, ToSet
  <2> QED
    BY <1>3, <2>1 DEF ReportsInv, FromPilot, OnDisk
<1> QED
  BY <1>1, <1>2, <1>3 DEF ReportsTrue

(* Whatever is reused, killed or generated anew, a pilot report on disk     *)
(* shows of each design an earliest, a latest and enough tasks in both      *)
(* arms, and both reports cite the verdict that the transcript has, for     *)
(* corpora and selections of any size.                                      *)
THEOREM ReportsTrueCorrect == HarnessSpec => []ReportsTrue
<1>1. HarnessInit => HarnessInv /\ ReportsInv
  BY HarnessInitInv, ReportsStart DEF HarnessInit
<1>2. (HarnessInv /\ ReportsInv) /\ [HarnessNext]_harnessVars => (HarnessInv /\ ReportsInv)'
  BY HarnessStep, ReportsStep
<1> QED
  BY <1>1, <1>2, ReportsShown, PTL DEF HarnessSpec

-----------------------------------------------------------------------------
(* ALL OF THEM                                                             *)

(* The batch driver behaves as SmokeBatch says, whatever part is looked at. *)
LEMMA BatchRuns == Spec => SmokeSpec
<1>1. Init => SmokeInit
  BY DEF Init
<1>2. [Next]_vars => [SmokeNext]_smokeVars
  BY DEF Next, Batch, Publishing, Stubs, vars
<1> QED
  BY <1>1, <1>2, PTL DEF Spec, SmokeSpec

(* While another part is looked at, no page is written.                     *)
PartsInv ==
  /\ part = "publish" => PublishInv /\ RatesInv
  /\ part # "publish" => RatesOrdered
  /\ part # "publish" => page = Torn
  /\ HarnessInv /\ ReportsInv

LEMMA PartsStep == PartsInv /\ [Next]_vars => PartsInv'
<1> SUFFICES ASSUME PartsInv, [Next]_vars PROVE PartsInv'
  OBVIOUS
<1>1. part' = part
  BY DEF Next, Batch, Publishing, Stubs, vars
<1>2. (part = "publish" /\ [PublishNext]_publishVars) \/ UNCHANGED publishVars
  BY DEF Next, Batch, Publishing, Stubs, vars
<1>3. [HarnessNext]_harnessVars
  BY DEF Next, Batch, Publishing, Stubs, vars
<1>4. HarnessInv' /\ ReportsInv'
  BY <1>3, HarnessStep, ReportsStep DEF PartsInv
<1>5. part = "publish" => PublishInv' /\ RatesInv'
  BY <1>2, PublishStep, RatesStep DEF PartsInv, publishVars
<1>6. part # "publish" => page' = page /\ stats' = stats
  BY <1>2 DEF publishVars
<1> QED
  BY <1>1, <1>4, <1>5, <1>6 DEF PartsInv, RatesOrdered

(* What the run Scripts checks, and these proofs show, of one part at a     *)
(* time holds of the composition.                                           *)
THEOREM ScriptsCorrect ==
  Spec => /\ [](SummaryAgrees /\ PageCountsAgree /\ PageOfCommit /\ RatesOrdered)
          /\ [](ReportsTrue /\ PassedIsReproduced)
          /\ KeepsCompleted
<1>1. Init => PartsInv
  <2> SUFFICES ASSUME Init PROVE PartsInv
    OBVIOUS
  <2>1. HarnessInv /\ ReportsInv
    BY HarnessStartInv, ReportsStart, CorpusAssumption DEF Init, HarnessInit
  <2>2. part = "publish" => PublishInv /\ RatesInv
    BY PublishInitInv, RatesStart DEF Init, PublishInit
  <2>3. part # "publish" => page = Torn
    BY DEF Init, PublishStart
  <2>4. part # "publish" => RatesOrdered
    BY CorpusAssumption, RatesStart DEF Init, RatesInv
  <2> QED
    BY <2>1, <2>2, <2>3, <2>4 DEF PartsInv
<1>2. PartsInv => PageCountsAgree /\ PageOfCommit /\ RatesOrdered /\ ReportsTrue /\ PassedIsReproduced
  <2>1. page = Torn => PageCountsAgree
    BY DEF PageCountsAgree
  <2>2. page = Torn => PageOfCommit
    BY DEF PageOfCommit
  <2> QED
    BY <2>1, <2>2, PageCounts, PageShown, ReportReproduced, ReportsShown DEF PartsInv, RatesInv
<1>3. Spec => []PartsInv
  BY <1>1, PartsStep, PTL DEF Spec
<1>4. Spec => [](PageCountsAgree /\ PageOfCommit /\ RatesOrdered /\ ReportsTrue /\ PassedIsReproduced)
  BY <1>2, <1>3, PTL
<1>5. Spec => []SummaryAgrees
  BY BatchRuns, SummaryCorrect, PTL
<1>6. Spec => KeepsCompleted
  BY BatchRuns, KeepsCompletedCorrect, PTL
<1> QED
  BY <1>4, <1>5, <1>6, PTL
=============================================================================
