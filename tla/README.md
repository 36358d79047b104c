# rtlverdict in TLA+

A verification development of `rtlverdict`: the harness that mutates Verilog
designs, judges the mutants by simulation and bounded model checking, hands the
confirmed bugs to a language-model agent and judges the patches it submits.
The modules here state what its parts promise, TLC checks them on small
instances, and TLAPS proves the most important statements for all values of the
constants. Paths below are relative to the repository; `rtlverdict/` is the
Python package.

## The system

| part | state it keeps | operations | talks to |
|---|---|---|---|
| task run: `agent/loop.py`, `agent/trajectory.py` | the loop counter, wall clock, token totals, the conversation, the submission, `stop_reason`; `trajectory.json` | `run_task`: ask, call tools, nudge, submit, pre-check, judge, write | provider, tools, pre-check, ladder |
| provider adapters: `agent/providers.py` | none (they append to the conversation) | request, append assistant turn, append tool results | an HTTP endpoint |
| patch pre-check: `agent/patch_check.py` | none | four checks in order | pyslang, Icarus |
| investigation tools: `agent/tools.py`, `witness/` | `ToolContext` for one run; two trace files per task directory, which outlive the run | `run_test`, `wave_query`, `diff_traces`, `cone_of_influence`, `suspect_rank` | Icarus, the trace files |
| verdict ladder: `verdict/ladder.py`, `verdict/miter.py` | the sby process tree, its output | `check_bmc`: miter, spawn, wait, time out, kill, classify | sby, yosys, yices; taskkill |
| pre-flight sweep: `env.py` | what its process query returned | kill every process with a solver's name | the process table |
| batch driver: `agent/run_smoke.py` | the pending list, the results; one `trajectory.json` per task and arm, `summary.json` | select, look up the cache, confirm the cost, run, summarise | task run, the files |
| corpus generation: `forge/corpus.py`, `forge/generate_fifo_corpus.py` | `seen_hashes`, counts, records; one file per mutant, `tasks.json` | per candidate: deduplicate, fidelity, simulate, check, decide | operators, simulation, ladder |
| deep search: `forge/deep_bmc_promote.py` | the promotions; `deep_bmc_promotions.json` | re-check what is quarantined, deeper | `tasks.json`, mutant files, ladder |
| mutation operators: `forge/operators/`, `forge/parser.py` | none | each operator proposes candidates for one source; `corpus.py` applies all six | pyslang, corpus generation |
| publishing: `scripts/build_stats.py`, `make_charts.py`, `build_dashboard.py` | `corpus_stats.json`, four figures, `docs/index.html` | read the corpora section by section, assert, draw, check git, compare, write | `tasks.json`, git, each other's files |
| stub scripts: `scripts/agent_pilot_plumbing.py`, `verdict_ladder_validation.py`, `verify.py` | transcripts, three reports, `verify_golden.json` | select, run or reuse, judge, freeze, compare, report | task run with a stub for the model, ladder, each other's files |
| four golden designs: `designs/*/` | their registers | one clock edge | their testbench, the miter |

Control is sequential inside each driver. What makes the system hard is outside
it: requests and solvers of any duration, processes that survive their parents,
two drivers on one machine, drivers killed in the middle of a write and started
again on the files they left, stages that raise, sources that change between
runs, memory that is kept between tool calls, and, in the designs, inputs that
arrive at every edge and pointers that wrap. `PROJECT.json` lists these hazards
line by line, with the properties that answer each.

What makes each part correct, in a sentence:

* **task run**: it ends; it records one verdict at most, and only one the
  submitted patch justifies; its caps are exceeded by no more than one turn (of the
  clock: by the shortest timeout of a request and the tools of one turn);
  `stop_reason` names what happened; the conversation stays well-formed.
* **ladder and sweep**: REFUTED and PROVEN-BMC are returned only when true,
  whoever kills what; a check that is waited for returns; nothing of an earlier
  check shares the machine with a later one.
* **batch driver**: the summary agrees with the files; nothing an earlier
  invocation completed is paid for again; what was killed is run again.
* **corpus and deep search**: no candidate is lost or counted twice; decisions
  are true of the mutant; a record and the file it names are about one mutant.
* **tools**: no answer from another run's trace; signal and time of a ranking
  belong to one divergence unless the agent names the signal; a trace says what
  its dump says; the divergence found is the first; the slice has every line that
  matters.
* **operators**: no two candidates are one text and none is the golden text; a
  perturbed literal is one more than it was.
* **publishing**: the numbers of a page are those of the tasks it lists, and the
  page is what its commit holds unless a commit or the forge comes in between; the
  rates are in the order they are cited for.
* **stub scripts**: a report cites what is on disk, of a selection with the
  extremes of every design; passed means compared and equal, check by check.
* **designs and miter**: the designs do what they are for, and the miter judges
  golden equal to itself, so that a refutation is about the mutant.

## Modules

| module | models | correspondence |
|---|---|---|
| `TaskRun` | what a task run promises | `status`, `submission`, `verdict`; actions Submit, Record, Abort |
| `AgentLoop` | `run_task` with its providers and pre-check | `pc` is the place in the function; `turns` is `i`, `tokens` the two totals, `messages` the conversation reduced to roles and call ids, `disk` is `trajectory.json`; one action per way to pass or leave a place |
| `SolverProcs` | `check_bmc`/`_run_sby` of several batches, the sweep, the process table | `mode[b]` is where batch `b` is, `live[c]` the kinds of process of check `c` that run, `log[b]` what the sby it waits for printed; sby, its children and taskkill are external |
| `SmokeBatch` | `run_smoke.main` over its files | `pending`, `results` as in the code, `pending` being places; `place` is where the scan of the cache is among the tasks and arms `asked` for; `disk` and `summary` are files that are absent, partial or complete |
| `ForgeCorpus` | `corpus.main`, `generate_for_design`, `deep_bmc_promote.main` over their files | one mode per stage; `seen`, `duplicates`, `records` as in the code; `files[t]` is the mutant in the file of task `t` |
| `WitnessTools` | the dispatchers, `run_test`, `_ensure_run` | `ctx` is `ToolContext`; `files` says which run wrote each trace; `answer.named` is the signal the agent gave to `suspect_rank`, if any |
| `Traces` | the VCD reader line by line, `value_at`, `diff_traces` | `pending`, `changes`, `time` as in the code, per dump; history variable `wave`, what the dump says |
| `Coi` | the dependency index and the work list of `cone_of_influence` | `frontier`, `visited`, `seen` as in the code; `source` is the assignments the tree walk finds |
| `Mutations` | the six operators and the list `corpus.py` makes with them | `code` is the nodes an operator looks at, in the order of `walk`; `candidates` is `all_candidates`; `applied` and `walked` are the place in the loop over operators and in the walk; one action per node |
| `FifoQueue`, `Fifo` | a bounded queue; `fifo.v` | registers as in the code; one step is one clock edge |
| `SerialWord`, `UartLine`, `Uart` | the words of the serial designs; a line of whole frames; `uart.v` | registers prefixed `uart_` where two designs share a name |
| `SpiMaster` | `spi_master.v` and the slave it talks to | `received` is what the slave sampled; history variable `sent` |
| `Fsm`, `FsmMiter` | `fsm.v` as a function on registers; the miter around two copies | `ref_i`, `uut_i` are the instances; history variable `waited` |
| `FsmMutants` | the bounded check of the mutants of `fsm.v` recorded in `corpus_v2` | `depth` is the step of smtbmc, `pairs` the registers of both instances possible there |
| `Rtl` | the tools, the operators and the designs, one of which is looked at | |
| `Rounding` | `round()` of Python | |
| `Publish` | `build_stats.py`, `make_charts.py`, `build_dashboard.py` over their files, the forge and the developer | `script` is the one that runs, what it has still to do and what it has read; the two calls of git are two steps (`ReadHead`, `CheckStatus`); `Guard` is `_validate_against_corpus_stats` |
| `Harness` | the pilot, the ladder validation and `verify.py` over their files | `harness` is the script that runs and its rows; a cell is a task and an arm or a condition |
| `Scripts` | `SmokeBatch`, `Publish` and `Harness`, one of which is looked at | |
| `*MC` | instances for TLC | patches, replies, candidates, words |
| `AgentLoopProofs`, `SolverProcsProofs`, `ForgeCorpusProofs`, `SmokeBatchProofs` | theorems about the module they are named after | |
| `WitnessProofs` | theorems about `WitnessTools`, `Coi` and `Traces` | |
| `DesignProofs` | theorems about the four designs and the miter | |
| `RtlProofs` | theorems about `Mutations`, `FsmMutants` and `Rtl` | |
| `ScriptsProofs` | theorems about `Publish`, `Harness` and `Scripts` | |

How they compose: `AgentLoop` implements `TaskRun`, and `SmokeBatch` runs tasks
by what `TaskRun` promises (a verdict, or an exception and no trajectory).
`AgentLoop` and `ForgeCorpus` use `check_bmc` by what `SolverProcs` shows of it:
the truth, or INDETERMINATE. `SolverProcs` is where the drivers meet each other;
elsewhere each driver meets only the files of its predecessors. `FsmMiter` runs
two copies of `Fsm` under the miter that `generate_miter` writes, and
`FsmMutants` runs `Fsm` beside what the operators made of it. `Publish` starts
from what `ForgeCorpus` leaves (a whole `tasks.json`, another, or half of one),
and `Harness` runs tasks by the verdicts that golden as the patch can get.
`Rtl` and `Scripts` put parts that share no variable under one run: a variable
`part` says which is looked at, the others keep their first state. That is no
loss: neither does one part write what another reads.

In `SolverProcs` a child may fail at any time, but smtbmc outlives the solver it
waits for; were it to die first, no taskkill of sby would reach that solver, and
`OnlyOwnSolvers` would not hold. `TaskkillWorks` is the other condition of that
property and of `EveryCheckReturns`; `VerdictSound` needs neither.

What is abstract. A patch is the five things the checks can tell about it, a
mutant is a name with the truth about it (`nature`), a reply is the number of its
tool calls, its submissions and its cost, a trace is the run that wrote it. Texts,
prices, printing and paths are left out. `MayTake` lets a request outlast its
timeout when `trickle` is TRUE, since the transport bounds the gaps between bytes
and not the request. A model may send `patched_source` as null (`SubmitNull`): the
run then records NO-PATCH with `stop_reason` "patch_submitted". On the
OpenAI-style backend it may also send arguments that are not an object, and the
run ends with no trajectory (`MalformedSubmit`). The designs start in the state
of the first reset edge (the miter: in any state). A mutant file, a few hundred
bytes, is written in one step; `trajectory.json`, `summary.json`, `tasks.json`
and the promotions are truncated first and written later, and a kill may come
between; of statistics, figures, page, transcripts and reports a kill leaves half
a file.

In `Publish` a task has the fields the pages tell apart, sizes and coverage of a
design are left out, and a figure is what it is drawn from. In `Mutations` a
source has only the nodes some operator looks at, and the features that decide
(target or read, continuous or not, width, declaration). In `FsmMutants` each
mutant is written as what its one edit does to the clock edge; the timing
operators are left out there, since what they mean is the tools' (a mixture of
assignments, another clock edge), and so is the task that exchanges the clock.

## Runs

| run | asks | bounds |
|---|---|---|
| `AgentLoop` | `TokenOvershoot`, `WallOvershoot`, `StopReasonTrue`, `ConversationAnswered`, refinement of `TaskRun`, `Terminates` | 4 iterations, 5 tokens, a clock that ticks twice a second and a cap of 3.5 seconds, requests of at most 2, steps that take 0, half a second, 1 or 2; a patch for every way the pre-check can fail, one right, one wrong; turns that are silent, investigate, or submit once or twice |
| `AgentLoopCeiling` | `HardTokenCeiling` (violated) | as above |
| `SolverProcs` | `VerdictSound`, `OnlyOwnSolvers`, `EveryCheckReturns` | two batches of 2 and 1 checks; the first may be interrupted once |
| `SolverSweepOthers` | `SweepOnlyStrays` (violated) | as above |
| `Scripts` | the batch driver: `SummaryAgrees`, `KeepsCompleted`, `LaunchEnds`; publishing: `PageCountsAgree`, `PageOfCommit`, `RatesOrdered`; stub scripts: `ReportsTrue`, `PassedIsReproduced` | batch: 3 invocations, two models, both arms, or one arm given twice, of the first task or of both tasks; publishing: 2 scripts, 1 run of the forge, 1 commit, three designs in two files, corpora with equal totals, equal counts per design, no real bugs, an ERROR; stub scripts: 2 started, two corpora, 3 tasks of which 2 are selected, a golden file that knows one check of two |
| `SmokeMixed` | `NoMixedConfigurations` (violated) | 2 invocations, one model, two settings |
| `ForgeCorpus` | `AssertionHolds`, `TasksWhole`, `DecisionsTrue`, `RecordsMatchFiles`, `PromotionsTrue` | 3 driver runs, 2 designs, 3 mutants with repetitions, two states of the sources |
| `ForgePromoteSilent` | `PromotedAreCaught` (violated) | 2 driver runs |
| `Rtl` | tools: `ReadsOwnTraces`, `RankedDivergenceIsReal`, `RankKnowsDivergence`; traces: `ReadsFaithfully`, `OnlyChanges`, `FirstDivergence`; slices: `SliceExact`; operators: `MutantsDistinct`, `DecimalsPerturbedByOne`; bounded checks: `BoundSuffices`, `DepthsRecorded`; designs: `FlagsTrue`, the queue, the line, `Delivered`, `MosiStable`, `OutputsAgree`, `DoneOnTime` | tools: 3 runs of a task, 3 scopes, 2 divergences, a ranking by the agent's own choice of a signal that diverges or of one that does not; dumps of 4 and 3 lines over 3 paths, 3 times, samples at every second; sources of 3 signals with every pattern of single reads, a shared condition and a selected array; codes of up to three of 17 nodes, or one literal of one or two digits in any base; 20 recorded mutants, any registers at power-up, to depth 40; designs at their real sizes: depth 8, 8 bits, counter limit 4, words of one bit in the FIFO, 18 bytes in the serial designs |
| `WitnessRankStale` | `RankUsesLastCall` (violated) | as above |
| `WitnessSliceMisses` | `SliceSound` (violated) | as above |
| `ForgePerturbs` | `PerturbedByOne` (violated) | as above |

Why these bounds are enough to be of interest. Four iterations hold a nudge, two
investigating turns and a submission, and every cap can be the one that trips.
Two batches suffice for one to kill the other's check, and one interrupt for an
orphan to meet a restart and its sweep. Three invocations hold an interrupted
one, one of another model and the one that resumes; three driver runs hold a
corpus, a second one cut short, and a deep search over what the two left. Two
scripts hold statistics and a page of two corpora, or a page before and after a
commit; two stub scripts hold a pilot that is killed and one that resumes it, a
pilot and the validation that cites it, a freeze and the comparison with it. Three
nodes hold two that are alike with another in between. The
designs are run at their real sizes, for ever, with a reset and new inputs at any
edge. Four lines of dump hold two values and two timestamps, the same twice included;
three signals hold a circle and a chain. Sizes that matter beyond this are covered
by the proofs.

`MaxCrashes`, `MaxLaunches`, `MaxRuns`, `MaxForges`, `MaxScripts`, `MaxCommits`,
`MaxHarnessRuns` (each in the module that declares it) cap how often something is
started or happens; `MaxTime` and `MaxLines` bound a dump. Deadlock is checked in
every run; `Ended`, `AllDone`, `Idle`, `Compared`, `CoiEnded`, `Generated`,
`BmcDone`, `Published`, `HarnessDone` are the states in which the program has
nothing left to do. The type invariants are proved, for `AgentLoop`,
`SolverProcs`, `ForgeCorpus`, `SmokeBatch`, `Traces`, `WitnessTools`, `Coi`,
`Mutations` and the designs, and take no run's time.

`DepthsRecorded` ties the model to the repository's own data: for each of the
20 mutants the model and the recorded run of sby name the same cycle, or none.
`BoundSuffices` then says more than the corpus does: the three mutants that are
quarantined because a bounded pass is no proof (a counter that counts down, one
that is reset to 1, another way out of the unused state) are equivalent to golden,
since by step 40 nothing new can be reached. That this is a proof is itself proved
(`PassIsProofCorrect`), and so is the equivalence of the three, without the bound
(`QuarantinedEquivalent`).

### The disagreements

The seven runs that end in a violation each check a sentence the repository states
and the code does not ensure.

* `AgentLoopCeiling`: the token cap is called a true ceiling; the last turn can
  pass it. What does hold, and is proved, is `TokenOvershoot`.
* `SolverSweepOthers`: what the sweep finds is said to be a stray orphan; it can
  be the check of another batch. What does hold, and is proved, is that such a
  kill costs an INDETERMINATE and never a wrong verdict. `FINDINGS.md` records
  that this has happened.
* `SmokeMixed`: results of different configurations are said never to be mixed;
  the cache compares model and seed only, so other caps, another backend or
  another corpus go unnoticed.
* `ForgePromoteSilent`: `deep_bmc_promote` says REFUTED means KEEP, `corpus`
  says that it means SILENT if the testbench passes.
* `WitnessRankStale`: `suspect_rank` is said to use the divergence of the last
  comparison; a comparison that finds none leaves an older one in place.
* `WitnessSliceMisses`: the slice is said never to omit a real dependency, arrays
  included; a name with a select is neither collected where it is read nor
  recorded where it is assigned, so a write to an array is in no slice. The corpus
  has a task that shows it, `fifo_signal_substitution_034`: it diverges at
  `rd_data`, its root cause is line 30 of `fifo.v`, and the slice of `rd_data` does
  not have that line. For every source without selects the slice is exact, which is
  proved.
* `ForgePerturbs`: the perturbation is said to be by one; the new value is spelt
  in decimal behind the old base, so that `8'h0F` becomes `8'h16`. What does hold
  is `DecimalsPerturbedByOne`, and the four designs have no other literals.

Smaller ones, met on the way and not run: `loop.py:134` says that no request
outlives the wall budget that remains, but one that is sent with less than a second
left is given a second; `build_dashboard.py:172` calls its check of the tree the
only way to guarantee the SHA, but a commit between `git rev-parse` and `git status`
gives a clean tree and the SHA of the commit before; `run_task`'s docstring says any
cap tripped ends the task with NO-PATCH, but the turn that exhausts the tokens may
also submit, and its patch is judged; `corpus.py` says a golden design that does not
simulate is discarded, but it raises; `fifo.v` says `AW` is log2(DEPTH) and writes
3; `apply_deep_bmc_promotions.py` is referred to and does not exist.
`build_dashboard.py` says its guard compares every overlapping field, and the page
that every number is read from `corpus_stats.json` when it is built: the cells per
design and operator are not compared, operators that only the tasks have are not
looked for, and the figures are embedded as they are, drawn from whatever statistics
there were. `verify.py` is said to write its report on every run; it writes none
without a golden file. The pilot is said to get PLAUSIBLE as its only verdict; a
check that times out gives INDETERMINATE, which is cached like any other.
`signal_substitution` is said to substitute reads only; it also replaces names
inside a concatenated target. `blocking_nonblocking_swap` makes `assign a <= b` of a
continuous assignment, which does not parse (two ERROR tasks of the fifo corpus).
The second figure cannot be drawn of a corpus in which a design has no real bugs,
and the pilot's report cannot be written unless its selection has
`fsm_constant_perturbation_005`.

### Fairness

`AgentLoop`: weak fairness of `Step`. The program is sequential and each thing
it waits for has a timeout: requests, elaboration, simulation, `check_bmc`. (A
`trickle` request may be long; it still ends.) `SolverProcs`: weak fairness of
each batch's own steps, TimeoutExpired among them, since the operating system
schedules it and its timer fires. No fairness for sby or its children: solvers
may run for ever, and `EveryCheckReturns` must hold all the same. It needs
taskkill to work and only sby to hold the output pipe open (`HoldsPipe`), because
sby reads its children's output itself; with a taskkill that fails, `Reap` can
wait for ever. `SmokeBatch`: weak fairness of `Work`, since a driver that was
started goes on and a task run ends; none for `Launch`, `Decline`, `Die` (in
`Scripts`: of `Work` while that part is looked at). The
other modules claim no liveness: nothing obliges a user to call a tool or to run
a driver.

## Proofs

Eight modules hold theorems (the ones a reader should know are in
`PROJECT.json`). They use only the named assumptions on constants, which TLC
evaluates in the runs. A theorem is about the specification of its component
(`SmokeSpec`, `PublishSpec`, `HarnessSpec`, `ToolsSpec`, `TracesSpec`, `CoiSpec`,
...), where the component runs for itself; `Rtl` and `Scripts`, which the runs
check, let one component at a time run. `ScriptsCorrect` and `RtlCorrect` lift the
results to them.

Much of what is proved is about lists, sums and recursive functions of any size,
which usually takes induction. Here an induction is an argument by the least
counterexample: the set of numbers at which a statement fails, if it is not empty,
has a least member (`Least`, from the library's well-foundedness of the naturals),
and just before that one the statement holds. That a recursive function is what its
rule says needs a proof too, that such a function exists (`Recursion`).

* `AgentLoopProofs`. `TypeOK` is inductive. `BudgetInv` adds to the two
  overshoot properties what the guards at the top of the loop leave true during a
  turn: tokens below the cap, and time below the cap when a request is sent. From
  it follow `TokenOvershoot` and `WallOvershoot`. The timeout of a request is the
  time left, truncated to whole seconds, and at least one (loop.py:137): with less
  than a second left it is therefore more than what is left, by less than a second
  (`TimeoutBound`), for any number of ticks to a second. `OutcomeInv` adds to
  `StopReasonTrue` what is known at each place: nothing submitted inside the loop,
  nothing recorded before the end, an acceptable patch before BMC. It makes each
  step of `run_task` a step of `TaskRun` or a stutter. `TalkInv` extends
  `ConversationAnswered` into the turn, where the last message is the turn itself
  and every earlier one is answered: what comes after an assistant's message can
  answer no call made before it (`ResultsKept`), and the results of a turn answer
  its own calls, in one message or in one message each.
* `SolverProcsProofs`. `VerdictSound` is not inductive: a verdict comes from a
  log. `LogTrue` says that the log of the check being waited for states nothing
  false about that check; no kill can break it, because a killed sby prints
  nothing and an orphan's output is read by nobody. The theorem covers a
  `taskkill` that fails, which the run does not. `SweptInv`, for
  `OnlyOwnSolvers`: while taskkill works every orphan still has its sby, so the
  sweep of a lone batch has all that is left on its list, and afterwards a check
  that ended, or was reaped, has left nothing (its sby keeps the pipe open).
* `ForgeCorpusProofs`. `CountInv`: at every candidate, records and duplicates of
  the design add up to the candidates done with; the assertion of `main` follows
  for all lists of candidates, whatever raises. `RecordsInv`: every record is true
  of its mutant and its file holds that mutant, and no task still to come has its
  name, so that no later write can undo it; `DecisionsTrue` and `RecordsMatchFiles`
  follow. `ListedInv`: the records of the designs done with, and of the candidates
  done with, are the first occurrences among them, each once; `TasksWhole` follows.
  `DeepInv`, for `PromotionsTrue`: while the sources do not change, every record
  that is searched or on disk fits them, that is, it names the mutant which the
  sources have at its place, and the file of its name holds that mutant. A forge
  run that starts anew in the meantime therefore overwrites a file with what it
  held, and what the deep search checks is what its record is about.
  With these `TypeOK` follows: what is left of it are the stages, the number of
  the design and the three forms of each file.
* `SmokeBatchProofs`. `SmokeInv`: while the cache is scanned, results and pending
  together have exactly the places looked at (a task, and a place in the list of
  arms), each once; every result is the verdict of the trajectory on disk, of this
  model and seed, unless a later result is of the same task-arm; and nothing that is
  pending has such a trajectory, unless this invocation made it, for an arm it was
  given twice. `SummaryAgrees` is what this says when pending is empty.
  `KeepsCompleted` follows too: only what is at the head of pending is written.
* `ScriptsProofs`. `PublishInv` says, for each place in the build of a page, what
  the values read so far have to do with the files. Statistics read stay equal to
  `corpus_stats.json`, because only `build_stats` writes it and one script runs at
  a time; commits are only added, so that the one that was HEAD remains; if none is
  added before the tree is found clean, and the forge does not come in afterwards,
  the files are and stay those of that commit. Hence `PageOfCommit`. For
  `PageCountsAgree` the invariant has only to say that the guard accepted what the
  page shows, and that its tasks are finitely many: the counts then follow from
  `Guard` itself, the headline rate from the rounding (`RoundedNear`: a rounded
  quotient is within a half of it, in integers).
  `HarnessInv`: what `verify.py` has measured has a result for every check, also
  where a freeze is about to write it; a report without failures was therefore
  compared in every check with the golden file it names: `PassedIsReproduced`.
  `RatesInv`, for `RatesOrdered`: while the statistics are built, the counts read
  of a design add up, whichever corpus they were read from. What is printed of all
  designs is a sum of fractions over a sum (`Total`); were it above the highest
  rate, or below the lowest, so would be what the designs up to some last one
  contribute. Rounding keeps order. `ReportsInv`, for `ReportsTrue`: the rows so
  far and the cells to go are the matrix of the selection, twice, each row cites the
  transcript on disk, and a transcript that is whole is never written again; the
  extremes of each design are in the selection since they come first in the list
  (`Stratified`) that is cut.
  `ScriptsCorrect` states all of these, and the two of the batch driver, of the
  composition: as long as a part is looked at its own invariant is kept, and
  otherwise its variables do not move (`PartsInv`).
* `WitnessProofs`. `ContextInv`, for the tools: if the context points to traces,
  both files are of this run; what it remembers is a divergence of these designs, or
  none (a signal the agent names replaces that of the ranking and is not kept); and
  once the designs were compared in the default scope, which every `run_test` does,
  it does remember one if there is one. `ReadsOwnTraces`, `RankedDivergenceIsReal`
  and `RankKnowsDivergence` follow, for any number of runs and scopes. `SliceInv`,
  for the cone of influence: every name a visited signal reads is known, the lines
  are those of the visited signals, and whatever is known belongs to every closed
  set around the signal. When the list is empty the visited names are therefore the
  least closed set, which is `SliceExact`. For any source, in any order of the list.
  `ReadInv`, for the dumps: at every line, what the dump says of a path at a time
  is what the changes kept say of it, unless a value is held back for that path
  until the next timestamp, which holds from then on. When the reader is done
  nothing is held back, and `ReadsFaithfully` and `OnlyChanges` follow.
  `CompareInv` adds that all samples before the one that is looked at agree:
  `FirstDivergence`. `value_at` and the first name of a sample rest on the greatest
  and the least member of a set of numbers (`Greatest`, `Least`).
* `DesignProofs`. `FillInv` of the FIFO (pointers at most DEPTH apart) is inductive;
  the words between the pointers are the queue, and each clock edge is a step of
  `FifoQueue`. The flags follow, for every depth and every set of words. In the
  UART, the bits not yet sent are a function of state and index, and each edge is a
  step of `UartLine`. `TransferInv` of the SPI master: the slave has the first
  `bit_count` bits and the register holds the others; `Delivered` and `MosiStable`
  follow. Both for words of any width. In the miter (`MiterInv`), `Aligned`: once
  reset, the copies are equal; `Phase`: state and counter say how long the run has
  lasted. `OutputsAgree` and `DoneOnTime` follow, at every depth.
* `RtlProofs`. `FoundInv`, for the operators: every candidate is what one operator
  makes of one node that has been looked at, and the places of candidates say which.
  No operator gives back its node (`BecomesOther`), and no two give the same
  (`BecomesOne`): they look at different kinds of node, but for the two that rename,
  of which one gives a signal and the other a constant. A perturbed literal is
  another one, although its digits are decimal behind any base: bases are even, so
  that the last digit says whether a number is, and one more is not what it was, also
  after the wrap (`PerturbedParity`). Hence `MutantsDistinct`. That the digits of a
  number are worth the number (`DecimalNumber`) gives `DecimalsPerturbedByOne`.
  `BmcInv`, for the bounded check: whatever was looked at before the last step leads
  to what was looked at; with nothing new the set is closed, agrees everywhere and no
  run leaves it (`PassIsProofCorrect`). `DepthInv`: the pairs of a step are exactly
  those that runs have there, where a run never ends, from any registers, with any
  inputs; the step reported is therefore the first at which any run fails, and a
  pass means that none does within the depth (`FirstFailureCorrect`). For the
  mutants in quarantine `MatchedPairs` is closed without regard to any depth. In
  `RtlCorrect` what is not looked at keeps an initial state, or an empty source.

What the theorems assume of the constants beyond their types: `CorporaAssumption`,
that corpora are finite and a depth is a number or unknown; `DesignAssumption`, that
there are designs, each with its corpus, and none with the name of a section;
`KeepListsAssumption`, that task ids are unique and a task is of a known design, and
`SpreadAssumption`, that at least two tasks are taken of each design, so that there
is room for the earliest and the latest; `TracesAssumption`, that the sampling
period is positive and no name is compared twice; `DeclaredAssumption`, that a name
is declared once and is not both a signal and a constant; `CorpusAssumption` and
`SignalsAssumption`, that there is something to start from. The theorems do not need
the bounds of the runs to be small, only to be numbers. `QuarantinedPass`, and of
`QuarantinedEquivalent` the mutant that counts down, take the count of `fsm.v` to
end at its real 4.

Model-checked only:

* liveness (`Terminates`, `EveryCheckReturns`, `LaunchEnds`), which is out of the
  prover's reach together with ENABLED;
* `BoundSuffices` and `DepthsRecorded`: facts about 20 given mutants and the real
  size of `fsm.v`, which TLC computes without leaving anything out. What they mean
  for runs of any length is proved (`PassIsProofCorrect`, `FirstFailureCorrect`).

No module here has a RECURSIVE operator.

## Plan

Done, in this order: `TaskRun` and `AgentLoop` (the core: everything the project
reports goes through its verdicts); `SolverProcs`; `SmokeBatch`; `ForgeCorpus`;
`WitnessTools`, `Traces`, `Coi`; the designs and the miter; the operators and the
bounded check of their mutants; the scripts; the proofs above.

Left, in the order of what it would add:

1. pure operators checked against reference definitions over bounded inputs, as
   further parts of `Rtl`: the ranking of `suspect_rank` from a slice and a
   trace, the one-hunk rule of `check_fidelity`, width resolution of `miter`,
   reset coverage (the project is at the number of runs and properties it can
   usefully keep, so each takes the place of a shallower one);
2. the bounded check of `FsmMutants` for the three other designs, whose pairs of
   registers are too many for sets: it needs the states of the miter as states of
   the model.

## Not modelled

The calls of pyslang (which node is what is a feature of the node), `doctor`, the
environment set-up of `env.py`, `forge/cli.py`, `eval/coverage.py` (pure I/O),
`arms.py` and `chart_palette.py` (constant data), `eqy_parser.py` (a pure function
of a log that no driver calls), `reset_coverage.py` (a report over one tree).
Of the scripts that publish: sizes, coverage and tool versions, the promotions
section of the statistics, the simulations, diffs and slices made while the page is
built, the drawing and the HTML.
