----------------------------- MODULE AgentLoop -----------------------------
(***************************************************************************)
(* One task run of the agent harness: run_task of rtlverdict/agent/loop.py *)
(* with the provider adapters, the tool calls, the patch pre-check and the *)
(* formal judgement it makes.  The program is sequential; what is outside  *)
(* it (the model behind the provider, the duration of a request or a tool, *)
(* the external checkers) is nondeterministic.                             *)
(***************************************************************************)
EXTENDS Naturals, Sequences

CONSTANTS
  Patches, NoPatch,   \* as in TaskRun
  Replies,            \* what a model's turn may contain, and what it costs
  Durations,          \* how long a request or a tool call may take
  MaxIterations, MaxTotalTokens, MaxWallTime,  \* the hard caps of run_task
  RequestCap,         \* the 120 s bound of one request, in seconds
  Second              \* ticks in a second: all other time is in ticks

ReplyType == [others: Nat, submits: Seq(Patches), cost: Nat]

ASSUME PatchesAssumption ==
  /\ Patches \subseteq [parses: BOOLEAN, elaborates: BOOLEAN, hasTop: BOOLEAN,
                        samePorts: BOOLEAN, equivalent: BOOLEAN]
  /\ NoPatch \notin Patches
ASSUME RepliesAssumption == Replies \subseteq ReplyType
ASSUME CapsAssumption ==
  /\ Durations \subseteq Nat
  /\ MaxIterations \in Nat /\ MaxTotalTokens \in Nat
  /\ MaxWallTime \in Nat /\ RequestCap \in Nat \ {0} /\ Second \in Nat \ {0}
VARIABLES
  backend,     \* the adapter make_provider chose
  trickle,     \* TRUE: a request may outlast its timeout (the transport
               \* bounds the gaps between bytes, not the whole request)
  pc,          \* where the program is
  turns,       \* len(traj.iterations), which is also the loop variable i
  elapsed,     \* wall-clock time since wall_start
  toolTime,    \* the part of elapsed spent in the tools of the current turn
  tokens,      \* traj.total_input_tokens + traj.total_output_tokens
  nudged,      \* the one nudge has been given
  messages,    \* the conversation: [role, ids] of every message
  reply,       \* resp, the turn being processed
  answered,    \* how many tool calls of this turn have a result
  submitted,   \* submitted_patch
  stopReason,  \* the local stop_reason
  formal,      \* verdict of check_bmc, "None" before it ran
  verdict,     \* traj.final_verdict
  disk         \* trajectory.json: NoFile or [verdict, stop]

setting == <<backend, trickle>>
progress == <<turns, elapsed, toolTime, tokens>>
talk == <<nudged, messages, reply, answered>>
outcome == <<formal, verdict, disk>>
vars == <<setting, pc, progress, talk, submitted, stopReason, outcome>>

NoReply == [others |-> 0, submits |-> <<>>, cost |-> 0]
NoFile == [verdict |-> "None", stop |-> "None"]
-----------------------------------------------------------------------------
Backends == {"anthropic", "openai-compatible"}

Init ==
  /\ backend \in Backends
  /\ trickle \in BOOLEAN
  /\ pc = "top"
  /\ turns = 0 /\ elapsed = 0 /\ toolTime = 0 /\ tokens = 0
  /\ nudged = FALSE
  /\ messages = <<[role |-> "user", ids |-> {}]>>
  /\ reply = NoReply
  /\ answered = 0
  /\ submitted = NoPatch
  /\ stopReason = "max_iterations"
  /\ formal = "None" /\ verdict = "None" /\ disk = NoFile

(* finish() followed by write(): the run ends with trajectory.json on disk. *)
FinishAndWrite(v, stop) ==
  /\ verdict' = v
  /\ disk' = [verdict |-> v, stop |-> stop]
  /\ pc' = "recorded"

-----------------------------------------------------------------------------
(* The top of the loop: the loop bound, then the wall clock, then tokens.   *)

Exhausted ==
  /\ pc = "top" /\ turns = MaxIterations
  /\ pc' = "after"
  /\ UNCHANGED <<progress, talk, submitted, stopReason, outcome>>

StopAt(reason) ==
  /\ pc' = "after"
  /\ stopReason' = reason
  /\ UNCHANGED <<progress, talk, submitted, outcome>>

OutOfTime ==
  /\ pc = "top" /\ turns < MaxIterations
  /\ elapsed >= MaxWallTime
  /\ StopAt("max_wall_time")

OutOfTokens ==
  /\ pc = "top" /\ turns < MaxIterations
  /\ elapsed < MaxWallTime
  /\ tokens >= MaxTotalTokens
  /\ StopAt("max_total_tokens")

(* Mutant of Ask: the token budget is never compared. *)
AskUnmetered ==
  /\ pc = "top" /\ turns < MaxIterations
  /\ elapsed < MaxWallTime
  /\ pc' = "request"
  /\ toolTime' = 0
  /\ UNCHANGED <<turns, elapsed, tokens, talk, submitted, stopReason, outcome>>

Ask ==
  /\ pc = "top" /\ turns < MaxIterations
  /\ elapsed < MaxWallTime
  /\ tokens < MaxTotalTokens
  /\ pc' = "request"
  /\ toolTime' = 0
  /\ UNCHANGED <<turns, elapsed, tokens, talk, submitted, stopReason, outcome>>

-----------------------------------------------------------------------------
(* The request.  Its timeout is what is left of the wall-clock budget, at   *)
(* most RequestCap, cut to whole seconds and then at least one of them: a   *)
(* request sent in the last second of the budget may outlast it.            *)

AtMost(a, b) == IF a < b THEN a ELSE b
AtLeast(a, b) == IF a > b THEN a ELSE b
(* Mutant of RequestTimeout: the request cap alone. *)
FixedRequestTimeout == RequestCap * Second
RequestTimeout ==
  Second * AtLeast(1, AtMost(RequestCap * Second, MaxWallTime - elapsed) \div Second)
MayTake(d) == trickle \/ d <= RequestTimeout

CallIds(r) == 1 .. (r.others + Len(r.submits))

Respond(r, d) ==
  /\ pc = "request" /\ MayTake(d)
  /\ pc' = "tools"
  /\ elapsed' = elapsed + d
  /\ reply' = r
  /\ answered' = 0
  /\ messages' = Append(messages, [role |-> "assistant", ids |-> CallIds(r)])
  /\ UNCHANGED <<turns, toolTime, tokens, nudged, submitted, stopReason, outcome>>

(* Any exception of the request, a timeout included, is recorded as ERROR.  *)
ProviderFails(d) ==
  /\ pc = "request" /\ MayTake(d)
  /\ elapsed' = elapsed + d
  /\ FinishAndWrite("ERROR", "provider_error")
  /\ UNCHANGED <<turns, toolTime, tokens, talk, submitted, stopReason, formal>>

-----------------------------------------------------------------------------
(* call_tool never raises: every call other than submit_patch gets a result *)
(* (of an unknown tool or a tool that raised, an error result).             *)

CallTool(d) ==
  /\ pc = "tools"
  /\ answered < reply.others
  /\ answered' = answered + 1
  /\ elapsed' = elapsed + d
  /\ toolTime' = toolTime + d
  /\ UNCHANGED <<pc, turns, tokens, nudged, messages, reply, submitted,
                 stopReason, outcome>>

(* add_iteration, common to the four ways a turn may end. *)
EndTurn ==
  /\ pc = "tools"
  /\ answered = reply.others
  /\ turns' = turns + 1
  /\ tokens' = tokens + reply.cost
  /\ UNCHANGED <<elapsed, toolTime, reply, answered, outcome>>

Submit ==
  /\ EndTurn
  /\ reply.submits # <<>>
  /\ submitted' = Head(reply.submits)
  /\ stopReason' = "patch_submitted"
  /\ pc' = "after"
  /\ UNCHANGED <<nudged, messages>>

(* The argument patched_source may be null: the turn submits, and what it   *)
(* submits is nothing.                                                      *)
SubmitNull ==
  /\ EndTurn
  /\ reply.submits # <<>>
  /\ stopReason' = "patch_submitted"
  /\ pc' = "after"
  /\ UNCHANGED <<nudged, messages, submitted>>

(* An OpenAI-style backend may send arguments that are not an object: the   *)
(* .get on them is not guarded and ends the run with no trajectory.         *)
MalformedSubmit ==
  /\ backend = "openai-compatible"
  /\ EndTurn
  /\ reply.submits # <<>>
  /\ pc' = "raised"
  /\ UNCHANGED <<nudged, messages, submitted, stopReason>>

Silent == EndTurn /\ CallIds(reply) = {}

(* Mutant of Nudge: a silent turn is dropped and asked again, uncounted. *)
NudgeUncounted ==
  /\ pc = "tools" /\ CallIds(reply) = {}
  /\ messages' = SubSeq(messages, 1, Len(messages) - 1)
  /\ pc' = "top"
  /\ UNCHANGED <<progress, nudged, reply, answered, submitted, stopReason, outcome>>

Nudge ==
  /\ Silent /\ ~nudged
  /\ nudged' = TRUE
  /\ messages' = Append(messages, [role |-> "user", ids |-> {}])
  /\ pc' = "top"
  /\ UNCHANGED <<submitted, stopReason>>

(* Mutant of GiveUp: the second silence leaves stop_reason as it was. *)
GiveUpUnnamed ==
  /\ Silent /\ nudged
  /\ pc' = "after"
  /\ UNCHANGED <<nudged, messages, submitted, stopReason>>

GiveUp ==
  /\ Silent /\ nudged
  /\ stopReason' = "no_patch_submitted"
  /\ pc' = "after"
  /\ UNCHANGED <<nudged, messages, submitted>>

(* Mutant of ToolResults: only the first result is sent back. *)
FirstToolResult ==
  <<[role |-> IF backend = "anthropic" THEN "user" ELSE "tool", ids |-> {1}]>>

(* append_tool_results: one user message holding every result, or one       *)
(* message of role "tool" per result.                                       *)
ToolResults ==
  IF backend = "anthropic"
  THEN <<[role |-> "user", ids |-> 1 .. answered]>>
  ELSE [k \in 1 .. answered |-> [role |-> "tool", ids |-> {k}]]

Continue ==
  /\ EndTurn
  /\ reply.submits = <<>> /\ reply.others > 0
  /\ messages' = messages \o ToolResults
  /\ pc' = "top"
  /\ UNCHANGED <<nudged, submitted, stopReason>>

-----------------------------------------------------------------------------
(* After the loop: no patch, or the pre-check, or the formal check.         *)

RecordNoPatch ==
  /\ pc = "after" /\ submitted = NoPatch
  /\ FinishAndWrite("NO-PATCH", stopReason)
  /\ UNCHANGED <<progress, talk, submitted, stopReason, formal>>

(* Mutant of InvalidReason: the port list is not compared. *)
InvalidReasonNoPorts(p, slow) ==
  IF ~p.parses THEN "parse failed"
  ELSE IF ~p.elaborates \/ slow THEN "elaboration failed"
  ELSE IF ~p.hasTop THEN "top module not found"
  ELSE "None"

(* check_patch: the first check that fails names the reason.  slow: the     *)
(* elaborator exceeded its own timeout.                                     *)
InvalidReason(p, slow) ==
  IF ~p.parses THEN "parse failed"
  ELSE IF ~p.elaborates \/ slow THEN "elaboration failed"
  ELSE IF ~p.hasTop THEN "top module not found"
  ELSE IF ~p.samePorts THEN "port list changed"
  ELSE "None"

Reject(slow) ==
  /\ pc = "after" /\ submitted # NoPatch
  /\ InvalidReason(submitted, slow) # "None"
  /\ FinishAndWrite("INVALID-PATCH", "patch_submitted")
  /\ UNCHANGED <<progress, talk, submitted, stopReason, formal>>

Accept(slow) ==
  /\ pc = "after" /\ submitted # NoPatch
  /\ InvalidReason(submitted, slow) = "None"
  /\ pc' = "bmc"
  /\ UNCHANGED <<progress, talk, submitted, stopReason, outcome>>

(* What check_bmc may return for a patch: the truth about the first k       *)
(* cycles, or nothing when the solver times out or its log is ambiguous.    *)
BmcOutcomes(p) ==
  {"INDETERMINATE", IF p.equivalent THEN "PROVEN-BMC" ELSE "REFUTED"}

(* Mutant of FormalToVerdict: the formal verdict is reported as it is. *)
FormalVerdictRaw(f) == f
FormalToVerdict(f) == IF f = "PROVEN-BMC" THEN "PLAUSIBLE" ELSE f

Judge(f) ==
  /\ pc = "bmc"
  /\ f \in BmcOutcomes(submitted)
  /\ formal' = f
  /\ FinishAndWrite(FormalToVerdict(f), "patch_submitted")
  /\ UNCHANGED <<progress, talk, submitted, stopReason>>

(* A missing tool, an unreadable file, or ports that cannot be extracted    *)
(* raise out of run_task: nothing is recorded.                              *)
CheckRaises ==
  /\ \/ pc = "after" /\ submitted # NoPatch
     \/ pc = "bmc"
  /\ pc' = "raised"
  /\ UNCHANGED <<progress, talk, submitted, stopReason, outcome>>

Ended == pc \in {"recorded", "raised"} /\ UNCHANGED vars

-----------------------------------------------------------------------------
Act ==
  \/ Exhausted \/ OutOfTime \/ OutOfTokens \/ Ask
  \/ \E r \in Replies, d \in Durations : Respond(r, d)
  \/ \E d \in Durations : ProviderFails(d)
  \/ \E d \in Durations : CallTool(d)
  \/ Submit \/ SubmitNull \/ MalformedSubmit \/ Nudge \/ GiveUp \/ Continue
  \/ RecordNoPatch
  \/ \E slow \in BOOLEAN : Reject(slow) \/ Accept(slow)
  \/ \E f \in {"PROVEN-BMC", "REFUTED", "INDETERMINATE"} : Judge(f)
  \/ CheckRaises

Step == Act /\ UNCHANGED setting

Next == Step \/ Ended

(* The program is sequential and every call it waits for has a timeout.     *)
Spec == Init /\ [][Next]_vars
FairSpec == Spec /\ WF_vars(Step)
-----------------------------------------------------------------------------
(* PROPERTIES                                                              *)

Locations == {"top", "request", "tools", "after", "bmc", "recorded", "raised"}
StopReasons == {"max_iterations", "max_wall_time", "max_total_tokens",
                "no_patch_submitted", "patch_submitted"}
Verdicts == {"NO-PATCH", "ERROR", "INVALID-PATCH", "INDETERMINATE",
             "PLAUSIBLE", "REFUTED"}
MessageType == [role: {"user", "assistant", "tool"}, ids: SUBSET Nat]

(* Type invariant: every variable of run_task stays in its domain. *)
TypeOK ==
  /\ backend \in Backends /\ trickle \in BOOLEAN
  /\ pc \in Locations
  /\ turns \in Nat /\ elapsed \in Nat /\ toolTime \in Nat /\ tokens \in Nat
  /\ nudged \in BOOLEAN
  /\ messages \in Seq(MessageType)
  /\ reply \in ReplyType
  /\ answered \in Nat
  /\ submitted \in Patches \cup {NoPatch}
  /\ stopReason \in StopReasons
  /\ formal \in {"None", "PROVEN-BMC", "REFUTED", "INDETERMINATE"}
  /\ verdict \in Verdicts \cup {"None"}
  /\ disk \in [verdict: Verdicts \cup {"None"},
               stop: StopReasons \cup {"None", "provider_error"}]

(***************************************************************************)
(* The token budget may be exceeded, but only by the turn that was         *)
(* processed last: every earlier turn left the total below the cap.        *)
(***************************************************************************)
TokenOvershoot == turns > 0 => tokens < MaxTotalTokens + reply.cost

(***************************************************************************)
(* When a request ends within its timeout, the wall-clock budget is        *)
(* exceeded by less than a second and the tools of one turn: the request   *)
(* timeout shrinks with what is left of the budget, down to one second.    *)
(***************************************************************************)
WallOvershoot == ~trickle => elapsed < MaxWallTime + Second + toolTime

(***************************************************************************)
(* stop_reason, set in one place and read in another, names what happened: *)
(* the cap it names was reached, silence was nudged once and repeated, and *)
(* a patch is there only after patch_submitted, and that only after a turn *)
(* that called submit_patch.  What reaches the disk is that reason, or the *)
(* error of the provider.                                                  *)
(***************************************************************************)
StopReasonTrue ==
  /\ submitted # NoPatch => stopReason = "patch_submitted"
  /\ stopReason = "patch_submitted" => reply.submits # <<>>
  /\ stopReason = "max_wall_time" => elapsed >= MaxWallTime
  /\ stopReason = "max_total_tokens" => tokens >= MaxTotalTokens
  /\ stopReason = "no_patch_submitted" => nudged /\ CallIds(reply) = {}
  /\ pc = "after" /\ stopReason = "max_iterations" => turns = MaxIterations
  /\ pc = "recorded" =>
       \/ disk.stop = stopReason
       \/ disk.stop = "provider_error" /\ disk.verdict = "ERROR"

(***************************************************************************)
(* Whenever a request is sent, every tool call of every earlier assistant  *)
(* turn has been answered exactly once, directly after that turn, and the  *)
(* roles alternate where the Messages API requires it.  The submit_patch   *)
(* calls, which get no result, never have a request after them.            *)
(***************************************************************************)
ResultsAfter(ms, j) ==
  { m \in (j + 1) .. Len(ms) :
      \A n \in (j + 1) .. m : ms[n].role # "assistant" /\ ms[n].ids # {} }

CallsAnswered(ms, j) ==
  ms[j].role = "assistant" =>
    /\ UNION { ms[m].ids : m \in ResultsAfter(ms, j) } = ms[j].ids
    /\ \A m, n \in ResultsAfter(ms, j) : m # n => ms[m].ids \cap ms[n].ids = {}

RolesAlternate(ms) ==
  \A j \in 1 .. Len(ms) : ms[j].role = IF j % 2 = 1 THEN "user" ELSE "assistant"

ConversationAnswered ==
  pc = "request" =>
    /\ \A j \in 1 .. Len(messages) : CallsAnswered(messages, j)
    /\ backend = "anthropic" => RolesAlternate(messages)

(***************************************************************************)
(* The promise of TaskRun: one verdict at most, and only one the submitted *)
(* patch justifies.                                                        *)
(***************************************************************************)
Status == IF pc = "recorded" THEN "recorded"
          ELSE IF pc = "raised" THEN "aborted" ELSE "running"

Promise == INSTANCE TaskRun WITH status <- Status, submission <- submitted

(* run_task implements TaskRun: a PLAUSIBLE is a patch that passed the four *)
(* checks and survived BMC, a REFUTED one that passed them and did not.     *)
ImplementsTaskRun == Promise!Spec

(* A run always ends: caps and timeouts leave it no way to go on for ever. *)
Terminates == <>(pc \in {"recorded", "raised"})

(***************************************************************************)
(* The inductive strengthening behind the theorems of AgentLoopProofs: what *)
(* the guards at the top of the loop leave true while a turn is processed,  *)
(* and what is known of the submission at each later place.                 *)
(***************************************************************************)
InTurn == pc \in {"request", "tools"}
InLoop == pc = "top" \/ InTurn

BudgetInv ==
  /\ InTurn => tokens < MaxTotalTokens
  /\ pc = "request" => elapsed < MaxWallTime
  /\ TokenOvershoot /\ WallOvershoot

OutcomeInv ==
  /\ InLoop => submitted = NoPatch /\ stopReason = "max_iterations"
  /\ pc # "recorded" => verdict = "None"
  /\ pc = "bmc" => submitted # NoPatch /\ Promise!Acceptable(submitted)
  /\ StopReasonTrue

(* Between turns every call is answered; within one, all but those of the   *)
(* turn itself, which is the last message.                                  *)
TalkInv ==
  /\ pc \in {"top", "request"} =>
       /\ \A j \in 1 .. Len(messages) : CallsAnswered(messages, j)
       /\ backend = "anthropic" => RolesAlternate(messages) /\ Len(messages) % 2 = 1
  /\ pc = "tools" =>
       /\ messages # <<>> /\ messages[Len(messages)].role = "assistant"
       /\ messages[Len(messages)].ids = CallIds(reply)
       /\ \A j \in 1 .. (Len(messages) - 1) : CallsAnswered(messages, j)
       /\ backend = "anthropic" => RolesAlternate(messages) /\ Len(messages) % 2 = 0

(***************************************************************************)
(* What loop.py says of its token cap (bounds cumulative tokens across the *)
(* whole task) and run_smoke.py of the cost (a true ceiling): no recorded  *)
(* run spent more than max_total_tokens.  The code does not ensure it.     *)
(***************************************************************************)
HardTokenCeiling == pc = "recorded" => tokens <= MaxTotalTokens
=============================================================================
