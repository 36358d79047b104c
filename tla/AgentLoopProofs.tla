-------------------------- MODULE AgentLoopProofs --------------------------
(***************************************************************************)
(* What holds of run_task for every set of patches, replies and durations  *)
(* and for all values of its caps.                                         *)
(***************************************************************************)
EXTENDS AgentLoop, TLAPS

(* Every step of run_task keeps every variable in its domain. *)
LEMMA TypeStep == TypeOK /\ [Next]_vars => TypeOK'
<1> SUFFICES ASSUME TypeOK, [Next]_vars PROVE TypeOK'
  OBVIOUS
<1>0. backend' = backend /\ trickle' = trickle
  BY DEF Next, Step, Ended, vars, setting
<1> USE <1>0, PatchesAssumption, RepliesAssumption, CapsAssumption
    DEF TypeOK, Locations, StopReasons, Verdicts
<1>1. CASE Exhausted \/ OutOfTime \/ OutOfTokens \/ Ask
  BY <1>1 DEF Exhausted, OutOfTime, OutOfTokens, Ask, StopAt,
              progress, talk, outcome
<1>2. ASSUME NEW r \in Replies, NEW d \in Durations, Respond(r, d)
      PROVE  TypeOK'
  <2>1. [role |-> "assistant", ids |-> CallIds(r)] \in MessageType
    BY DEF ReplyType, CallIds, MessageType
  <2>2. messages' \in Seq(MessageType)
    BY <1>2, <2>1 DEF Respond
  <2>3. QED BY <1>2, <2>2 DEF Respond, outcome, ReplyType
<1>3. ASSUME NEW d \in Durations, ProviderFails(d)
      PROVE  TypeOK'
  BY <1>3 DEF ProviderFails, FinishAndWrite, talk
<1>4. ASSUME NEW d \in Durations, CallTool(d)
      PROVE  TypeOK'
  BY <1>4 DEF CallTool, outcome
<1>5. ASSUME EndTurn
      PROVE  /\ turns' \in Nat /\ tokens' \in Nat /\ elapsed' \in Nat
             /\ toolTime' \in Nat /\ reply' \in ReplyType /\ answered' \in Nat
             /\ UNCHANGED outcome
  BY <1>5 DEF EndTurn, ReplyType
<1>6. CASE Submit \/ SubmitNull \/ MalformedSubmit
  <2>1. EndTurn /\ reply.submits # <<>>
    BY <1>6 DEF Submit, SubmitNull, MalformedSubmit
  <2>2. Head(reply.submits) \in Patches
    BY <2>1 DEF ReplyType
  <2>3. QED BY <1>5, <1>6, <2>1, <2>2 DEF Submit, SubmitNull, MalformedSubmit, outcome
<1>7. CASE Nudge \/ GiveUp
  <2>1. [role |-> "user", ids |-> {}] \in MessageType
    BY DEF MessageType
  <2>2. Append(messages, [role |-> "user", ids |-> {}]) \in Seq(MessageType)
    BY <2>1
  <2>3. QED BY <1>5, <1>7, <2>2 DEF Nudge, GiveUp, Silent, outcome
<1>8. CASE Continue
  <2>1. ToolResults \in Seq(MessageType)
    <3> DEFINE one == [role |-> "user", ids |-> 1 .. answered]
               many == [k \in 1 .. answered |-> [role |-> "tool", ids |-> {k}]]
    <3>1. one \in MessageType
      BY DEF MessageType
    <3>2. many \in [1 .. answered -> MessageType]
      BY DEF MessageType
    <3>3. <<one>> \in Seq(MessageType)
      BY <3>1
    <3>4. many \in Seq(MessageType)
      BY <3>2
    <3>5. QED BY <3>3, <3>4 DEF ToolResults
  <2>2. messages \o ToolResults \in Seq(MessageType)
    BY <2>1
  <2>3. QED BY <1>5, <1>8, <2>2 DEF Continue, outcome
<1>9. CASE RecordNoPatch
  BY <1>9 DEF RecordNoPatch, FinishAndWrite, progress, talk
<1>10. ASSUME NEW slow \in BOOLEAN, Reject(slow) \/ Accept(slow)
       PROVE  TypeOK'
  BY <1>10 DEF Reject, Accept, FinishAndWrite, progress, talk, outcome
<1>11. ASSUME NEW f \in {"PROVEN-BMC", "REFUTED", "INDETERMINATE"}, Judge(f)
       PROVE  TypeOK'
  BY <1>11 DEF Judge, FinishAndWrite, FormalToVerdict, progress, talk
<1>12. CASE CheckRaises
  BY <1>12 DEF CheckRaises, progress, talk, outcome
<1>13. CASE UNCHANGED vars
  BY <1>13 DEF vars, progress, talk, outcome
<1>14. QED
  BY <1>1, <1>2, <1>3, <1>4, <1>6, <1>7, <1>8, <1>9, <1>10, <1>11, <1>12,
     <1>13 DEF Next, Step, Act, Ended

LEMMA TypeInit == Init => TypeOK
<1> SUFFICES ASSUME Init PROVE TypeOK
  OBVIOUS
<1>1. messages \in Seq(MessageType)
  <2>1. [role |-> "user", ids |-> {}] \in MessageType
    BY DEF MessageType
  <2>2. QED BY <2>1 DEF Init
<1>2. reply \in ReplyType
  BY DEF Init, ReplyType, NoReply
<1>3. disk \in [verdict: Verdicts \cup {"None"},
                stop: StopReasons \cup {"None", "provider_error"}]
  BY DEF Init, NoFile
<1>4. QED
  BY <1>1, <1>2, <1>3 DEF Init, TypeOK, Locations, StopReasons, Verdicts

(* The type invariant of run_task. *)
THEOREM TypeCorrect == Spec => []TypeOK
<1>1. QED BY TypeInit, TypeStep, PTL DEF Spec

-----------------------------------------------------------------------------
(* The budgets.                                                            *)

(* What is left of the budget cut to whole seconds is no more than what is  *)
(* left, and the one second granted at least is less than a second over.    *)
LEMMA TimeoutBound ==
  ASSUME elapsed \in Nat, elapsed < MaxWallTime
  PROVE  RequestTimeout \in Nat /\ elapsed + RequestTimeout < MaxWallTime + Second
<1> USE CapsAssumption
<1> DEFINE left == AtMost(RequestCap * Second, MaxWallTime - elapsed)
<1>1. RequestCap * Second \in Nat
  OBVIOUS
<1>2. left \in Nat /\ left <= MaxWallTime - elapsed
  BY <1>1 DEF AtMost
<1>3. ASSUME NEW m \in Nat
      PROVE  m \div Second \in Nat /\ Second * (m \div Second) <= m
  <2>1. Second \in Nat /\ Second > 0 /\ m \in Nat
    BY <1>3
  <2>2. m = Second * (m \div Second) + (m % Second) /\ m % Second \in 0 .. (Second - 1)
    BY <2>1, SMTT(30)
  <2>3. QED BY <2>1, <2>2, SMTT(30)
<1>4. RequestTimeout = Second * AtLeast(1, left \div Second)
  BY DEF RequestTimeout
<1> HIDE DEF left
<1>5. CASE left \div Second > 1
  <2>1. RequestTimeout = Second * (left \div Second)
    BY <1>2, <1>3, <1>4, <1>5 DEF AtLeast
  <2>2. left \div Second \in Nat /\ Second * (left \div Second) \in Nat
    BY <1>2, <1>3
  <2>3. Second * (left \div Second) <= left
    BY <1>2, <1>3
  <2>4. QED BY <1>2, <2>1, <2>2, <2>3
<1>6. CASE ~(left \div Second > 1)
  <2>1. AtLeast(1, left \div Second) = 1
    <3>1. left \div Second \in Nat
      BY <1>2, <1>3
    <3>2. QED BY <3>1, <1>6 DEF AtLeast
  <2>2. RequestTimeout = Second * 1
    BY <1>4, <2>1
  <2>3. Second * 1 = Second
    OBVIOUS
  <2>4. RequestTimeout = Second
    BY <2>2, <2>3, Zenon
  <2>5. elapsed + Second < MaxWallTime + Second
    OBVIOUS
  <2>6. QED BY <2>4, <2>5, Zenon
<1>7. QED BY <1>5, <1>6

(* No step leaves the budgets by more than the turn being processed. *)
LEMMA BudgetStep == TypeOK /\ BudgetInv /\ [Next]_vars => BudgetInv'
<1> SUFFICES ASSUME TypeOK, BudgetInv, [Next]_vars PROVE BudgetInv'
  OBVIOUS
<1>0. backend' = backend /\ trickle' = trickle
  BY DEF Next, Step, Ended, vars, setting
<1> USE <1>0, RepliesAssumption, CapsAssumption
    DEF BudgetInv, InTurn, TokenOvershoot, WallOvershoot, TypeOK, ReplyType
<1>1. CASE Exhausted \/ OutOfTime \/ OutOfTokens \/ Ask
  BY <1>1 DEF Exhausted, OutOfTime, OutOfTokens, Ask, StopAt, progress, talk
<1>2. ASSUME NEW r \in Replies, NEW d \in Durations, Respond(r, d)
      PROVE  BudgetInv'
  <2>1. ~trickle => elapsed + d < MaxWallTime + Second
    BY <1>2, TimeoutBound DEF Respond, MayTake
  <2>2. /\ tokens < MaxTotalTokens /\ reply'.cost \in Nat /\ pc' = "tools"
        /\ UNCHANGED <<turns, toolTime, tokens>> /\ elapsed' = elapsed + d
    BY <1>2 DEF Respond
  <2>3. QED BY <2>1, <2>2
<1>3. ASSUME NEW d \in Durations, ProviderFails(d)
      PROVE  BudgetInv'
  <2>1. ~trickle => elapsed + d < MaxWallTime + Second
    BY <1>3, TimeoutBound DEF ProviderFails, MayTake
  <2>2. QED BY <1>3, <2>1 DEF ProviderFails, FinishAndWrite, talk
<1>4. ASSUME NEW d \in Durations, CallTool(d)
      PROVE  BudgetInv'
  BY <1>4 DEF CallTool
<1>5. ASSUME EndTurn, pc' \in {"top", "after", "raised"}
      PROVE  BudgetInv'
  BY <1>5 DEF EndTurn
<1>6. CASE Submit \/ SubmitNull \/ MalformedSubmit \/ Nudge \/ GiveUp \/ Continue
  BY <1>5, <1>6 DEF Submit, SubmitNull, MalformedSubmit, Nudge, GiveUp, Silent, Continue
<1>7. ASSUME UNCHANGED <<progress, talk>>, pc' \notin {"request", "tools"}
      PROVE  BudgetInv'
  BY <1>7 DEF progress, talk
<1>8. CASE RecordNoPatch \/ CheckRaises
  BY <1>7, <1>8 DEF RecordNoPatch, CheckRaises, FinishAndWrite
<1>9. ASSUME NEW slow \in BOOLEAN, Reject(slow) \/ Accept(slow)
      PROVE  BudgetInv'
  BY <1>7, <1>9 DEF Reject, Accept, FinishAndWrite
<1>10. ASSUME NEW f \in {"PROVEN-BMC", "REFUTED", "INDETERMINATE"}, Judge(f)
       PROVE  BudgetInv'
  BY <1>7, <1>10 DEF Judge, FinishAndWrite
<1>11. CASE UNCHANGED vars
  BY <1>11 DEF vars, progress, talk
<1>12. QED
  BY <1>1, <1>2, <1>3, <1>4, <1>6, <1>8, <1>9, <1>10, <1>11
     DEF Next, Step, Act, Ended

LEMMA BudgetInit == Init => BudgetInv
  BY CapsAssumption DEF Init, BudgetInv, InTurn, TokenOvershoot, WallOvershoot

LEMMA BudgetCorrect == Spec => []BudgetInv
<1>1. QED BY BudgetInit, BudgetStep, TypeCorrect, PTL DEF Spec

(* Whatever the caps and the replies: the tokens of a run stay below       *)
(* max_total_tokens plus the cost of its last turn.                        *)
THEOREM TokenOvershootCorrect == Spec => []TokenOvershoot
<1>1. BudgetInv => TokenOvershoot
  BY DEF BudgetInv
<1>2. QED BY <1>1, BudgetCorrect, PTL

(* If requests end within their timeout, the wall clock of a run exceeds   *)
(* max_wall_time_s by less than a second and the tools of its last turn.   *)
THEOREM WallOvershootCorrect == Spec => []WallOvershoot
<1>1. BudgetInv => WallOvershoot
  BY DEF BudgetInv
<1>2. QED BY <1>1, BudgetCorrect, PTL

-----------------------------------------------------------------------------
(* The outcome of a run.                                                   *)

(* A patch with no reason to reject it passes the four checks. *)
LEMMA NoReasonIsAcceptable ==
  ASSUME NEW p \in Patches, NEW slow \in BOOLEAN, InvalidReason(p, slow) = "None"
  PROVE  Promise!Acceptable(p)
  BY PatchesAssumption DEF InvalidReason, Promise!Acceptable

(* A submission is one of the patches, never the absence of one. *)
LEMMA SubmittedIsPatch ==
  ASSUME TypeOK, reply.submits # <<>>
  PROVE  Head(reply.submits) \in Patches /\ Head(reply.submits) # NoPatch
  BY PatchesAssumption DEF TypeOK, ReplyType

(* The stop reason stays true of the run and the submission it goes with. *)
LEMMA OutcomeStep == TypeOK /\ OutcomeInv /\ [Next]_vars => OutcomeInv'
<1> SUFFICES ASSUME TypeOK, OutcomeInv, [Next]_vars PROVE OutcomeInv'
  OBVIOUS
<1> USE PatchesAssumption, CapsAssumption
    DEF OutcomeInv, InLoop, InTurn, StopReasonTrue
<1>1. CASE Exhausted \/ OutOfTime \/ OutOfTokens \/ Ask
  BY <1>1 DEF Exhausted, OutOfTime, OutOfTokens, Ask, StopAt, progress, talk,
              outcome, NoFile
<1>2. ASSUME NEW r \in Replies, NEW d \in Durations, Respond(r, d)
      PROVE  OutcomeInv'
  BY <1>2 DEF Respond, outcome
<1>3. ASSUME NEW d \in Durations, ProviderFails(d)
      PROVE  OutcomeInv'
  BY <1>3 DEF ProviderFails, FinishAndWrite, talk
<1>4. ASSUME NEW d \in Durations, CallTool(d)
      PROVE  OutcomeInv'
  BY <1>4 DEF CallTool, outcome
<1>5. CASE Submit
  <2>1. Head(reply.submits) # NoPatch
    BY <1>5, SubmittedIsPatch DEF Submit
  <2>2. QED BY <1>5, <2>1 DEF Submit, EndTurn, outcome
<1>6. CASE SubmitNull \/ MalformedSubmit \/ Nudge \/ Continue
  BY <1>6 DEF SubmitNull, MalformedSubmit, Nudge, Continue, Silent, EndTurn, outcome
<1>7. CASE GiveUp
  <2>1. CallIds(reply)' = {} /\ nudged'
    BY <1>7 DEF GiveUp, Silent, EndTurn, CallIds
  <2>2. QED BY <1>7, <2>1 DEF GiveUp, Silent, EndTurn, outcome
<1>8. CASE RecordNoPatch
  BY <1>8 DEF RecordNoPatch, FinishAndWrite, progress, talk, CallIds
<1>9. ASSUME NEW slow \in BOOLEAN, Reject(slow)
      PROVE  OutcomeInv'
  BY <1>9 DEF Reject, FinishAndWrite, progress, talk, CallIds
<1>10. ASSUME NEW slow \in BOOLEAN, Accept(slow)
       PROVE  OutcomeInv'
  <2>1. Promise!Acceptable(submitted)
    BY <1>10, NoReasonIsAcceptable DEF Accept, TypeOK
  <2>2. Promise!Acceptable(submitted)'
    BY <1>10, <2>1 DEF Accept, Promise!Acceptable
  <2>3. QED BY <1>10, <2>2 DEF Accept, progress, talk, outcome, CallIds
<1>11. ASSUME NEW f \in {"PROVEN-BMC", "REFUTED", "INDETERMINATE"}, Judge(f)
       PROVE  OutcomeInv'
  BY <1>11 DEF Judge, FinishAndWrite, progress, talk, CallIds
<1>12. CASE CheckRaises
  BY <1>12 DEF CheckRaises, progress, talk, outcome, CallIds
<1>13. CASE UNCHANGED vars
  BY <1>13 DEF vars, progress, talk, outcome, CallIds, Promise!Acceptable
<1>14. QED
  BY <1>1, <1>2, <1>3, <1>4, <1>5, <1>6, <1>7, <1>8, <1>9, <1>10, <1>11,
     <1>12, <1>13 DEF Next, Step, Act, Ended

LEMMA OutcomeInit == Init => OutcomeInv
  BY CapsAssumption
     DEF Init, OutcomeInv, InLoop, InTurn, StopReasonTrue

LEMMA OutcomeCorrect == Spec => []OutcomeInv
<1>1. QED BY OutcomeInit, OutcomeStep, TypeCorrect, PTL DEF Spec

(* stop_reason names what ended the run, whatever the caps are. *)
THEOREM StopReasonCorrect == Spec => []StopReasonTrue
<1>1. OutcomeInv => StopReasonTrue
  BY DEF OutcomeInv
<1>2. QED BY <1>1, OutcomeCorrect, PTL

-----------------------------------------------------------------------------
(* run_task implements TaskRun.                                            *)

(* Every step of run_task is a step of TaskRun or leaves its state alone. *)
LEMMA PromiseStep ==
  TypeOK /\ OutcomeInv /\ [Next]_vars => [Promise!Next]_(Promise!vars)
<1> SUFFICES ASSUME TypeOK, OutcomeInv, [Next]_vars
             PROVE  [Promise!Next]_(Promise!vars)
  OBVIOUS
<1> USE PatchesAssumption
    DEF OutcomeInv, InLoop, InTurn, StopReasonTrue, Status
<1>1. ASSUME UNCHANGED <<submitted, verdict>>, pc # "recorded", pc # "raised",
             pc' # "recorded", pc' # "raised"
      PROVE  UNCHANGED Promise!vars
  BY <1>1 DEF Promise!vars
<1>2. CASE \/ Exhausted \/ OutOfTime \/ OutOfTokens \/ Ask
           \/ SubmitNull \/ Nudge \/ GiveUp \/ Continue
  BY <1>1, <1>2 DEF Exhausted, OutOfTime, OutOfTokens, Ask, StopAt, SubmitNull, Nudge,
                    GiveUp, Silent, Continue, EndTurn, outcome
<1>3. ASSUME NEW r \in Replies, NEW d \in Durations, Respond(r, d)
      PROVE  UNCHANGED Promise!vars
  BY <1>1, <1>3 DEF Respond, outcome
<1>4. ASSUME NEW d \in Durations, CallTool(d)
      PROVE  UNCHANGED Promise!vars
  BY <1>1, <1>4 DEF CallTool, outcome
<1>5. ASSUME NEW slow \in BOOLEAN, Accept(slow)
      PROVE  UNCHANGED Promise!vars
  BY <1>1, <1>5 DEF Accept, outcome
<1>6. ASSUME NEW d \in Durations, ProviderFails(d)
      PROVE  Promise!Record("ERROR")
  BY <1>6 DEF ProviderFails, FinishAndWrite, Promise!Record, Promise!Justified
<1>7. CASE Submit
  <2>1. PICK p \in Patches : p = Head(reply.submits)
    BY <1>7, SubmittedIsPatch DEF Submit
  <2>2. Promise!Submit(p)
    BY <1>7, <2>1 DEF Submit, EndTurn, Promise!Submit, outcome
  <2>3. QED BY <2>2 DEF Promise!Next
<1>8. CASE MalformedSubmit \/ CheckRaises
  <2>1. Promise!Abort
    BY <1>8 DEF MalformedSubmit, CheckRaises, EndTurn, Promise!Abort, outcome
  <2>2. QED BY <2>1 DEF Promise!Next
<1>9. CASE RecordNoPatch
  <2>1. Promise!Record("NO-PATCH")
    BY <1>9 DEF RecordNoPatch, FinishAndWrite, Promise!Record, Promise!Justified
  <2>2. QED BY <2>1 DEF Promise!Next, Promise!Verdicts
<1>10. ASSUME NEW slow \in BOOLEAN, Reject(slow)
       PROVE  Promise!Record("INVALID-PATCH")
  BY <1>10 DEF Reject, FinishAndWrite, Promise!Record, Promise!Justified
<1>11. ASSUME NEW f \in {"PROVEN-BMC", "REFUTED", "INDETERMINATE"}, Judge(f)
       PROVE  Promise!Record(FormalToVerdict(f))
  <2>1. /\ submitted # NoPatch /\ Promise!Acceptable(submitted)
        /\ f = "PROVEN-BMC" => submitted.equivalent
        /\ f = "REFUTED" => ~submitted.equivalent
    BY <1>11 DEF Judge, BmcOutcomes
  <2>2. FormalToVerdict(f) \in Promise!Justified(submitted)
    BY <2>1 DEF Promise!Justified, FormalToVerdict
  <2>3. QED BY <1>11, <2>2 DEF Judge, FinishAndWrite, Promise!Record
<1>12. CASE UNCHANGED vars
  BY <1>12 DEF vars, outcome, Promise!vars
<1>13. ASSUME NEW v \in Promise!Verdicts, Promise!Record(v)
       PROVE  Promise!Next
  BY <1>13 DEF Promise!Next
<1>14. QED
  BY <1>2, <1>3, <1>4, <1>5, <1>6, <1>7, <1>8, <1>9, <1>10, <1>11, <1>12,
     <1>13 DEF Next, Step, Act, Ended, Promise!Verdicts, FormalToVerdict

(* run_task implements TaskRun: whatever the model replies, at most one    *)
(* verdict is recorded, and only one the submitted patch justifies.        *)
THEOREM TaskRunImplemented == Spec => ImplementsTaskRun
<1>1. Init => Promise!Init
  BY DEF Init, Promise!Init, Status
<1>2. QED
  BY <1>1, PromiseStep, TypeCorrect, OutcomeCorrect, PTL
     DEF Spec, ImplementsTaskRun, Promise!Spec

-----------------------------------------------------------------------------
(* The conversation.                                                       *)

(* What comes after an assistant's turn answers no call made before it. *)
LEMMA ResultsKept ==
  ASSUME NEW ms \in Seq(MessageType), NEW long \in Seq(MessageType), Len(ms) <= Len(long),
         \A i \in 1 .. Len(ms) : long[i] = ms[i],
         NEW k \in {Len(ms), Len(ms) + 1}, k <= Len(long), long[k].role = "assistant",
         NEW j \in 1 .. (k - 1), CallsAnswered(ms, j)
  PROVE  CallsAnswered(long, j)
<1>1. Len(ms) \in Nat /\ Len(long) \in Nat /\ j \in 1 .. Len(ms) /\ k \in Nat
  OBVIOUS
<1>2. ASSUME NEW m \in ResultsAfter(long, j) PROVE m \in ResultsAfter(ms, j)
  <2>1. m \in (j + 1) .. Len(long)
        /\ \A n \in (j + 1) .. m : long[n].role # "assistant" /\ long[n].ids # {}
    BY <1>2 DEF ResultsAfter
  <2>2. m < k
    <3>1. k \notin (j + 1) .. m
      BY <2>1
    <3> QED
      BY <1>1, <2>1, <3>1
  <2>3. m \in (j + 1) .. Len(ms)
    BY <1>1, <2>1, <2>2
  <2>4. \A n \in (j + 1) .. m : ms[n] = long[n]
    BY <1>1, <2>3
  <2> QED
    BY <2>1, <2>3, <2>4 DEF ResultsAfter
<1>3. ASSUME NEW m \in ResultsAfter(ms, j) PROVE m \in ResultsAfter(long, j)
  <2>1. m \in (j + 1) .. Len(ms)
        /\ \A n \in (j + 1) .. m : ms[n].role # "assistant" /\ ms[n].ids # {}
    BY <1>3 DEF ResultsAfter
  <2>2. \A n \in (j + 1) .. m : ms[n] = long[n]
    BY <1>1, <2>1
  <2>3. m \in (j + 1) .. Len(long)
    BY <1>1, <2>1
  <2> QED
    BY <2>1, <2>2, <2>3 DEF ResultsAfter
<1>4. ResultsAfter(long, j) = ResultsAfter(ms, j)
  BY <1>2, <1>3
<1>5. \A m \in ResultsAfter(ms, j) : long[m] = ms[m]
  BY <1>1 DEF ResultsAfter
<1>6. long[j] = ms[j]
  BY <1>1
<1>7. { long[m].ids : m \in ResultsAfter(long, j) } = { ms[m].ids : m \in ResultsAfter(ms, j) }
  BY <1>4, <1>5
<1>8. \A m, n \in ResultsAfter(ms, j) :
        ms[j].role = "assistant" /\ m # n => long[m].ids \cap long[n].ids = {}
  BY <1>5 DEF CallsAnswered
<1> QED
  BY <1>4, <1>6, <1>7, <1>8 DEF CallsAnswered

(* The results of a turn answer its calls, and alternate with it. *)
LEMMA TurnAnswered ==
  ASSUME TypeOK, TalkInv, pc = "tools", NEW new \in Seq(MessageType),
         NEW R \in SUBSET Nat, R = ResultsAfter(messages \o new, Len(messages)),
         \A i \in DOMAIN new : new[i].role # "assistant",
         UNION { (messages \o new)[m].ids : m \in R } = CallIds(reply),
         \A m, n \in R : m # n => (messages \o new)[m].ids \cap (messages \o new)[n].ids = {}
  PROVE  \A j \in 1 .. Len(messages \o new) : CallsAnswered(messages \o new, j)
<1> DEFINE long == messages \o new
<1>1. /\ messages \in Seq(MessageType) /\ long \in Seq(MessageType)
      /\ Len(messages) \in Nat \ {0} /\ Len(new) \in Nat
      /\ Len(long) = Len(messages) + Len(new)
      /\ \A i \in 1 .. Len(messages) : long[i] = messages[i]
      /\ \A i \in (Len(messages) + 1) .. Len(long) :
           i - Len(messages) \in DOMAIN new /\ long[i] = new[i - Len(messages)]
  BY DEF TypeOK, TalkInv
<1>2. /\ long[Len(messages)].role = "assistant" /\ long[Len(messages)].ids = CallIds(reply)
      /\ \A j \in 1 .. (Len(messages) - 1) : CallsAnswered(messages, j)
  BY <1>1 DEF TalkInv
<1>3. CallsAnswered(long, Len(messages))
  BY <1>2 DEF CallsAnswered
<1> HIDE DEF long
<1>4. ASSUME NEW j \in 1 .. Len(long) PROVE CallsAnswered(long, j)
  <2>1. CASE j < Len(messages)
    <3>1. j \in 1 .. (Len(messages) - 1)
      BY <1>1, <2>1
    <3>2. CallsAnswered(messages, j)
      BY <1>2, <3>1
    <3>3. Len(messages) <= Len(long)
      BY <1>1
    <3> QED
      BY <1>1, <1>2, <3>1, <3>2, <3>3, ResultsKept
  <2>2. CASE j = Len(messages)
    BY <1>3, <2>2
  <2>3. CASE j > Len(messages)
    <3>1. j \in (Len(messages) + 1) .. Len(long)
      BY <1>1, <2>3
    <3>2. long[j].role # "assistant"
      BY <1>1, <3>1
    <3> QED
      BY <3>2 DEF CallsAnswered
  <2> QED
    BY <1>1, <2>1, <2>2, <2>3
<1> QED
  BY <1>4 DEF long

(* One more message keeps the roles alternating. *)
LEMMA AlternateAppend ==
  ASSUME NEW ms \in Seq(MessageType), NEW x \in MessageType, RolesAlternate(ms),
         x.role = IF Len(ms) % 2 = 1 THEN "assistant" ELSE "user",
         Len(ms) % 2 \in {0, 1}
  PROVE  /\ RolesAlternate(Append(ms, x))
         /\ Len(ms) % 2 = 1 => Len(Append(ms, x)) % 2 = 0
         /\ Len(ms) % 2 = 0 => Len(Append(ms, x)) % 2 = 1
<1>1. Len(ms) \in Nat /\ Len(Append(ms, x)) = Len(ms) + 1
  OBVIOUS
<1>2. /\ Len(ms) % 2 = 1 => (Len(ms) + 1) % 2 = 0
      /\ Len(ms) % 2 = 0 => (Len(ms) + 1) % 2 = 1
  BY <1>1
<1>3. ASSUME NEW j \in 1 .. Len(Append(ms, x))
      PROVE  Append(ms, x)[j].role = IF j % 2 = 1 THEN "user" ELSE "assistant"
  <2>1. CASE j \in 1 .. Len(ms)
    <3>1. Append(ms, x)[j] = ms[j]
      BY <2>1
    <3> QED
      BY <2>1, <3>1 DEF RolesAlternate
  <2>2. CASE j = Len(ms) + 1
    <3>1. Append(ms, x)[j] = x
      BY <2>2
    <3> QED
      BY <1>2, <2>2, <3>1
  <2> QED
    BY <1>1, <2>1, <2>2
<1> QED
  BY <1>1, <1>2, <1>3 DEF RolesAlternate

(* Appending a message is concatenating a list of one. *)
LEMMA AppendOne ==
  ASSUME NEW ms \in Seq(MessageType), NEW x \in MessageType, x.role # "assistant"
  PROVE  /\ Append(ms, x) = ms \o <<x>> /\ <<x>> \in Seq(MessageType)
         /\ Len(ms) \in Nat /\ Len(ms \o <<x>>) = Len(ms) + 1
         /\ (ms \o <<x>>)[Len(ms) + 1] = x
         /\ \A i \in DOMAIN <<x>> : <<x>>[i].role # "assistant"
<1>1. /\ Append(ms, x) = ms \o <<x>> /\ <<x>> \in Seq(MessageType)
      /\ Len(ms) \in Nat /\ Len(ms \o <<x>>) = Len(ms) + 1
      /\ (ms \o <<x>>)[Len(ms) + 1] = x
  OBVIOUS
<1>2. DOMAIN <<x>> = 1 .. 1 /\ <<x>>[1] = x
  OBVIOUS
<1>3. \A i \in 1 .. 1 : i = 1
  OBVIOUS
<1> QED
  BY <1>1, <1>2, <1>3

(* Every step keeps the conversation answered. *)
LEMMA TalkStep == ASSUME TypeOK, TalkInv, [Next]_vars PROVE TalkInv'
<1>0. backend' = backend
  BY DEF Next, Step, Ended, vars, setting
<1>1. ASSUME UNCHANGED messages, pc' \in {"top", "request"} => pc \in {"top", "request"},
             pc' = "tools" => pc = "tools" /\ reply' = reply
      PROVE  TalkInv'
  <2>1. pc' = "tools" => CallIds(reply)' = CallIds(reply)
    BY <1>1 DEF CallIds
  <2> QED
    BY <1>0, <1>1, <2>1 DEF TalkInv
<1>2. CASE \/ Exhausted \/ OutOfTime \/ OutOfTokens \/ Ask \/ Submit \/ SubmitNull
           \/ MalformedSubmit \/ GiveUp \/ RecordNoPatch \/ CheckRaises \/ UNCHANGED vars
  BY <1>1, <1>2 DEF Exhausted, OutOfTime, OutOfTokens, Ask, StopAt, Submit, SubmitNull,
     MalformedSubmit, GiveUp, Silent, RecordNoPatch, FinishAndWrite, CheckRaises, vars, talk
<1>3. ASSUME NEW d \in Durations, ProviderFails(d) \/ CallTool(d) PROVE TalkInv'
  BY <1>1, <1>3 DEF ProviderFails, CallTool, FinishAndWrite, talk
<1>4. ASSUME NEW slow \in BOOLEAN, Reject(slow) \/ Accept(slow) PROVE TalkInv'
  BY <1>1, <1>4 DEF Reject, Accept, FinishAndWrite, talk
<1>5. ASSUME NEW f \in {"PROVEN-BMC", "REFUTED", "INDETERMINATE"}, Judge(f) PROVE TalkInv'
  BY <1>1, <1>5 DEF Judge, FinishAndWrite, talk
<1>6. ASSUME NEW r \in Replies, NEW d \in Durations, Respond(r, d) PROVE TalkInv'
  <2> DEFINE x == [role |-> "assistant", ids |-> CallIds(r)]
  <2>1. /\ pc = "request" /\ pc' = "tools" /\ reply' = r /\ messages' = Append(messages, x)
    BY <1>6 DEF Respond
  <2>2. x \in MessageType /\ messages \in Seq(MessageType)
    BY RepliesAssumption DEF ReplyType, CallIds, MessageType, TypeOK
  <2>3. /\ messages' \in Seq(MessageType) /\ Len(messages) \in Nat
        /\ Len(messages') = Len(messages) + 1 /\ messages'[Len(messages')] = x
        /\ \A i \in 1 .. Len(messages) : messages'[i] = messages[i]
        /\ Len(messages) + 1 \in {Len(messages), Len(messages) + 1}
        /\ Len(messages) <= Len(messages')
    BY <2>1, <2>2
  <2>4. x.role = "assistant" /\ x.ids = CallIds(reply')
    BY <2>1
  <2>5. CallIds(reply)' = CallIds(reply')
    BY DEF CallIds
  <2> HIDE DEF x
  <2>6. ASSUME NEW j \in 1 .. (Len(messages') - 1) PROVE CallsAnswered(messages', j)
    <3>1. j \in 1 .. Len(messages) /\ j \in 1 .. ((Len(messages) + 1) - 1)
      BY <2>3
    <3>2. CallsAnswered(messages, j)
      BY <2>1, <3>1 DEF TalkInv
    <3>3. Len(messages) + 1 <= Len(messages') /\ messages'[Len(messages) + 1].role = "assistant"
      BY <2>3, <2>4
    <3> QED
      BY <2>2, <2>3, <3>1, <3>2, <3>3, ResultsKept
  <2>7. backend = "anthropic" => RolesAlternate(messages') /\ Len(messages') % 2 = 0
    BY <2>1, <2>2, <2>4, AlternateAppend DEF TalkInv
  <2>8. messages' # <<>> /\ messages'[Len(messages')].role = "assistant"
        /\ messages'[Len(messages')].ids = CallIds(reply)'
    BY <2>3, <2>4, <2>5
  <2> QED
    BY <1>0, <2>1, <2>6, <2>7, <2>8 DEF TalkInv
<1>7. CASE Nudge
  <2> DEFINE x == [role |-> "user", ids |-> {}]
  <2>1. /\ pc = "tools" /\ pc' = "top" /\ messages' = Append(messages, x) /\ CallIds(reply) = {}
    BY <1>7 DEF Nudge, Silent, EndTurn
  <2>2. x \in MessageType /\ messages \in Seq(MessageType)
    BY DEF MessageType, TypeOK
  <2>3. /\ messages' = messages \o <<x>> /\ Len(messages) \in Nat /\ <<x>> \in Seq(MessageType)
        /\ Len(messages \o <<x>>) = Len(messages) + 1 /\ (messages \o <<x>>)[Len(messages) + 1] = x
        /\ \A i \in DOMAIN <<x>> : <<x>>[i].role # "assistant"
    <3>1. x.role # "assistant"
      OBVIOUS
    <3> HIDE DEF x
    <3> QED
      BY <2>1, <2>2, <3>1, AppendOne
  <2>4. x.role = "user" /\ x.ids = {}
    OBVIOUS
  <2> HIDE DEF x
  <2>5. ResultsAfter(messages \o <<x>>, Len(messages)) = {}
    <3>1. ASSUME NEW m \in ResultsAfter(messages \o <<x>>, Len(messages)) PROVE FALSE
      <4>1. m \in (Len(messages) + 1) .. (Len(messages) + 1)
            /\ \A n \in (Len(messages) + 1) .. m : (messages \o <<x>>)[n].ids # {}
        BY <2>3, <3>1 DEF ResultsAfter
      <4>2. m = Len(messages) + 1
        BY <2>3, <4>1
      <4> QED
        BY <2>3, <2>4, <4>1, <4>2
    <3> QED
      BY <3>1
  <2>6. \A j \in 1 .. Len(messages \o <<x>>) : CallsAnswered(messages \o <<x>>, j)
    <3>1. UNION { (messages \o <<x>>)[m].ids : m \in {} } = {}
      OBVIOUS
    <3> QED
      BY <2>1, <2>3, <2>5, <3>1, TurnAnswered
  <2>7. backend = "anthropic" => RolesAlternate(messages') /\ Len(messages') % 2 = 1
    BY <2>1, <2>2, <2>4, AlternateAppend DEF TalkInv
  <2> QED
    BY <1>0, <2>1, <2>3, <2>6, <2>7 DEF TalkInv
<1>8. CASE Continue
  <2>1. /\ pc = "tools" /\ pc' = "top" /\ messages' = messages \o ToolResults
        /\ answered = reply.others /\ answered > 0 /\ reply.submits = <<>>
    BY <1>8 DEF Continue, EndTurn
  <2>2. answered \in Nat \ {0} /\ messages \in Seq(MessageType) /\ Len(messages) \in Nat
        /\ CallIds(reply) = 1 .. answered
    BY <2>1 DEF TypeOK, ReplyType, CallIds
  <2>3. CASE backend = "anthropic"
    <3> DEFINE x == [role |-> "user", ids |-> 1 .. answered]
    <3>1. ToolResults = <<x>> /\ x \in MessageType
      BY <2>2, <2>3 DEF ToolResults, MessageType
    <3>2. x.role = "user" /\ x.ids = 1 .. answered /\ x.ids # {}
      <4>1. 1 \in 1 .. answered
        BY <2>2
      <4> QED
        BY <4>1
    <3> HIDE DEF x
    <3>3. /\ messages' = messages \o <<x>> /\ messages' = Append(messages, x)
          /\ <<x>> \in Seq(MessageType)
          /\ Len(messages \o <<x>>) = Len(messages) + 1 /\ (messages \o <<x>>)[Len(messages) + 1] = x
          /\ \A i \in DOMAIN <<x>> : <<x>>[i].role # "assistant"
      BY <2>1, <2>2, <3>1, <3>2, AppendOne
    <3>4. ResultsAfter(messages \o <<x>>, Len(messages)) = {Len(messages) + 1}
      <4>1. \A m \in (Len(messages) + 1) .. (Len(messages) + 1) : m = Len(messages) + 1
        BY <2>2
      <4>2. \A m \in (Len(messages) + 1) .. (Len(messages) + 1) :
              (messages \o <<x>>)[m].role # "assistant" /\ (messages \o <<x>>)[m].ids # {}
        BY <3>2, <3>3, <4>1
      <4>3. Len(messages) + 1 \in (Len(messages) + 1) .. (Len(messages) + 1)
        BY <2>2
      <4> QED
        BY <3>3, <4>1, <4>2, <4>3 DEF ResultsAfter
    <3>5. UNION { (messages \o <<x>>)[m].ids : m \in {Len(messages) + 1} } = CallIds(reply)
      BY <2>2, <3>2, <3>3
    <3>6. {Len(messages) + 1} \in SUBSET Nat
      BY <2>2
    <3>7. \A j \in 1 .. Len(messages \o <<x>>) : CallsAnswered(messages \o <<x>>, j)
      BY <2>1, <3>3, <3>4, <3>5, <3>6, TurnAnswered
    <3>8. RolesAlternate(messages') /\ Len(messages') % 2 = 1
      <4>1. RolesAlternate(messages) /\ Len(messages) % 2 = 0
        BY <2>1, <2>3 DEF TalkInv
      <4>2. x.role = IF Len(messages) % 2 = 1 THEN "assistant" ELSE "user"
        BY <3>2, <4>1
      <4>3. RolesAlternate(Append(messages, x)) /\ Len(Append(messages, x)) % 2 = 1
        BY <2>2, <3>1, <4>1, <4>2, AlternateAppend
      <4> QED
        BY <3>3, <4>3
    <3>9. \A j \in 1 .. Len(messages') : CallsAnswered(messages', j)
      BY <3>3, <3>7
    <3> QED
      BY <1>0, <2>1, <3>8, <3>9 DEF TalkInv
  <2>4. CASE backend # "anthropic"
    <3> DEFINE new == [k \in 1 .. answered |-> [role |-> "tool", ids |-> {k}]]
               long == messages \o new
               R == (Len(messages) + 1) .. (Len(messages) + answered)
    <3>1. ToolResults = new
      BY <2>4 DEF ToolResults
    <3>2. new \in Seq(MessageType) /\ Len(new) = answered /\ DOMAIN new = 1 .. answered
      <4>1. new \in [1 .. answered -> MessageType]
        BY DEF MessageType
      <4> QED
        BY <2>2, <4>1
    <3>3. \A k \in 1 .. answered : new[k].role = "tool" /\ new[k].ids = {k}
      OBVIOUS
    <3> HIDE DEF new
    <3>4. /\ long \in Seq(MessageType) /\ Len(long) = Len(messages) + answered
          /\ \A m \in R : m - Len(messages) \in 1 .. answered /\ long[m] = new[m - Len(messages)]
      BY <2>2, <3>2
    <3>5. \A m \in R : long[m].role = "tool" /\ long[m].ids = {m - Len(messages)}
      BY <3>3, <3>4
    <3> HIDE DEF long
    <3>6. ResultsAfter(long, Len(messages)) = R
      <4>1. \A m \in R : \A n \in (Len(messages) + 1) .. m : n \in R
        BY <2>2
      <4>2. \A n \in R : long[n].role # "assistant" /\ long[n].ids # {}
        BY <3>5
      <4> QED
        BY <3>4, <4>1, <4>2 DEF ResultsAfter
    <3>7. UNION { long[m].ids : m \in R } = CallIds(reply)
      <4>1. ASSUME NEW i \in UNION { long[m].ids : m \in R } PROVE i \in 1 .. answered
        <5>1. PICK m \in R : i \in long[m].ids
          BY <4>1
        <5> QED
          BY <3>4, <3>5, <5>1
      <4>2. ASSUME NEW i \in 1 .. answered PROVE i \in UNION { long[m].ids : m \in R }
        <5>1. Len(messages) + i \in R /\ (Len(messages) + i) - Len(messages) = i
          BY <2>2
        <5>2. i \in long[Len(messages) + i].ids
          BY <3>5, <5>1
        <5> QED
          BY <5>1, <5>2
      <4> QED
        BY <2>2, <4>1, <4>2
    <3>8. ASSUME NEW m \in R, NEW n \in R, m # n PROVE long[m].ids \cap long[n].ids = {}
      <4>1. m - Len(messages) # n - Len(messages)
        BY <2>2, <3>8
      <4> QED
        BY <3>5, <4>1
    <3>9. R \in SUBSET Nat
      BY <2>2
    <3>10. \A i \in DOMAIN new : new[i].role # "assistant"
      BY <3>2, <3>3
    <3> HIDE DEF R
    <3>11. \A j \in 1 .. Len(long) : CallsAnswered(long, j)
      BY <2>1, <3>2, <3>6, <3>7, <3>8, <3>9, <3>10, TurnAnswered DEF long
    <3> QED
      BY <1>0, <2>1, <2>4, <3>1, <3>11 DEF TalkInv, long
  <2> QED
    BY <2>3, <2>4
<1> QED
  BY <1>2, <1>3, <1>4, <1>5, <1>6, <1>7, <1>8 DEF Next, Step, Act, Ended

(* Whatever the model replies and however many tools it calls at once, no  *)
(* request carries a call without its one result, and the roles alternate. *)
THEOREM ConversationAnsweredCorrect == Spec => []ConversationAnswered
<1>1. Init => TalkInv
  <2> SUFFICES ASSUME Init PROVE TalkInv
    OBVIOUS
  <2>1. /\ pc = "top" /\ Len(messages) = 1 /\ messages[1].role = "user"
    BY DEF Init
  <2>2. \A j \in 1 .. 1 : j = 1
    OBVIOUS
  <2>3. 1 % 2 = 1
    OBVIOUS
  <2> QED
    BY <2>1, <2>2, <2>3 DEF TalkInv, CallsAnswered, RolesAlternate
<1>2. TalkInv => ConversationAnswered
  BY DEF TalkInv, ConversationAnswered
<1> QED
  BY <1>1, <1>2, TalkStep, TypeCorrect, PTL DEF Spec
=============================================================================
