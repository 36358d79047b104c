------------------------------ MODULE Scripts ------------------------------
(***************************************************************************)
(* What is started by hand, again and again, on the files that earlier     *)
(* invocations left: the batch driver of the evaluation, the scripts that  *)
(* publish the corpus, and the stub scripts.  They share no file that one  *)
(* of them writes, so one part is looked at and the variables of the       *)
(* others stay as they are.                                                *)
(***************************************************************************)
EXTENDS SmokeBatch, Publish, Harness

VARIABLE part  \* the one that is looked at

vars == <<part, smokeVars, publishVars, harnessVars>>

(* There is a corpus to start with.                                         *)
ASSUME CorpusAssumption == Publishable # {} /\ KeepLists # {}

(* Nothing is lost by starting what is not looked at in one state only.     *)
Init ==
  /\ part \in {"smoke", "publish", "harness"}
  /\ SmokeInit /\ (part = "smoke" \/ config = CHOOSE c \in Config : TRUE)
  /\ IF part = "publish" THEN PublishInit
     ELSE PublishStart(CHOOSE files \in Publishable : TRUE)
  /\ IF part = "harness" THEN HarnessInit
     ELSE HarnessStart(CHOOSE list \in KeepLists : TRUE, NoFile)

Batch ==
  /\ part = "smoke" /\ SmokeNext
  /\ UNCHANGED <<part, publishVars, harnessVars>>

Publishing ==
  /\ part = "publish" /\ PublishNext
  /\ UNCHANGED <<part, smokeVars, harnessVars>>

Stubs ==
  /\ part = "harness" /\ HarnessNext
  /\ UNCHANGED <<part, smokeVars, publishVars>>

Next == Batch \/ Publishing \/ Stubs

Spec == Init /\ [][Next]_vars

(* A batch that has been started goes on; nobody has to start anything.     *)
FairSpec == Spec /\ WF_smokeVars(part = "smoke" /\ Work)
=============================================================================
