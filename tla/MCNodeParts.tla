----------------------------- MODULE MCNodeParts -----------------------------
(***************************************************************************)
(* The node's small components for TLC, which share no state: a behaviour  *)
(* takes the steps of one of them and leaves the others as they start.     *)
(***************************************************************************)
EXTENDS DeploymentFence, LoginLimit, IntegrityEvents, Migrations, Grading,
        Enrolment, TLC

VARIABLE part

partVars == <<part, fenceVars, loginVars, integrityVars, migrationVars,
              gradingVars, enrolmentVars>>

Init ==
  /\ part \in {"fence", "login", "integrity", "migrations", "grading",
               "enrolment"}
  /\ FenceInit /\ LoginInit /\ IntegrityInit
  /\ MigrationInit /\ (part # "migrations" => schema = {})
  /\ IF part = "grading" THEN GradingInit
     ELSE /\ question = [type |-> "essay", key |-> Blank, accepted |-> {},
                         manual |-> FALSE]
          /\ sheet = NoSheet /\ attemptGrade = Ungraded
  /\ EnrolmentInit
  /\ (part # "enrolment" => enrolled = [s \in {} |-> 0] /\ maxAttempts = 1)

Turn(name) == part = name /\ UNCHANGED part

FenceTurn ==
  /\ Turn("fence")
  /\ UNCHANGED <<loginVars, integrityVars, migrationVars, gradingVars,
                 enrolmentVars>>

Next ==
  \/ FenceTurn /\ FenceNext
  \/ /\ Turn("login") /\ LoginNext
     /\ UNCHANGED <<fenceVars, integrityVars, migrationVars, gradingVars,
                 enrolmentVars>>
  \/ /\ Turn("integrity") /\ IntegrityNext
     /\ UNCHANGED <<fenceVars, loginVars, migrationVars, gradingVars,
                 enrolmentVars>>
  \/ /\ Turn("migrations") /\ MigrationNext
     /\ UNCHANGED <<fenceVars, loginVars, integrityVars, gradingVars,
                    enrolmentVars>>
  \/ /\ Turn("grading") /\ GradingNext
     /\ UNCHANGED <<fenceVars, loginVars, integrityVars, migrationVars,
                    enrolmentVars>>
  \/ /\ Turn("enrolment") /\ EnrolmentNext
     /\ UNCHANGED <<fenceVars, loginVars, integrityVars, migrationVars,
                    gradingVars>>

(* FenceFairness, where it is the fence's turn.                            *)
Spec == Init /\ [][Next]_partVars /\ WF_partVars(FenceTurn /\ Reconcile)

PartsTypeOK ==
  /\ FenceTypeOK /\ LoginTypeOK /\ IntegrityTypeOK /\ MigrationTypeOK
  /\ GradingTypeOK /\ EnrolmentTypeOK

(* Three migrations of one or two changes.                                 *)
TwoTwoOne == <<2, 2, 1>>
LastRefused == {<<3, 1>>}

(* Texts: one word written in two ways, and what fmt.Sprint prints for a   *)
(* million.  Literals: 1, which prints as it is written, and a million.   *)
Texts == {"1", " 1 ", "1e+06"}
TextWords == {"1", "1e+06", "1000000"}
FoldedTexts == "1" :> "1" @@ " 1 " :> "1" @@ "1e+06" :> "1e+06"
TwoLiterals == {"one", "million"}
WrittenLiterals  == "one" :> "1" @@ "million" :> "1000000"
SprintedLiterals == "one" :> "1" @@ "million" :> "1e+06"
=============================================================================
