---------------------------- MODULE MCExamHarvest ---------------------------
(* Small instances of ExamHarvest for TLC.                                 *)
EXTENDS ExamHarvest, TLC

CONSTANTS a1, a2, a3, x

(* Two attempts of one deployment, more than a batch of one takes, next to *)
(* an attempt whose exam row is gone.                                      *)
WithOrphan == a1 :> x @@ a2 :> x @@ a3 :> None

(* Only the first attempt is saved to.                                     *)
FirstSaved == [a \in AttemptId |-> IF a = a1 THEN 1 ELSE 0]
============================================================================
