---------------------------- MODULE MCTaskEngine ----------------------------
(* Small instances of TaskEngine.                                          *)
EXTENDS TaskEngine

OneStep == {"edit"}
TwoSteps == {"edit", "test"}
Independent == [k \in StepKeys |-> {}]
Chained == [k \in StepKeys |-> IF k = "test" THEN {"edit"} ELSE {}]
Propose == [e \in Effects |-> "propose"]
Execute == [e \in Effects |-> "run"]
=============================================================================
