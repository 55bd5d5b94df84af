----------------------------- MODULE MCAdmission -----------------------------
(* Instances of Admission for TLC. *)
EXTENDS Admission

CONSTANTS j1, j2, j3

\* A run and a material hold the model permit while they wait for the parser, which
\* an export may hold and leave to a blocking worker.
MixedKinds ==
  [j \in {j1, j2, j3} |->
     CASE j = j1 -> "run" [] j = j2 -> "material" [] j = j3 -> "export"]

OneActive == [p \in Pools |-> 1]

OneWaiting == [p \in Classes |-> 1]
=============================================================================
