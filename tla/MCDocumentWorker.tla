-------------------------- MODULE MCDocumentWorker --------------------------
(* Instances of DocumentWorker for TLC. *)
EXTENDS DocumentWorker

TwoScanned == {1, MaxPages}
=============================================================================
