----------------------------- MODULE PageStream -----------------------------
(***************************************************************************)
(* What the extraction of a PDF promises its caller: the selected pages,   *)
(* one at a time and in order.  A page is rendered once the pages before   *)
(* it are collected, and an extraction succeeds only with all of them.     *)
(***************************************************************************)
EXTENDS Naturals

VARIABLES wanted, rendered, collected, outcome

vars == <<wanted, rendered, collected, outcome>>

Init ==
  /\ wanted \subseteq Nat
  /\ rendered = {} /\ collected = {}
  /\ outcome = "running"

\* The child renders even after its parent has given up.
Render ==
  \E n \in wanted \ rendered :
    /\ rendered = collected
    /\ \A m \in wanted \ rendered : n <= m
    /\ rendered' = rendered \cup {n}
    /\ UNCHANGED <<wanted, collected, outcome>>

Collect ==
  \E n \in rendered \ collected :
    /\ outcome = "running"
    /\ collected' = collected \cup {n}
    /\ UNCHANGED <<wanted, rendered, outcome>>

Succeed ==
  /\ outcome = "running"
  /\ collected = wanted
  /\ outcome' = "ok"
  /\ UNCHANGED <<wanted, rendered, collected>>

Fail ==
  /\ outcome = "running"
  /\ outcome' = "failed"
  /\ UNCHANGED <<wanted, rendered, collected>>

Next == Render \/ Collect \/ Succeed \/ Fail

Spec == Init /\ [][Next]_vars
=============================================================================
