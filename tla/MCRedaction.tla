---------------------------- MODULE MCRedaction ----------------------------
(* Instances of Redaction for TLC. *)
EXTENDS Redaction

CONSTANT Length

\* Texts of that odd length of two-byte characters but for one line end.
SomeShapes ==
  {[len |-> Length, nl |-> {2 * k},
    at |-> {i \in 0..Length : IF i <= 2 * k THEN i % 2 = 0 ELSE i % 2 = 1}] :
     k \in 0..(Length \div 2)}
=============================================================================
