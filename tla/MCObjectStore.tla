--------------------------- MODULE MCObjectStore ---------------------------
(* Instances of ObjectStore for TLC. *)
EXTENDS ObjectStore

CONSTANTS o1, s1, t1

OneRaw == {s1}

Thread == {t1}
=============================================================================
