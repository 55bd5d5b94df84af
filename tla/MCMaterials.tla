---------------------------- MODULE MCMaterials ----------------------------
(* Finite instances of Materials: how materials, tasks and groups relate. *)
EXTENDS Materials, TLC

CONSTANTS m1, m2, t1, g1, s1, s2

OneTask == (m1 :> t1 @@ m2 :> t1)

Alone == (m1 :> t1)

OneGroup == [t \in Tasks |-> g1]

\* Materials of one task are interchangeable.
Symmetry == Permutations(Materials)
=============================================================================
