------------------------ MODULE MCProviderCredential ------------------------
(* TLC instances of ProviderCredential. *)
EXTENDS ProviderCredential, TLC

\* Keys are interchangeable.
Symmetry == Permutations(Keys)
=============================================================================
