--------------------------- MODULE MCEmbeddedStore ---------------------------
(* Model-checking instance of EmbeddedStore: interchangeable controllers.   *)
EXTENDS EmbeddedStore, TLC

Symmetric == Permutations(Controllers)
=============================================================================
