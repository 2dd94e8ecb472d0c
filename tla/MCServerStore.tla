---------------------------- MODULE MCServerStore ----------------------------
EXTENDS ServerStore, TLC

Symmetric == Permutations(Controllers)
=============================================================================
