------------------------- MODULE MCFeedbackOutbox -------------------------
(* The outbox on a small instance; processes and nonces are interchangeable. *)
EXTENDS FeedbackOutbox, TLC

Symmetric == Permutations(Processes) \cup Permutations(Nonces)
=============================================================================
