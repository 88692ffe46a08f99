-------------------------- MODULE MCSessionLifecycle --------------------------
(* Small instances of SessionLifecycle for TLC. *)
EXTENDS SessionLifecycle, TLC

Interchangeable == Permutations(Sessions) \cup Permutations(Workers) \cup Permutations(Users)
=============================================================================
