------------------------------- MODULE MCAuth -------------------------------
(* Auth with names, sessions and requests that differ in nothing else.     *)
EXTENDS Auth, TLC

AuthSymmetry == Permutations(Names) \cup Permutations(Tokens) \cup Permutations(Threads)
=============================================================================
