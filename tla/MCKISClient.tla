---------------------------- MODULE MCKISClient -----------------------------
(* Requests and auth-router tasks over a small number of tokens.            *)
EXTENDS KISClient, TLC


(* The requests are interchangeable. *)
RequestSymmetry == Permutations(Requests)
=============================================================================
