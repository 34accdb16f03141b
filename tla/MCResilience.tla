----------------------------- MODULE MCResilience -----------------------------
(* Resilience on a small instance: interchangeable callers. *)
EXTENDS Resilience, TLC

CallerSymmetry == Permutations(Callers)
=============================================================================
