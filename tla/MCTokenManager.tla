---------------------------- MODULE MCTokenManager ----------------------------
(* TokenManager for TLC: processes, callers and Google's apps are interchangeable. *)
EXTENDS TokenManager, TLC

AllSymmetry == Permutations(Processes) \cup Permutations(Callers) \cup Permutations(GoogleApps)
===============================================================================
