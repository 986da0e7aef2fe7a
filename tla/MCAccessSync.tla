----------------------------- MODULE MCAccessSync -----------------------------
(***************************************************************************)
(* AccessSync for TLC: two policies, an administrator a and two users.     *)
(***************************************************************************)
EXTENDS AccessSync, TLC

CONSTANTS a, b, c

\* The two policies are alike.
PolicySymmetry == Permutations(Policies)
===============================================================================
