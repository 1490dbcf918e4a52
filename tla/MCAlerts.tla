------------------------------ MODULE MCAlerts ------------------------------
(***************************************************************************)
(* The evaluators with their memory, for TLC: workers that run the same    *)
(* binary are interchangeable.                                             *)
(***************************************************************************)
EXTENDS AlertPromise, TLC

WorkersAlike == Permutations(Workers)

=============================================================================
