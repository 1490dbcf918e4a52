---------------------------- MODULE MCConnections ----------------------------
(* A small instance of Connections. *)
EXTENDS Connections, TLC

\* A PATCH of one field, and one of the other with a new secret.
SomePatches ==
    {[sets |-> {"dest"}, secret |-> FALSE], [sets |-> {"policy"}, secret |-> TRUE]}

Symmetry == Permutations(Patchers) \cup Permutations(Simulators)

=============================================================================
