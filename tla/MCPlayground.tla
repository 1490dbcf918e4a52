---------------------------- MODULE MCPlayground ----------------------------
(* Instances of PlaygroundHub. *)
EXTENDS PlaygroundHub

OneAddress == [s \in Streams |-> CHOOSE i \in IPs : TRUE]

=============================================================================
