----------------------------- MODULE MCPipeline -----------------------------
(***************************************************************************)
(* Small instances of Pipeline.                                            *)
(***************************************************************************)
EXTENDS Pipeline

CONSTANTS k1, k2, c1, w1, w2, e1, e2

\* One connection, two provider ids; the first can be stored twice when
\* retention has purged its row.
OneConn == [k \in Keys |-> c1]
SameKey == [e \in EventIds |-> k1]
KeyPerEvent == [e \in EventIds |-> IF e = e1 THEN k1 ELSE k2]

=============================================================================
