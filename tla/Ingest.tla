------------------------------- MODULE Ingest -------------------------------
(***************************************************************************)
(* The ingest handler of internal/api/server.go.  Each member of Reqs is a *)
(* goroutine serving one request at a time; a request that is rejected     *)
(* before InsertEvent (body too large, unknown path, bad signature)        *)
(* changes nothing and is left out.                                        *)
(*                                                                         *)
(* net/http buffers the short 200 answer and sends it when the handler     *)
(* returns, so the provider has its acknowledgement at Reply, after the    *)
(* workflow has been started or has failed to start.  The provider may     *)
(* send a key again at any time, acknowledged or not.                      *)
(***************************************************************************)
EXTENDS Temporal

CONSTANTS
    Reqs,       \* goroutines of the API process that serve webhooks
    NoKey

ASSUME IngestAssumption == NoKey \notin Keys

VARIABLES
    req,        \* where each handler goroutine stands
    acked       \* history: the keys that were answered with 200

ingestVars == <<req, acked>>

NoReq == [pc |-> "idle", key |-> NoKey, ev |-> NoEvent]
Req == [pc: {"idle", "start", "setwf", "reply"}, key: Keys \cup {NoKey},
        ev: EventIds \cup {NoEvent}]

IngestInit ==
    /\ req = [q \in Reqs |-> NoReq]
    /\ acked = {}

At(q, pc) == req[q].pc = pc

Goto(q, pc) == req' = [req EXCEPT ![q].pc = pc]

\* mutant: Inserted is not looked at, and the row found is started like a new one
DuplicateStarts(q, k) ==
    /\ At(q, "idle")
    /\ \E e \in Conflicts(k) :
         req' = [req EXCEPT ![q] = [pc |-> "start", key |-> k, ev |-> e]]
    /\ UNCHANGED <<storeVars, run, acked>>

\* InsertEvent reports Inserted = FALSE: the provider's key has a row.
Duplicate(q, k) ==
    /\ At(q, "idle")
    /\ Conflicts(k) # {}
    /\ req' = [req EXCEPT ![q] = [pc |-> "reply", key |-> k, ev |-> NoEvent]]
    /\ UNCHANGED <<storeVars, run, acked>>

\* mutant: the error of InsertEvent is ignored
InsertEventErrorIgnored(q, k) ==
    /\ At(q, "idle")
    /\ req' = [req EXCEPT ![q] = [pc |-> "reply", key |-> k, ev |-> NoEvent]]
    /\ UNCHANGED <<storeVars, run, acked>>

\* InsertEvent commits a new row and draws its id.
InsertEvent(q, k) ==
    /\ At(q, "idle")
    /\ \E e \in EventIds :
         /\ InsertRow(k, e)
         /\ req' = [req EXCEPT ![q] = [pc |-> "start", key |-> k, ev |-> e]]
    /\ UNCHANGED <<run, acked>>

\* InsertEvent runs under the request's context.  When the provider hangs up
\* or the database connection breaks after the commit, the row is there and
\* the handler still answers 500 and stops.
InsertEventUnreported(q, k) ==
    /\ "disconnect" \in Disturbances
    /\ At(q, "idle")
    /\ \E e \in EventIds : InsertRow(k, e)
    /\ UNCHANGED <<run, req, acked>>

\* ExecuteWorkflow with the id delivery-<event>, under context.Background().
StartWorkflow(q) ==
    /\ At(q, "start")
    /\ ExecuteWorkflow(req[q].ev, req[q].ev)
    /\ Goto(q, "setwf")
    /\ UNCHANGED <<storeVars, acked>>

\* ExecuteWorkflow returns an error, which is logged; Temporal may have
\* started the run all the same.
StartWorkflowFails(q) ==
    /\ "startFail" \in Disturbances
    /\ At(q, "start")
    /\ \/ UNCHANGED run
       \/ ExecuteWorkflow(req[q].ev, req[q].ev)
    /\ Goto(q, "reply")
    /\ UNCHANGED <<storeVars, acked>>

\* The error of SetEventWorkflowID is ignored.
SetEventWorkflowID(q) ==
    /\ At(q, "setwf")
    /\ \/ SetWorkflowID(req[q].ev)
       \/ "dbError" \in Disturbances /\ UNCHANGED storeVars
    /\ Goto(q, "reply")
    /\ UNCHANGED <<run, acked>>

\* The handler returns and its 200 is flushed.
Reply(q) ==
    /\ At(q, "reply")
    /\ acked' = acked \cup {req[q].key}
    /\ req' = [req EXCEPT ![q] = NoReq]
    /\ UNCHANGED <<storeVars, run>>

\* The API process dies with every request it was serving.
APICrash ==
    /\ "apiCrash" \in Disturbances
    /\ \E q \in Reqs : ~ At(q, "idle")
    /\ req' = [q \in Reqs |-> NoReq]
    /\ UNCHANGED <<storeVars, run, acked>>

HandlerStep(q) == StartWorkflow(q) \/ SetEventWorkflowID(q) \/ Reply(q)

IngestNext ==
    \/ \E q \in Reqs, k \in Keys : Duplicate(q, k)
    \/ \E q \in Reqs, k \in Keys : InsertEvent(q, k)
    \/ \E q \in Reqs, k \in Keys : InsertEventUnreported(q, k)
    \/ \E q \in Reqs : StartWorkflow(q)
    \/ \E q \in Reqs : StartWorkflowFails(q)
    \/ \E q \in Reqs : SetEventWorkflowID(q)
    \/ \E q \in Reqs : Reply(q)
    \/ APICrash

=============================================================================
