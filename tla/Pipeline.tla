------------------------------ MODULE Pipeline ------------------------------
(***************************************************************************)
(* Webhook delivery end to end: the ingest handlers, Temporal, the workers *)
(* and the tables they share; and what must be true of it.                 *)
(***************************************************************************)
EXTENDS Ingest, DeliveryWorkflow

vars == <<storeVars, run, ingestVars, destVars>>

Init == StoreInit /\ TemporalInit /\ IngestInit /\ DeliveryInit

Next ==
    \/ IngestNext /\ UNCHANGED destVars
    \/ DeliveryNext /\ UNCHANGED ingestVars

\* A handler goroutine, the Temporal service and the workers go on working;
\* an HTTP call ends by an answer or by the client's timeout.  Providers,
\* operators, the retention loop and the disturbances owe us nothing.
Fairness ==
    /\ \A q \in Reqs : WF_vars(HandlerStep(q) /\ UNCHANGED destVars)
    /\ \A r \in Runs : WF_vars(RunStep(r) /\ UNCHANGED ingestVars)

Spec == Init /\ [][Next]_vars

FairSpec == Spec /\ Fairness

-----------------------------------------------------------------------------
(* Safety *)

\* Every variable keeps its type, a started run has an event that was stored,
\* and the attempt counter of delivery.go's loop stays within the policy.
TypeOK ==
    /\ StoreTypeOK
    /\ run \in [Runs -> Run]
    /\ req \in [Reqs -> Req]
    /\ acked \subseteq Keys
    /\ accepted \subseteq EventIds
    /\ failedAt \in [EventIds -> SUBSET Attempts]
    /\ lastOutcome \in [EventIds -> {"none", "accepted", "failed"}]

\* README "the event is on disk before Tuma acks": a key that was answered
\* with 200, as new or as a duplicate, has had a committed row.
AckedWasStored ==
    \A k \in acked : \E e \in used : KeyOf[e] = k

\* README "same provider event id twice = one workflow": a request that is
\* about to call ExecuteWorkflow is the only one to do so for its event, the
\* event has no run yet, and no event of the same key that has one is still
\* beside it in the table, however many requests carried the key at once and
\* whatever crashed or was purged meanwhile (server.go:169-195).
StartsOnce ==
    \A q \in Reqs : At(q, "start") =>
        LET e == req[q].ev IN
        /\ ~ Started(e)
        /\ \A p \in Reqs \ {q} : At(p, "start") => req[p].ev # e
        /\ \A f \in EventIds \ {e} :
             KeyOf[f] = KeyOf[e] /\ Started(f) => ~ {e, f} \subseteq live

\* A run that completes has a result to show for it (delivery.go:93-108):
\* the destination accepted the event, or every attempt of the policy was
\* made and seen to fail and the event, unless purged, has an issue.
RunOutcome ==
    \A r \in Runs : run[r].pc = "done" =>
        \/ run[r].ev \in accepted
        \/ /\ 1 .. run[r].max \subseteq failedAt[run[r].ev]
           /\ run[r].ev \in live => issue[run[r].ev].status # "none"

\* An issue is resolved only for an event the destination accepted, however
\* replays, retries and lost activities interleave (delivery.go:231-239).
ResolvedWasAccepted ==
    \A e \in EventIds : issue[e].status = "resolved" => e \in accepted

\* An issue shows the number of an attempt that really failed: GREATEST over
\* the original run and its replays never invents one (store.go:330-346).
IssueShowsRealFailure ==
    \A e \in EventIds : issue[e].status # "none" =>
        e \in live /\ issue[e].attempts \in failedAt[e]

\* A row of deliveries is no invention, although replays count from 1 again and
\* the table keeps only the first row of an attempt number: "failed" says that an
\* attempt of this number failed, "delivered" that the destination accepted the
\* event at some attempt of some run (store.go:308-313).
DeliveryRowTrue ==
    \A e \in EventIds, n \in Attempts :
        /\ delivery[e][n] = "delivered" => e \in accepted
        /\ delivery[e][n] = "failed" => n \in failedAt[e]

\* README "max concurrent deliveries per connection": the POSTs in flight to
\* one destination never exceed the limit (delivery.go:46-66).
PerConnectionLimit ==
    \A c \in Conns :
        Cardinality({r \in Runs : /\ run[r].pc \in InSlot
                                  /\ EventConn(run[r].ev) = c}) <= Limit

Quiet(e) == \A r \in Runs : run[r].ev = e => run[r].pc \in Ended

\* delivery.go "the issue is resolved if a later attempt succeeds": once no
\* run of an event is active, its issue is open if and only if the last
\* answer the worker saw was a failure.
IssueReflectsLastAttempt ==
    \A e \in live : Quiet(e) =>
        (issue[e].status = "open" <=> lastOutcome[e] = "failed")

\* Once no run of an event is active and the last attempt was accepted, the
\* connection's delivery history has a row that says so (delivery.go:199).
DeliveryIsRecorded ==
    \A e \in live : Quiet(e) /\ lastOutcome[e] = "accepted" =>
        \E n \in Attempts : delivery[e][n] = "delivered"

-----------------------------------------------------------------------------
(* The inductive invariant behind the safety properties *)

\* The attempt counter is within the policy of the run, and what a run is
\* about to write is true: every earlier attempt failed, an answer it took
\* for a success was one.
RunOK(x) ==
    /\ x.pc # "idle" => x.ev \in used
    /\ x.pc \notin {"idle", "load"} \cup Ended => x.n \in 1 .. x.max
    /\ x.pc \in {"deliver", "wait", "post", "record"} =>
         \A i \in Attempts : i < x.n => i \in failedAt[x.ev]
    /\ x.pc = "record" => IF x.ok THEN x.ev \in accepted
                                  ELSE x.n \in failedAt[x.ev]
    /\ x.pc \in {"note", "sleep"} =>
         \A i \in Attempts : i <= x.n => i \in failedAt[x.ev]
    /\ x.pc = "sleep" => x.n < x.max
    /\ x.pc = "exhausted" =>
         \A i \in Attempts : i <= x.max => i \in failedAt[x.ev]
    /\ x.pc = "delivered" => x.ev \in accepted

RunInv == \A r \in Runs : RunOK(run[r])

\* One row per key, and a request past InsertEvent has a stored key.
KeyInv ==
    /\ \A e, f \in live : KeyOf[e] = KeyOf[f] => e = f
    /\ \A q \in Reqs : req[q].pc # "idle" =>
         /\ req[q].key \in Keys
         /\ \E e \in used : KeyOf[e] = req[q].key
    /\ \A q \in Reqs : req[q].pc \in {"start", "setwf"} =>
         req[q].ev \in used

NoIssueInv == \A e \in EventIds : issue[e].status = "none" => issue[e] = NoIssue

Inv ==
    /\ TypeOK /\ RunInv /\ KeyInv /\ NoIssueInv
    /\ AckedWasStored /\ RunOutcome /\ ResolvedWasAccepted
    /\ IssueShowsRealFailure /\ DeliveryRowTrue

-----------------------------------------------------------------------------
(* The promise *)

\* The refinement mapping: what the tables show of an event, and whether a
\* worker has seen an attempt of it fail.
shownPhase == [e \in EventIds |->
            IF e \notin used THEN "absent"
            ELSE IF e \notin live THEN "purged"
            ELSE IF issue[e].status = "none" THEN "stored"
            ELSE issue[e].status]

seenFailed == {e \in EventIds : failedAt[e] # {}}

I == INSTANCE Inbox WITH phase <- shownPhase, failed <- seenFailed

\* The pipeline does nothing to an event that the Inbox does not allow.
ImplementsInbox == I!Spec

-----------------------------------------------------------------------------
(* Liveness *)

\* Every run ends, whatever is purged, patched, lost or refused meanwhile:
\* the slots of a connection never leave everyone waiting.
RunsTerminate == \A r \in Runs : Started(r) ~> Closed(r)

Settled(k) ==
    \E e \in EventIds :
        /\ KeyOf[e] = k
        /\ e \in accepted \/ issue[e].status # "none" \/ e \in used \ live

\* README "Tuma then delivers to your app with retries and keeps failures in
\* Issues": an acknowledged webhook is delivered or becomes an issue.
AckedSettles == \A k \in Keys : k \in acked ~> Settled(k)

=============================================================================
