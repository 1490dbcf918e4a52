----------------------------- MODULE EventStore -----------------------------
(***************************************************************************)
(* The PostgreSQL tables that webhook delivery reads and writes:           *)
(* connections (only the retry policy), events, deliveries and issues.     *)
(* Every operator that changes a table is one SQL statement of             *)
(* internal/storage, hence one atomic step of whoever executes it.         *)
(*                                                                         *)
(* An event id is a UUID that the INSERT draws: it is never drawn twice.   *)
(* A key is the pair (connection, provider event id) the table is UNIQUE   *)
(* on; KeyOf and ConnOf tie the ids to the keys and the connections.       *)
(* Payloads, headers and timestamps are left out.                          *)
(***************************************************************************)
EXTENDS Integers, FiniteSets

CONSTANTS
    Conns,          \* connections
    Keys,           \* (connection, provider event id) pairs
    ConnOf,         \* the connection of a key
    EventIds,       \* UUIDs of events
    KeyOf,          \* the key of the row that an id is drawn for
    MaxAttempts     \* bound on connections.retry_attempts

ASSUME StoreAssumption ==
    /\ ConnOf \in [Keys -> Conns]
    /\ KeyOf \in [EventIds -> Keys]
    /\ MaxAttempts \in Nat \ {0}

Attempts == 1..MaxAttempts

VARIABLES
    live,           \* ids of the rows now in table events
    used,           \* ids drawn so far
    workflowID,     \* ids of the rows whose workflow_id column is set
    delivery,       \* table deliveries: status by (event_id, attempt_number)
    issue,          \* table issues, by event_id
    retryAttempts   \* connections.retry_attempts

storeVars == <<live, used, workflowID, delivery, issue, retryAttempts>>

EventConn(e) == ConnOf[KeyOf[e]]

NoDeliveries == [n \in Attempts |-> "none"]
NoIssue == [status |-> "none", attempts |-> 0, reason |-> "none"]

Issue == [status: {"none", "open", "resolved"},
          attempts: 0..MaxAttempts,
          reason: {"none", "specific", "exhausted"}]

StoreTypeOK ==
    /\ live \subseteq used
    /\ used \subseteq EventIds
    /\ workflowID \subseteq live
    /\ delivery \in [EventIds -> [Attempts -> {"none", "delivered", "failed"}]]
    /\ issue \in [EventIds -> Issue]
    /\ retryAttempts \in [Conns -> Attempts]

StoreInit ==
    /\ live = {}
    /\ used = {}
    /\ workflowID = {}
    /\ delivery = [e \in EventIds |-> NoDeliveries]
    /\ issue = [e \in EventIds |-> NoIssue]
    /\ retryAttempts \in [Conns -> Attempts]

-----------------------------------------------------------------------------
(* Statements of the ingest path *)

\* The row that ON CONFLICT (connection_id, provider_event_id) looks for.
Conflicts(k) == {e \in live : KeyOf[e] = k}

\* INSERT INTO events ... RETURNING id, when no row has the key.
InsertRow(k, e) ==
    /\ Conflicts(k) = {}
    /\ e \in EventIds \ used
    /\ KeyOf[e] = k
    /\ live' = live \cup {e}
    /\ used' = used \cup {e}
    /\ UNCHANGED <<workflowID, delivery, issue, retryAttempts>>

\* UPDATE events SET workflow_id; no row is touched once the event is purged.
SetWorkflowID(e) ==
    /\ workflowID' = workflowID \cup ({e} \cap live)
    /\ UNCHANGED <<live, used, delivery, issue, retryAttempts>>

-----------------------------------------------------------------------------
(* Statements of the worker.  Each returns an error, which the caller      *)
(* handles, when its row or its foreign key is missing.                    *)

\* INSERT INTO deliveries under UNIQUE (event_id, attempt_number): a second
\* row for the same attempt number is a constraint violation, as is a row for
\* a purged event, and the table keeps what it had.
InsertDelivery(e, n, status) ==
    /\ delivery' = IF e \in live /\ delivery[e][n] = "none"
                   THEN [delivery EXCEPT ![e][n] = status]
                   ELSE delivery
    /\ UNCHANGED <<live, used, workflowID, issue, retryAttempts>>

\* mutant: attempts of successive runs are added up
SummedIssue(e, n, why) ==
    [status |-> "open", attempts |-> issue[e].attempts + n, reason |-> why]

\* The row the upsert of RecordIssue leaves.
UpsertedIssue(e, n, why) ==
    [status   |-> "open",
     attempts |-> IF issue[e].attempts > n THEN issue[e].attempts ELSE n,
     reason   |-> IF why = "exhausted" /\ issue[e].reason = "specific"
                  THEN "specific" ELSE why]

\* INSERT INTO issues ... ON CONFLICT (event_id) DO UPDATE.
UpsertIssue(e, n, why) ==
    /\ issue' = IF e \in live THEN [issue EXCEPT ![e] = UpsertedIssue(e, n, why)]
                ELSE issue
    /\ UNCHANGED <<live, used, workflowID, delivery, retryAttempts>>

\* mutant: the UPDATE finds no row
ResolveNothing(e) == UNCHANGED storeVars

\* UPDATE issues SET status='resolved' WHERE event_id=$1 AND status='open'.
ResolveIssueByEventID(e) ==
    /\ issue' = IF issue[e].status = "open"
                THEN [issue EXCEPT ![e].status = "resolved"] ELSE issue
    /\ UNCHANGED <<live, used, workflowID, delivery, retryAttempts>>

-----------------------------------------------------------------------------
(* Statements of the retention loop and of the admin API *)

\* DELETE FROM events; deliveries and issues go with their event
\* (ON DELETE CASCADE).
DeleteEvents(S) ==
    /\ live' = live \ S
    /\ workflowID' = workflowID \ S
    /\ delivery' = [e \in EventIds |-> IF e \in S THEN NoDeliveries ELSE delivery[e]]
    /\ issue' = [e \in EventIds |-> IF e \in S THEN NoIssue ELSE issue[e]]
    /\ UNCHANGED <<used, retryAttempts>>

\* UPDATE connections; CHECK (retry_attempts > 0) refuses any other value.
UpdateRetryAttempts(c, n) ==
    /\ retryAttempts' = [retryAttempts EXCEPT ![c] = n]
    /\ UNCHANGED <<live, used, workflowID, delivery, issue>>

=============================================================================
