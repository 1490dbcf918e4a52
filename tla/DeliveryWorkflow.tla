-------------------------- MODULE DeliveryWorkflow --------------------------
(***************************************************************************)
(* internal/workflow/delivery.go: DeliveryWorkflow with its activities, on *)
(* any number of workers; the replay handlers of internal/api/handlers.go, *)
(* which start further runs; and the retention loop and PATCH of a         *)
(* connection, which change the tables under the runs.                     *)
(*                                                                         *)
(* One step of the model is one SQL statement, one POST or one step of the *)
(* workflow code.  DeliverActivity is several: the loads, the wait for a   *)
(* slot, the POST, RecordDelivery and noteOpenIssue.                       *)
(***************************************************************************)
EXTENDS Temporal

CONSTANT Limit      \* TUMA_PER_CONN_CONCURRENCY

ASSUME LimitAssumption == Limit \in Nat \ {0}

VARIABLES
    accepted,       \* history: events the destination has answered with 2xx
    failedAt,       \* history: attempt numbers the worker saw fail, by event
    lastOutcome     \* history: what the worker saw last of a POST, by event

destVars == <<accepted, failedAt, lastOutcome>>

DeliveryInit ==
    /\ accepted = {}
    /\ failedAt = [e \in EventIds |-> {}]
    /\ lastOutcome = [e \in EventIds |-> "none"]

\* A statement may fail: the database is unreachable, or the context of a
\* timed-out activity has expired.
MayErr(r) == "dbError" \in Disturbances \/ run[r].lost

Become(r, x) == run' = [run EXCEPT ![r] = x]

Move(r, pc) == Become(r, [run[r] EXCEPT !.pc = pc])

Saw(e, outcome) == lastOutcome' = [lastOutcome EXCEPT ![e] = outcome]

SawFailure(e, n) ==
    /\ failedAt' = [failedAt EXCEPT ![e] = @ \cup {n}]
    /\ Saw(e, "failed")

-----------------------------------------------------------------------------
(* LoadEventMeta and the loop *)

\* The retry policy is read once; later attempts keep it.  A purged event, or
\* any database error, ends the run.
LoadEventMeta(r) ==
    /\ run[r].pc = "load"
    /\ \/ /\ run[r].ev \in live
          /\ Become(r, [run[r] EXCEPT !.pc = "deliver", !.n = 1,
                          !.max = retryAttempts[EventConn(run[r].ev)]])
       \/ /\ run[r].ev \notin live \/ MayErr(r)
          /\ Move(r, "failed")
    /\ UNCHANGED <<storeVars, destVars>>

\* DeliverActivity begins on worker w: it loads the event and its connection.
DeliverActivity(r, w) ==
    /\ run[r].pc = "deliver"
    /\ \/ /\ run[r].ev \in live
          /\ Become(r, [run[r] EXCEPT !.pc = "wait", !.worker = w])
       \/ /\ run[r].ev \notin live \/ MayErr(r)
          /\ Move(r, "failed")
    /\ UNCHANGED <<storeVars, destVars>>

\* mutant: the next attempt keeps its number
WakeSameNumber(r) ==
    /\ run[r].pc = "sleep"
    /\ Become(r, [run[r] EXCEPT !.pc = "deliver", !.max = @ - 1])
    /\ UNCHANGED <<storeVars, destVars>>

\* workflow.Sleep(backoff) is over.
Wake(r) ==
    /\ run[r].pc = "sleep"
    /\ Become(r, [run[r] EXCEPT !.pc = "deliver", !.n = @ + 1])
    /\ UNCHANGED <<storeVars, destVars>>

-----------------------------------------------------------------------------
(* ConnectionSemaphores: a channel of capacity Limit per connection, in    *)
(* the memory of each worker.  The deferred release runs when the activity *)
(* returns.                                                                *)

\* mutant: an activity that was timed out returns without its release
TimedOutHold(w, c) ==
    {r \in Runs : /\ run[r].pc \in InSlot \/ (run[r].pc = "failed" /\ run[r].lost)
                  /\ run[r].worker = w
                  /\ EventConn(run[r].ev) = c}

Holders(w, c) ==
    {r \in Runs : /\ run[r].pc \in InSlot
                  /\ run[r].worker = w
                  /\ EventConn(run[r].ev) = c}

Acquire(r) ==
    /\ run[r].pc = "wait"
    /\ Cardinality(Holders(run[r].worker, EventConn(run[r].ev))) < Limit
    /\ Move(r, "post")
    /\ UNCHANGED <<storeVars, destVars>>

-----------------------------------------------------------------------------
(* The attempt *)

\* mutant: one attempt fewer than the policy says
AfterAttemptShort(r, ok) ==
    CASE run[r].lost -> "failed"
      [] ~ run[r].lost /\ ok -> "delivered"
      [] ~ run[r].lost /\ ~ ok /\ run[r].n + 1 < run[r].max -> "sleep"
      [] OTHER -> "exhausted"

\* mutant: one attempt more than the policy says
AfterAttemptLong(r, ok) ==
    CASE run[r].lost -> "failed"
      [] ~ run[r].lost /\ ok -> "delivered"
      [] ~ run[r].lost /\ ~ ok /\ run[r].n <= run[r].max -> "sleep"
      [] OTHER -> "exhausted"

\* Where the workflow goes when DeliverActivity returns a result.  The
\* result of a timed-out activity reaches nobody.
AfterAttempt(r, ok) ==
    CASE run[r].lost -> "failed"
      [] ~ run[r].lost /\ ok -> "delivered"
      [] ~ run[r].lost /\ ~ ok /\ run[r].n < run[r].max -> "sleep"
      [] OTHER -> "exhausted"

\* The destination URL does not parse: the attempt fails before any POST and
\* leaves no delivery row and no issue.
BadRequest(r) ==
    /\ "badRequest" \in Disturbances
    /\ run[r].pc = "post"
    /\ SawFailure(run[r].ev, run[r].n)
    /\ Move(r, AfterAttempt(r, FALSE))
    /\ UNCHANGED <<storeVars, accepted>>

\* The destination answers 2xx.
PostAccepted(r) ==
    /\ run[r].pc = "post"
    /\ accepted' = accepted \cup {run[r].ev}
    /\ Become(r, [run[r] EXCEPT !.pc = "record", !.ok = TRUE])
    /\ Saw(run[r].ev, "accepted")
    /\ UNCHANGED <<storeVars, failedAt>>

\* The destination answers something else, or the transport fails: before
\* the request arrived, or after the destination had accepted it.
PostFailed(r) ==
    /\ run[r].pc = "post"
    /\ \/ UNCHANGED accepted
       \/ accepted' = accepted \cup {run[r].ev}
    /\ Become(r, [run[r] EXCEPT !.pc = "record", !.ok = FALSE])
    /\ SawFailure(run[r].ev, run[r].n)
    /\ UNCHANGED storeVars

\* mutant: any answer counts as a success
RecordAnyAnswer(r) ==
    /\ run[r].pc = "record"
    /\ InsertDelivery(run[r].ev, run[r].n, "delivered")
    /\ Move(r, AfterAttempt(r, TRUE))
    /\ UNCHANGED destVars

\* The error of RecordDelivery is ignored.
RecordDelivery(r) ==
    /\ run[r].pc = "record"
    /\ \/ InsertDelivery(run[r].ev, run[r].n,
                         IF run[r].ok THEN "delivered" ELSE "failed")
       \/ MayErr(r) /\ UNCHANGED storeVars
    /\ Move(r, IF run[r].ok THEN AfterAttempt(r, TRUE) ELSE "note")
    /\ UNCHANGED destVars

\* The error of noteOpenIssue is logged; the retry loop goes on.
NoteOpenIssue(r) ==
    /\ run[r].pc = "note"
    /\ \/ UpsertIssue(run[r].ev, run[r].n, "specific")
       \/ MayErr(r) /\ UNCHANGED storeVars
    /\ Move(r, AfterAttempt(r, FALSE))
    /\ UNCHANGED destVars

-----------------------------------------------------------------------------
(* The last activity of a run *)

RecordDelivered(r) ==
    /\ run[r].pc = "delivered"
    /\ \/ ResolveIssueByEventID(run[r].ev) /\ Move(r, "done")
       \/ MayErr(r) /\ UNCHANGED storeVars /\ Move(r, "failed")
    /\ UNCHANGED destVars

\* mutant: the activity forgets the upsert
RecordNoIssue(r) ==
    /\ run[r].pc = "exhausted"
    /\ Move(r, "done")
    /\ UNCHANGED <<storeVars, destVars>>

RecordIssue(r) ==
    /\ run[r].pc = "exhausted"
    /\ \/ /\ run[r].ev \in live
          /\ UpsertIssue(run[r].ev, run[r].max, "exhausted")
          /\ Move(r, "done")
       \/ /\ run[r].ev \notin live \/ MayErr(r)
          /\ UNCHANGED storeVars
          /\ Move(r, "failed")
    /\ UNCHANGED destVars

-----------------------------------------------------------------------------
(* Lost activities.  MaximumAttempts is 1: a lost activity fails the run.  *)

\* The worker dies in, or is never heard of again about, an activity; a POST
\* it had sent may still be accepted, and the last statement of an activity
\* may have been committed.
ActivityLost(r) ==
    /\ "activityLost" \in Disturbances
    /\ run[r].pc \in InActivity \cup Scheduled
    /\ \/ UNCHANGED accepted
       \/ run[r].pc = "post" /\ accepted' = accepted \cup {run[r].ev}
    /\ \/ UNCHANGED storeVars
       \/ run[r].pc = "delivered" /\ ResolveIssueByEventID(run[r].ev)
       \/ run[r].pc = "exhausted" /\ UpsertIssue(run[r].ev, run[r].max, "exhausted")
    /\ Move(r, "failed")
    /\ UNCHANGED <<failedAt, lastOutcome>>

\* StartToCloseTimeout (30 s, the wait for a slot included) passes while the
\* worker is still at it: acquire does not look at the context.
ActivityTimeout(r) ==
    /\ "activityLost" \in Disturbances
    /\ run[r].pc \in InActivity
    /\ ~ run[r].lost
    /\ Become(r, [run[r] EXCEPT !.lost = TRUE])
    /\ UNCHANGED <<storeVars, destVars>>

-----------------------------------------------------------------------------
(* Other parties that start runs or change the tables *)

\* mutant: the handler resolves the issue when it starts the replay
ReplayResolves(r, e) ==
    /\ issue[e].status # "none"
    /\ ExecuteWorkflow(r, e)
    /\ ResolveIssueByEventID(e)
    /\ UNCHANGED destVars

\* replayIssue, replayBulk: any issue row will do, a resolved one too.
Replay(r, e) ==
    /\ issue[e].status # "none"
    /\ ExecuteWorkflow(r, e)
    /\ UNCHANGED <<storeVars, destVars>>

\* PurgeExpiredEvents.  Which events are old enough is left open.
RetentionPurge(S) ==
    /\ "purge" \in Disturbances
    /\ S # {}
    /\ DeleteEvents(S)
    /\ UNCHANGED <<run, destVars>>

PatchConnection(c, n) ==
    /\ "patch" \in Disturbances
    /\ UpdateRetryAttempts(c, n)
    /\ UNCHANGED <<run, destVars>>

RunStep(r) ==
    \/ LoadEventMeta(r)
    \/ \E w \in Workers : DeliverActivity(r, w)
    \/ Wake(r)
    \/ Acquire(r)
    \/ PostAccepted(r) \/ PostFailed(r)
    \/ RecordDelivery(r) \/ NoteOpenIssue(r)
    \/ RecordDelivered(r) \/ RecordIssue(r)

DeliveryNext ==
    \/ \E r \in Runs : LoadEventMeta(r)
    \/ \E r \in Runs, w \in Workers : DeliverActivity(r, w)
    \/ \E r \in Runs : Wake(r)
    \/ \E r \in Runs : Acquire(r)
    \/ \E r \in Runs : BadRequest(r)
    \/ \E r \in Runs : PostAccepted(r)
    \/ \E r \in Runs : PostFailed(r)
    \/ \E r \in Runs : RecordDelivery(r)
    \/ \E r \in Runs : NoteOpenIssue(r)
    \/ \E r \in Runs : RecordDelivered(r)
    \/ \E r \in Runs : RecordIssue(r)
    \/ \E r \in Runs : ActivityLost(r)
    \/ \E r \in Runs : ActivityTimeout(r)
    \/ \E r \in Replays, e \in EventIds : Replay(r, e)
    \/ \E S \in SUBSET live : RetentionPurge(S)
    \/ \E c \in Conns, n \in Attempts : PatchConnection(c, n)

=============================================================================
