------------------------------ MODULE Temporal ------------------------------
(***************************************************************************)
(* The Temporal service, as far as internal/api and internal/workflow use  *)
(* it: a durable record of every run of DeliveryWorkflow.  The service is  *)
(* not part of the repository; what is assumed of it is what its clients   *)
(* rely on: a started run survives crashes of API and worker, its code is  *)
(* replayed to where it stood, a workflow id is started at most once, and  *)
(* an activity with MaximumAttempts 1 is handed out at most once.          *)
(*                                                                         *)
(* The run of id "delivery-<event>" is named by the event id itself, the   *)
(* runs "delivery-replay-<event>-<nanoseconds>" by the members of Replays. *)
(*                                                                         *)
(* run[r].pc is where the run stands:                                      *)
(*   idle       not started                                                *)
(*   load       LoadEventMeta is scheduled                                 *)
(*   deliver    DeliverActivity is scheduled for attempt n                 *)
(*   wait       DeliverActivity waits for a slot of the connection         *)
(*   post       DeliverActivity holds a slot, the POST is in flight        *)
(*   record     the answer is in, RecordDelivery comes next                *)
(*   note       the attempt failed, noteOpenIssue comes next               *)
(*   sleep      the run sleeps before the next attempt                     *)
(*   delivered  RecordDelivered is scheduled                               *)
(*   exhausted  RecordIssue is scheduled                                   *)
(*   done       the run completed; failed: it returned an error            *)
(* lost: the service has timed the running DeliverActivity out, so the run *)
(* has failed although a worker still executes the activity.               *)
(***************************************************************************)
EXTENDS EventStore

CONSTANTS
    Replays,        \* ids of replay runs
    Workers,        \* tuma-worker processes
    NoWorker, NoEvent,
    Disturbances    \* what may happen beside the normal course of events

ASSUME TemporalAssumption ==
    /\ Disturbances \subseteq
         {"apiCrash", "startFail", "disconnect", "dbError", "activityLost",
          "badRequest", "purge", "patch"}
    /\ Replays \cap EventIds = {}
    /\ NoWorker \notin Workers
    /\ NoEvent \notin EventIds

Runs == EventIds \cup Replays

VARIABLE run

InSlot == {"post", "record", "note"}        \* a semaphore slot is held
InActivity == {"wait"} \cup InSlot          \* DeliverActivity is running
Scheduled == {"load", "deliver", "delivered", "exhausted"}
Ended == {"done", "failed"}
PCs == {"idle", "sleep"} \cup InActivity \cup Scheduled \cup Ended

RunAt(pc, e) == [pc |-> pc, ev |-> e, n |-> 0, max |-> 0, ok |-> FALSE,
                 lost |-> FALSE, worker |-> NoWorker]

Idle == RunAt("idle", NoEvent)

Run == [pc: PCs, ev: EventIds \cup {NoEvent}, n: 0..MaxAttempts,
        max: 0..MaxAttempts, ok: BOOLEAN, lost: BOOLEAN,
        worker: Workers \cup {NoWorker}]

TemporalInit == run = [r \in Runs |-> Idle]

Started(r) == run[r].pc # "idle"

\* The run is over for the service: nothing more will be scheduled for it.
Closed(r) == run[r].pc \in Ended \/ run[r].lost

\* client.ExecuteWorkflow(DeliveryWorkflow, e) under the workflow id of r.
ExecuteWorkflow(r, e) ==
    /\ ~ Started(r)
    /\ run' = [run EXCEPT ![r] = RunAt("load", e)]

=============================================================================
