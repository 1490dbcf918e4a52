---------------------------- MODULE InboxProofs -----------------------------
(***************************************************************************)
(* Pipeline implements Inbox: every step of a handler, a worker or another *)
(* party is a step of Inbox or changes nothing that Inbox shows.           *)
(***************************************************************************)
EXTENDS PipelineProofs

\* The abstract phase of an event, read off the tables.
LEMMA PhaseIs ==
    ASSUME NEW e \in EventIds
    PROVE  /\ e \notin used => shownPhase[e] = "absent"
           /\ e \in used /\ e \notin live => shownPhase[e] = "purged"
           /\ e \in used /\ e \in live /\ issue[e].status = "none" => shownPhase[e] = "stored"
           /\ e \in used /\ e \in live /\ issue[e].status # "none" => shownPhase[e] = issue[e].status
  BY DEF shownPhase

\* The phase that is shown after a step, row by row.
LEMMA PhaseIsPrimed ==
    ASSUME NEW e \in EventIds
    PROVE  /\ e \notin used' => shownPhase'[e] = "absent"
           /\ e \in used' /\ e \notin live' => shownPhase'[e] = "purged"
           /\ e \in used' /\ e \in live' /\ issue'[e].status = "none" => shownPhase'[e] = "stored"
           /\ e \in used' /\ e \in live' /\ issue'[e].status # "none" => shownPhase'[e] = issue'[e].status
  BY DEF shownPhase

\* Both are functions on the event ids.
LEMMA PhaseFcn ==
    shownPhase = [e \in EventIds |-> shownPhase[e]] /\ shownPhase' = [e \in EventIds |-> shownPhase'[e]]
  BY DEF shownPhase

\* The initial states map to the initial state of Inbox.
LEMMA InitRefines == Init => I!Init
  BY DEF Init, StoreInit, DeliveryInit, I!Init, shownPhase, seenFailed

Stutter == UNCHANGED I!inboxVars

\* A step that leaves the tables alone shows the same phases.
LEMMA SameTables ==
    ASSUME UNCHANGED <<live, used, issue>>
    PROVE  UNCHANGED shownPhase
  BY DEF shownPhase

\* A step that sees no failure shows the same failures.
LEMMA SameFailed ==
    ASSUME UNCHANGED failedAt
    PROVE  UNCHANGED seenFailed
  BY DEF seenFailed

\* A POST, however it ends, is an Attempt.
LEMMA AttemptRefines ==
    ASSUME Inv, NEW e \in used, UNCHANGED <<live, used, issue>>,
           accepted' \in {accepted, accepted \cup {e}},
           \/ UNCHANGED failedAt
           \/ \E n \in Attempts : failedAt' = [failedAt EXCEPT ![e] = @ \cup {n}]
    PROVE  I!Next
  <1>1. e \in EventIds /\ shownPhase[e] # "absent" /\ UNCHANGED shownPhase
    <2>1. e \in EventIds /\ (e \in live => issue[e].status \in {"none", "open", "resolved"})
      BY DEF Inv, TypeOK, StoreTypeOK, Issue
    <2> QED
      BY <2>1, PhaseIs, SameTables
  <1>2. seenFailed' \in {seenFailed, seenFailed \cup {e}}
    BY <1>1 DEF seenFailed, Inv, TypeOK
  <1> QED
    BY <1>1, <1>2 DEF I!Next, I!Attempt

\* The upsert of an issue is a Report.
LEMMA UpsertRefines ==
    ASSUME Inv, NEW e \in EventIds, NEW n \in Attempts, NEW why, n \in failedAt[e],
           UpsertIssue(e, n, why), UNCHANGED <<accepted, failedAt>>
    PROVE  I!Next \/ Stutter
  <1>1. UNCHANGED seenFailed
    BY SameFailed
  <1>2. CASE e \in live
    <2>1. e \in used /\ shownPhase[e] \in {"stored", "open", "resolved"}
      <3>1. e \in used /\ issue[e].status \in {"none", "open", "resolved"}
        BY <1>2 DEF Inv, TypeOK, StoreTypeOK, Issue
      <3> QED
        BY <1>2, <3>1, PhaseIs
    <2>2. issue'[e].status = "open" /\ \A f \in EventIds : f # e => issue'[f] = issue[f]
      BY <1>2 DEF UpsertIssue, UpsertedIssue, Inv, TypeOK, StoreTypeOK
    <2>3. \A f \in EventIds : shownPhase'[f] = IF f = e THEN "open" ELSE shownPhase[f]
      <3>1. UNCHANGED <<live, used>>
        BY DEF UpsertIssue
      <3> QED
        BY <1>2, <2>1, <2>2, <3>1, PhaseIs, PhaseIsPrimed
    <2>4. shownPhase' = [shownPhase EXCEPT ![e] = "open"]
      BY <2>3, PhaseFcn
    <2>5. e \in seenFailed
      BY DEF seenFailed
    <2> QED
      BY <1>1, <2>1, <2>4, <2>5 DEF I!Next, I!Report, I!Present
  <1>3. CASE e \notin live
    BY <1>1, <1>3, SameTables DEF UpsertIssue, Stutter, I!inboxVars
  <1> QED
    BY <1>2, <1>3

\* Resolving an open issue is a Resolve.
LEMMA ResolveRefines ==
    ASSUME Inv, NEW e \in EventIds, e \in accepted, ResolveIssueByEventID(e),
           UNCHANGED <<accepted, failedAt>>
    PROVE  I!Next \/ Stutter
  <1>1. UNCHANGED seenFailed /\ UNCHANGED <<live, used>>
    BY SameFailed DEF ResolveIssueByEventID
  <1>2. CASE issue[e].status = "open"
    <2>1. e \in live /\ e \in used
      BY <1>2 DEF Inv, IssueShowsRealFailure, TypeOK, StoreTypeOK
    <2>2. issue'[e].status = "resolved" /\ \A f \in EventIds : f # e => issue'[f] = issue[f]
      BY <1>2 DEF ResolveIssueByEventID, Inv, TypeOK, StoreTypeOK, Issue
    <2>3. shownPhase[e] = "open"
      BY <1>2, <2>1, PhaseIs
    <2>4. \A f \in EventIds : shownPhase'[f] = IF f = e THEN "resolved" ELSE shownPhase[f]
      BY <1>1, <2>1, <2>2, PhaseIs, PhaseIsPrimed
    <2>5. shownPhase' = [shownPhase EXCEPT ![e] = "resolved"]
      BY <2>4, PhaseFcn
    <2> QED
      BY <1>1, <2>3, <2>5 DEF I!Next, I!Resolve
  <1>3. CASE issue[e].status # "open"
    BY <1>1, <1>3, SameTables DEF ResolveIssueByEventID, Stutter, I!inboxVars
  <1> QED
    BY <1>2, <1>3

\* The INSERT of an event is a Receive: its key had no row.
LEMMA InsertRefines ==
    ASSUME Inv, NEW k \in Keys, NEW e \in EventIds, InsertRow(k, e), UNCHANGED destVars
    PROVE  I!Next
  <1> USE DEF destVars
  <1>1. shownPhase[e] = "absent" /\ UNCHANGED seenFailed
    BY PhaseIs, SameFailed DEF InsertRow
  <1>2. \A f \in EventIds : KeyOf[f] = KeyOf[e] => ~ I!Present(f)
    <2> SUFFICES ASSUME NEW f \in EventIds, KeyOf[f] = KeyOf[e] PROVE f \notin live /\ ~ I!Present(f)
      OBVIOUS
    <2>1. f \notin live
      BY DEF InsertRow, Conflicts
    <2> QED
      BY <2>1, PhaseIs DEF I!Present
  <1>3. issue[e].status = "none"
    BY DEF Inv, IssueShowsRealFailure, InsertRow, TypeOK, StoreTypeOK
  <1>4. \A f \in EventIds : shownPhase'[f] = IF f = e THEN "stored" ELSE shownPhase[f]
    BY <1>3, PhaseIs, PhaseIsPrimed DEF InsertRow
  <1>5. shownPhase' = [shownPhase EXCEPT ![e] = "stored"]
    BY <1>4, PhaseFcn
  <1> QED
    BY <1>1, <1>2, <1>5 DEF I!Next, I!Receive

\* The purge maps to a purge of Inbox.
LEMMA PurgeRefines ==
    ASSUME Inv, NEW S \in SUBSET live, RetentionPurge(S)
    PROVE  I!Next
  <1> USE DEF RetentionPurge, DeleteEvents, destVars
  <1>1. S \in SUBSET EventIds /\ S \subseteq used /\ UNCHANGED seenFailed
    BY SameFailed DEF Inv, TypeOK, StoreTypeOK
  <1>2. \A e \in S : I!Present(e)
    <2> SUFFICES ASSUME NEW e \in S PROVE shownPhase[e] \in {"stored", "open", "resolved"}
      BY DEF I!Present
    <2>1. issue[e].status \in {"none", "open", "resolved"}
      BY <1>1 DEF Inv, TypeOK, StoreTypeOK, Issue
    <2> QED
      BY <1>1, <2>1, PhaseIs
  <1>3. \A e \in EventIds : shownPhase'[e] = IF e \in S THEN "purged" ELSE shownPhase[e]
    <2> SUFFICES ASSUME NEW e \in EventIds
                 PROVE  shownPhase'[e] = IF e \in S THEN "purged" ELSE shownPhase[e]
      OBVIOUS
    <2>1. e \notin S => issue'[e] = issue[e]
      OBVIOUS
    <2> QED
      BY <1>1, <2>1, PhaseIs, PhaseIsPrimed
  <1>4. shownPhase' = [e \in EventIds |-> IF e \in S THEN "purged" ELSE shownPhase[e]]
    BY <1>3, PhaseFcn
  <1> QED
    BY <1>1, <1>2, <1>4 DEF I!Next, I!Purge

\* A step that leaves the tables events and issues and the history alone.
LEMMA StutterRefines ==
    ASSUME UNCHANGED <<live, used, issue, accepted, failedAt>>
    PROVE  Stutter
  BY SameTables, SameFailed DEF Stutter, I!inboxVars

\* A step of a request stores one event of Inbox, or stutters.
LEMMA IngestRefines ==
    ASSUME Inv, IngestNext, UNCHANGED destVars
    PROVE  I!Next \/ Stutter
  <1>1. CASE \E k \in Keys, e \in EventIds : InsertRow(k, e)
    BY <1>1, InsertRefines
  <1>2. CASE UNCHANGED <<live, used, issue>>
    BY <1>2, StutterRefines DEF destVars
  <1>3. (\E k \in Keys, e \in EventIds : InsertRow(k, e)) \/ UNCHANGED <<live, used, issue>>
    BY DEF IngestNext, Duplicate, InsertEvent, InsertEventUnreported, StartWorkflow,
           StartWorkflowFails, SetEventWorkflowID, SetWorkflowID, Reply, APICrash, storeVars
  <1> QED
    BY <1>1, <1>2, <1>3

\* The event and the attempt of a run that is past LoadEventMeta.
LEMMA RunFacts ==
    ASSUME Inv, NEW r \in Runs, run[r].pc \notin {"idle", "load"} \cup Ended
    PROVE  /\ run[r].ev \in used /\ run[r].ev \in EventIds
           /\ run[r].n \in Attempts /\ run[r].max \in Attempts
           /\ run[r].pc = "note" => run[r].n \in failedAt[run[r].ev]
           /\ run[r].pc = "exhausted" => run[r].max \in failedAt[run[r].ev]
           /\ run[r].pc = "delivered" => run[r].ev \in accepted
  <1>1. RunOK(run[r]) /\ run[r] \in Run
    BY DEF Inv, RunInv, TypeOK
  <1> QED
    BY <1>1 DEF RunOK, Run, Attempts, Inv, TypeOK, StoreTypeOK

\* A step of a run that writes an issue or sees an answer.
LEMMA RunRefines ==
    ASSUME Inv, NEW r \in Runs,
           \/ BadRequest(r) \/ PostAccepted(r) \/ PostFailed(r)
           \/ NoteOpenIssue(r) \/ RecordDelivered(r) \/ RecordIssue(r)
           \/ ActivityLost(r)
    PROVE  I!Next \/ Stutter
  <1> USE DEF storeVars, destVars
  <1>1. CASE BadRequest(r) \/ PostAccepted(r) \/ PostFailed(r)
    <2>1. run[r].ev \in used /\ run[r].n \in Attempts
      BY <1>1, RunFacts DEF BadRequest, PostAccepted, PostFailed, Ended
    <2>2. /\ UNCHANGED <<live, used, issue>>
          /\ accepted' \in {accepted, accepted \cup {run[r].ev}}
          /\ \/ UNCHANGED failedAt
             \/ failedAt' = [failedAt EXCEPT ![run[r].ev] = @ \cup {run[r].n}]
      BY <1>1 DEF BadRequest, PostAccepted, PostFailed, SawFailure
    <2> QED
      BY <2>1, <2>2, AttemptRefines
  <1>2. CASE NoteOpenIssue(r)
    <2>1. /\ run[r].ev \in EventIds /\ run[r].n \in Attempts
          /\ run[r].n \in failedAt[run[r].ev]
      BY <1>2, RunFacts DEF NoteOpenIssue, Ended
    <2> QED
      BY <1>2, <2>1, UpsertRefines, StutterRefines DEF NoteOpenIssue
  <1>3. CASE RecordDelivered(r)
    <2>1. run[r].ev \in EventIds /\ run[r].ev \in accepted
      BY <1>3, RunFacts DEF RecordDelivered, Ended
    <2> QED
      BY <1>3, <2>1, ResolveRefines, StutterRefines DEF RecordDelivered
  <1>4. CASE RecordIssue(r)
    <2>1. /\ run[r].ev \in EventIds /\ run[r].max \in Attempts
          /\ run[r].max \in failedAt[run[r].ev]
      BY <1>4, RunFacts DEF RecordIssue, Ended
    <2> QED
      BY <1>4, <2>1, UpsertRefines, StutterRefines DEF RecordIssue
  <1>5. CASE ActivityLost(r)
    <2>1. CASE UNCHANGED accepted /\ UNCHANGED storeVars
      BY <1>5, <2>1, StutterRefines DEF ActivityLost
    <2>2. CASE run[r].pc = "post"
      <3>1. run[r].ev \in used
        BY <2>2, RunFacts DEF Ended
      <3> QED
        BY <1>5, <2>2, <3>1, AttemptRefines DEF ActivityLost
    <2>3. CASE run[r].pc = "delivered" /\ ResolveIssueByEventID(run[r].ev)
      <3>1. run[r].ev \in EventIds /\ run[r].ev \in accepted
        BY <2>3, RunFacts DEF Ended
      <3> QED
        BY <1>5, <2>3, <3>1, ResolveRefines DEF ActivityLost
    <2>4. CASE /\ run[r].pc = "exhausted"
               /\ UpsertIssue(run[r].ev, run[r].max, "exhausted")
      <3>1. /\ run[r].ev \in EventIds /\ run[r].max \in Attempts
            /\ run[r].max \in failedAt[run[r].ev]
        BY <2>4, RunFacts DEF Ended
      <3> QED
        BY <1>5, <2>4, <3>1, UpsertRefines DEF ActivityLost
    <2> QED
      BY <1>5, <2>1, <2>2, <2>3, <2>4 DEF ActivityLost
  <1> QED
    BY <1>1, <1>2, <1>3, <1>4, <1>5

\* Any step of the workers, replays, purge and PATCH.
LEMMA DeliveryRefines ==
    ASSUME Inv, DeliveryNext
    PROVE  I!Next \/ Stutter
  <1>1. CASE \E r \in Runs :
               \/ BadRequest(r) \/ PostAccepted(r) \/ PostFailed(r)
               \/ NoteOpenIssue(r) \/ RecordDelivered(r) \/ RecordIssue(r)
               \/ ActivityLost(r)
    BY <1>1, RunRefines
  <1>2. CASE \E S \in SUBSET live : RetentionPurge(S)
    BY <1>2, PurgeRefines
  <1>3. CASE UNCHANGED <<live, used, issue, accepted, failedAt>>
    BY <1>3, StutterRefines
  <1>4. \/ \E r \in Runs :
             \/ BadRequest(r) \/ PostAccepted(r) \/ PostFailed(r)
             \/ NoteOpenIssue(r) \/ RecordDelivered(r) \/ RecordIssue(r)
             \/ ActivityLost(r)
        \/ \E S \in SUBSET live : RetentionPurge(S)
        \/ UNCHANGED <<live, used, issue, accepted, failedAt>>
    BY DEF DeliveryNext, LoadEventMeta, DeliverActivity, Wake, Acquire,
           RecordDelivery, InsertDelivery, ActivityTimeout, Replay,
           PatchConnection, UpdateRetryAttempts, storeVars, destVars
  <1> QED
    BY <1>1, <1>2, <1>3, <1>4

\* The pipeline keeps the promise of Inbox for every number of requests,
\* runs, replays, workers and attempts and every disturbance.
THEOREM PipelineImplementsInbox == Spec => ImplementsInbox
  <1>1. Init => I!Init
    BY InitRefines
  <1>2. Inv /\ [Next]_vars => [I!Next]_(I!inboxVars)
    <2> SUFFICES ASSUME Inv, [Next]_vars PROVE I!Next \/ Stutter
      BY DEF Stutter
    <2>1. CASE IngestNext /\ UNCHANGED destVars
      BY <2>1, IngestRefines
    <2>2. CASE DeliveryNext
      BY <2>2, DeliveryRefines
    <2>3. CASE UNCHANGED vars
      BY <2>3, StutterRefines DEF vars, storeVars, destVars
    <2> QED
      BY <2>1, <2>2, <2>3 DEF Next
  <1> QED
    BY <1>1, <1>2, Invariance, PTL DEF Spec, ImplementsInbox, I!Spec

=============================================================================
