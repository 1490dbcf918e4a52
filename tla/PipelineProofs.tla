--------------------------- MODULE PipelineProofs ---------------------------
(***************************************************************************)
(* Proofs, for any number of connections, keys, events, requests, runs,    *)
(* workers and attempts and any disturbances, that Inv is an inductive     *)
(* invariant of Pipeline.                                                  *)
(***************************************************************************)
EXTENDS Pipeline, FiniteSetTheorems, TLAPS

USE StoreAssumption, TemporalAssumption, IngestAssumption

\* Empty tables, no runs and idle requests.
LEMMA InitInv == Init => Inv
  <1> SUFFICES ASSUME Init PROVE Inv
    OBVIOUS
  <1> USE DEF Init, StoreInit, TemporalInit, IngestInit, DeliveryInit
  <1>1. TypeOK
    BY DEF TypeOK, StoreTypeOK, Run, Req, Idle, RunAt, NoReq, NoIssue, NoDeliveries,
           Issue, Attempts, PCs
  <1>2. RunInv /\ RunOutcome
    BY DEF RunInv, RunOK, RunOutcome, Idle, RunAt, Ended
  <1>3. KeyInv /\ AckedWasStored
    BY DEF KeyInv, AckedWasStored, NoReq
  <1>4. NoIssueInv /\ ResolvedWasAccepted /\ IssueShowsRealFailure /\ DeliveryRowTrue
    BY DEF NoIssueInv, ResolvedWasAccepted, IssueShowsRealFailure,
           DeliveryRowTrue, NoIssue, NoDeliveries
  <1> QED
    BY <1>1, <1>2, <1>3, <1>4 DEF Inv

-----------------------------------------------------------------------------
(* What the steps have in common *)

\* Ids, accepted events and failed attempts are never forgotten.
Grows ==
    /\ used \subseteq used'
    /\ accepted \subseteq accepted' /\ accepted' \subseteq EventIds
    /\ failedAt' \in [EventIds -> SUBSET Attempts]
    /\ \A e \in EventIds : failedAt[e] \subseteq failedAt'[e]
    /\ lastOutcome' \in [EventIds -> {"none", "accepted", "failed"}]

OnlyRun(r) ==
    /\ run' \in [Runs -> Run]
    /\ \A s \in Runs : s # r => run'[s] = run[s]

SameBut(x, y, pc) ==
    /\ y.pc = pc /\ y.ev = x.ev /\ y.n = x.n /\ y.max = x.max
    /\ y.ok = x.ok /\ y.lost = x.lost /\ y.worker = x.worker

\* A row of issues, once there, stays until its event is deleted.
IssuesStay ==
    \A e \in EventIds : e \in live' /\ e \in used =>
        e \in live /\ (issue[e].status # "none" => issue'[e].status # "none")

\* The updates of a run's record that the steps make.
LEMMA RunFields ==
    ASSUME NEW x \in Run, NEW pc \in PCs
    PROVE  /\ \A n, m \in 0..MaxAttempts :
                [x EXCEPT !.pc = pc, !.n = n, !.max = m] \in Run
           /\ \A n \in 0..MaxAttempts : [x EXCEPT !.pc = pc, !.n = n] \in Run
           /\ \A w \in Workers : [x EXCEPT !.pc = pc, !.worker = w] \in Run
           /\ \A b \in BOOLEAN : [x EXCEPT !.pc = pc, !.ok = b] \in Run
           /\ \A b \in BOOLEAN : [x EXCEPT !.lost = b] \in Run
  BY DEF Run

\* A step of a run changes no other run.
LEMMA BecomeRun ==
    ASSUME TypeOK, NEW r \in Runs, NEW x \in Run, Become(r, x)
    PROVE  OnlyRun(r) /\ run'[r] = x
  BY DEF TypeOK, Become, OnlyRun

\* Move changes one run, and of that run the pc only.
LEMMA MoveRun ==
    ASSUME TypeOK, NEW r \in Runs, NEW pc \in PCs, Move(r, pc)
    PROVE  OnlyRun(r) /\ SameBut(run[r], run[r]', pc)
  <1>1. run[r] \in Run /\ [run[r] EXCEPT !.pc = pc] \in Run
    BY DEF TypeOK, Run
  <1> QED
    BY <1>1, BecomeRun DEF Move, SameBut, Run

\* What RunOK says of a run stays true while the run does not move, because
\* facts are only added.
LEMMA RunOKStays ==
    ASSUME TypeOK, RunInv, Grows, NEW s \in Runs, run'[s] = run[s]
    PROVE  RunOK(run[s])'
  <1>1. RunOK(run[s]) /\ run[s] \in Run
    BY DEF RunInv, TypeOK
  <1>2. run[s].pc # "idle" => run[s].ev \in EventIds
    BY <1>1 DEF RunOK, TypeOK, StoreTypeOK
  <1> QED
    BY <1>1, <1>2 DEF RunOK, Grows, Run, Ended

\* What RunOutcome says of one run.
DoneOK(x) ==
    x.pc = "done" =>
        \/ x.ev \in accepted
        \/ /\ 1 .. x.max \subseteq failedAt[x.ev]
           /\ x.ev \in live => issue[x.ev].status # "none"

\* The outcome of a completed run stays true.
LEMMA DoneOKStays ==
    ASSUME TypeOK, RunInv, RunOutcome, Grows, IssuesStay, NEW s \in Runs,
           run'[s] = run[s]
    PROVE  DoneOK(run[s])'
  <1> SUFFICES ASSUME run[s].pc = "done" PROVE DoneOK(run[s])'
    BY DEF DoneOK
  <1>1. run[s].ev \in used /\ run[s].ev \in EventIds
    BY DEF RunInv, RunOK, TypeOK, StoreTypeOK
  <1> QED
    BY <1>1 DEF RunOutcome, DoneOK, Grows, IssuesStay

\* It is enough to look at the run that takes the step.
LEMMA RunInvStep ==
    ASSUME TypeOK, RunInv, RunOutcome, Grows, IssuesStay, NEW r \in Runs,
           OnlyRun(r), RunOK(run[r])', DoneOK(run[r])'
    PROVE  RunInv' /\ RunOutcome'
  BY RunOKStays, DoneOKStays DEF RunInv, RunOutcome, DoneOK, OnlyRun

\* A step of no run keeps what is known of the runs.
LEMMA RunsSame ==
    ASSUME TypeOK, RunInv, RunOutcome, Grows, IssuesStay, UNCHANGED run
    PROVE  RunInv' /\ RunOutcome'
  BY RunOKStays, DoneOKStays DEF RunInv, RunOutcome, DoneOK

\* What remains to be shown of a run's step that may write deliveries or
\* issues.
RowsOK ==
    /\ StoreTypeOK /\ NoIssueInv
    /\ ResolvedWasAccepted /\ IssueShowsRealFailure /\ DeliveryRowTrue

\* A step that writes no table keeps what is known of the rows.
LEMMA RowsSame ==
    ASSUME Inv, Grows, UNCHANGED storeVars
    PROVE  RowsOK' /\ IssuesStay
  BY DEF RowsOK, IssuesStay, storeVars, Inv, TypeOK, StoreTypeOK, NoIssueInv, Grows,
         ResolvedWasAccepted, IssueShowsRealFailure, DeliveryRowTrue

\* What an action of a run has to show.
LEMMA RunStepInv ==
    ASSUME Inv, Grows, IssuesStay, NEW r \in Runs, OnlyRun(r), RunOK(run[r])',
           DoneOK(run[r])', UNCHANGED <<live, used, ingestVars>>, RowsOK'
    PROVE  Inv'
  <1> USE DEF Inv, RowsOK, ingestVars
  <1>1. TypeOK'
    BY DEF TypeOK, Grows, OnlyRun
  <1>2. RunInv' /\ RunOutcome'
    BY RunInvStep
  <1>3. KeyInv' /\ AckedWasStored'
    BY DEF KeyInv, AckedWasStored
  <1> QED
    BY <1>1, <1>2, <1>3

\* A step that touches no table and completes no run.
LEMMA RunOnlyStep ==
    ASSUME Inv, Grows, NEW r \in Runs, OnlyRun(r), RunOK(run[r])',
           run'[r].pc # "done", UNCHANGED <<storeVars, ingestVars>>
    PROVE  Inv'
  <1>1. IssuesStay /\ RowsOK'
    BY RowsSame
  <1> QED
    BY <1>1, RunStepInv DEF storeVars, DoneOK

\* The upsert shows an attempt that failed.
LEMMA UpsertIssueRows ==
    ASSUME Inv, Grows, NEW e \in EventIds, NEW n \in Attempts,
           NEW why \in {"specific", "exhausted"}, n \in failedAt[e],
           UpsertIssue(e, n, why)
    PROVE  RowsOK' /\ IssuesStay /\ (e \in live => issue'[e].status = "open")
  <1> DEFINE x == UpsertedIssue(e, n, why)
  <1>1. issue[e] \in Issue /\ issue' \in [EventIds -> Issue]
    <2>1. issue[e] \in Issue
      BY DEF Inv, TypeOK, StoreTypeOK
    <2>2. x \in Issue
      BY <2>1 DEF UpsertedIssue, Issue, Attempts
    <2> QED
      BY <2>1, <2>2 DEF UpsertIssue, Inv, TypeOK, StoreTypeOK
  <1>2. /\ x.status = "open"
        /\ x.attempts \in {n, issue[e].attempts}
        /\ issue[e].status = "none" => x.attempts = n
    BY <1>1 DEF UpsertedIssue, Inv, NoIssueInv, NoIssue, Attempts
  <1>3. \A f \in EventIds :
          issue'[f] = IF f = e /\ e \in live THEN x ELSE issue[f]
    BY DEF UpsertIssue, Inv, TypeOK, StoreTypeOK
  <1>4. StoreTypeOK'
    BY <1>1 DEF UpsertIssue, Inv, TypeOK, StoreTypeOK
  <1> HIDE DEF x
  <1>5. NoIssueInv' /\ ResolvedWasAccepted'
    BY <1>2, <1>3 DEF Inv, NoIssueInv, ResolvedWasAccepted, Grows
  <1>6. IssueShowsRealFailure' /\ DeliveryRowTrue'
    BY <1>2, <1>3 DEF UpsertIssue, Inv, IssueShowsRealFailure, DeliveryRowTrue, Grows
  <1> QED
    BY <1>2, <1>3, <1>4, <1>5, <1>6 DEF RowsOK, IssuesStay, UpsertIssue

\* Only an accepted event has its issue resolved.
LEMMA ResolveIssueRows ==
    ASSUME Inv, Grows, NEW e \in EventIds, e \in accepted, ResolveIssueByEventID(e)
    PROVE  RowsOK' /\ IssuesStay
  <1>1. /\ issue' \in [EventIds -> Issue]
        /\ \A f \in EventIds : f # e => issue'[f] = issue[f]
        /\ issue'[e].status \in {issue[e].status, "resolved"}
        /\ issue'[e].attempts = issue[e].attempts
        /\ issue[e].status # "open" => issue'[e] = issue[e]
        /\ issue[e].status = "open" => issue'[e].status = "resolved"
    <2>1. issue[e] \in Issue
      BY DEF Inv, TypeOK, StoreTypeOK
    <2>2. [issue[e] EXCEPT !.status = "resolved"] \in Issue
      BY <2>1 DEF Issue
    <2> QED
      BY <2>1, <2>2 DEF ResolveIssueByEventID, Inv, TypeOK, StoreTypeOK, Issue
  <1>2. StoreTypeOK'
    BY <1>1 DEF ResolveIssueByEventID, Inv, TypeOK, StoreTypeOK
  <1>3. NoIssueInv' /\ ResolvedWasAccepted'
    BY <1>1 DEF Inv, NoIssueInv, ResolvedWasAccepted, Grows
  <1>4. IssueShowsRealFailure' /\ DeliveryRowTrue'
    BY <1>1 DEF ResolveIssueByEventID, Inv, IssueShowsRealFailure, DeliveryRowTrue, Grows
  <1> QED
    BY <1>1, <1>2, <1>3, <1>4 DEF RowsOK, IssuesStay, ResolveIssueByEventID

\* A delivery row is written with what its attempt came to.
LEMMA InsertDeliveryRows ==
    ASSUME Inv, Grows, NEW e \in EventIds, NEW n \in Attempts,
           NEW status \in {"delivered", "failed"},
           status = "delivered" => e \in accepted,
           status = "failed" => n \in failedAt[e],
           InsertDelivery(e, n, status)
    PROVE  RowsOK' /\ IssuesStay
  <1>1. /\ delivery' \in [EventIds -> [Attempts -> {"none", "delivered", "failed"}]]
        /\ \A f \in EventIds, i \in Attempts :
             delivery'[f][i] = delivery[f][i] \/ (f = e /\ i = n /\ delivery'[f][i] = status)
    BY DEF InsertDelivery, Inv, TypeOK, StoreTypeOK
  <1>2. StoreTypeOK' /\ NoIssueInv'
    BY <1>1 DEF InsertDelivery, Inv, TypeOK, StoreTypeOK, NoIssueInv
  <1>3. DeliveryRowTrue'
    BY <1>1 DEF Inv, DeliveryRowTrue, Grows
  <1>4. ResolvedWasAccepted' /\ IssueShowsRealFailure'
    BY DEF InsertDelivery, Inv, ResolvedWasAccepted, IssueShowsRealFailure, Grows
  <1> QED
    BY <1>2, <1>3, <1>4 DEF RowsOK, IssuesStay, InsertDelivery

-----------------------------------------------------------------------------
(* The steps of a run that touch no table *)

\* LoadEventMeta keeps Inv.
LEMMA LoadEventMetaInv ==
    ASSUME Inv, NEW r \in Runs, LoadEventMeta(r), UNCHANGED ingestVars
    PROVE  Inv'
  <1> USE DEF Inv, LoadEventMeta, destVars
  <1>1. Grows
    BY DEF Grows, TypeOK, storeVars
  <1>2. CASE Move(r, "failed")
    <2>1. OnlyRun(r) /\ SameBut(run[r], run[r]', "failed")
      BY <1>2, MoveRun DEF PCs, Ended
    <2> QED
      BY <1>1, <1>2, <2>1, RunOnlyStep DEF RunInv, RunOK, SameBut, Ended, storeVars
  <1>3. CASE run[r].ev \in live /\ ~ Move(r, "failed")
    <2> DEFINE max == retryAttempts[EventConn(run[r].ev)]
               x == [run[r] EXCEPT !.pc = "deliver", !.n = 1, !.max = max]
    <2>1. run[r].ev \in used /\ max \in Attempts
      BY <1>3 DEF TypeOK, StoreTypeOK, EventConn
    <2>2. /\ run[r] \in Run /\ "deliver" \in PCs
          /\ 1 \in 0..MaxAttempts /\ max \in 0..MaxAttempts
      BY <2>1 DEF TypeOK, PCs, Scheduled, Attempts
    <2>3. x \in Run
      BY <2>2, RunFields
    <2>4. x.ev = run[r].ev /\ x.max = max /\ x.n = 1 /\ x.pc = "deliver"
      BY <2>2 DEF Run
    <2>5. OnlyRun(r) /\ run'[r] = x
      BY <1>3, <2>3, BecomeRun
    <2>6. RunOK(run[r])' /\ run'[r].pc # "done"
      BY <2>1, <2>4, <2>5 DEF RunOK, Attempts, Ended, storeVars
    <2> QED
      BY <1>1, <2>5, <2>6, RunOnlyStep
  <1> QED
    BY <1>2, <1>3

\* DeliverActivity keeps Inv.
LEMMA DeliverActivityInv ==
    ASSUME Inv, NEW r \in Runs, NEW w \in Workers, DeliverActivity(r, w),
           UNCHANGED ingestVars
    PROVE  Inv'
  <1> USE DEF Inv, DeliverActivity, destVars
  <1>1. Grows
    BY DEF Grows, TypeOK, storeVars
  <1>2. CASE Move(r, "failed")
    <2>1. OnlyRun(r) /\ SameBut(run[r], run[r]', "failed")
      BY <1>2, MoveRun DEF PCs, Ended
    <2> QED
      BY <1>1, <1>2, <2>1, RunOnlyStep DEF RunInv, RunOK, SameBut, Ended, storeVars
  <1>3. CASE ~ Move(r, "failed")
    <2> DEFINE x == [run[r] EXCEPT !.pc = "wait", !.worker = w]
    <2>0. run[r] \in Run /\ x \in Run
      BY RunFields DEF TypeOK, PCs, InActivity
    <2>1. x.pc = "wait" /\ x.ev = run[r].ev /\ x.n = run[r].n /\ x.max = run[r].max
      BY <2>0 DEF Run
    <2>2. OnlyRun(r) /\ run'[r] = x
      BY <1>3, <2>0, BecomeRun
    <2>3. RunOK(run[r])' /\ run'[r].pc # "done"
      BY <2>1, <2>2 DEF RunInv, RunOK, Ended, storeVars
    <2> QED
      BY <1>1, <2>2, <2>3, RunOnlyStep
  <1> QED
    BY <1>2, <1>3

\* Wake keeps Inv.
LEMMA WakeInv ==
    ASSUME Inv, NEW r \in Runs, Wake(r), UNCHANGED ingestVars
    PROVE  Inv'
  <1> USE DEF Inv, Wake, destVars
  <1> DEFINE x == [run[r] EXCEPT !.pc = "deliver", !.n = @ + 1]
  <1>1. Grows
    BY DEF Grows, TypeOK, storeVars
  <1>2. run[r] \in Run /\ RunOK(run[r])
    BY DEF TypeOK, RunInv
  <1>3. "deliver" \in PCs /\ run[r].n + 1 \in 0..MaxAttempts
    BY <1>2 DEF RunOK, Run, PCs, Scheduled, Ended
  <1>4. x \in Run
    BY <1>2, <1>3, RunFields
  <1>5. /\ x.pc = "deliver" /\ x.ev = run[r].ev
        /\ x.n = run[r].n + 1 /\ x.max = run[r].max
    BY <1>2 DEF Run
  <1>6. OnlyRun(r) /\ run'[r] = x
    BY <1>4, BecomeRun
  <1>7. RunOK(run[r])' /\ run'[r].pc # "done"
    BY <1>2, <1>5, <1>6 DEF RunOK, Run, Ended, Attempts, storeVars
  <1> QED
    BY <1>1, <1>6, <1>7, RunOnlyStep

\* Acquire keeps Inv.
LEMMA AcquireInv ==
    ASSUME Inv, NEW r \in Runs, Acquire(r), UNCHANGED ingestVars
    PROVE  Inv'
  <1> USE DEF Inv, Acquire, destVars
  <1>1. Grows
    BY DEF Grows, TypeOK, storeVars
  <1>2. OnlyRun(r) /\ SameBut(run[r], run[r]', "post")
    BY MoveRun DEF PCs, InActivity, InSlot
  <1>3. RunOK(run[r])' /\ run'[r].pc # "done"
    BY <1>2 DEF RunInv, RunOK, SameBut, Ended, storeVars
  <1> QED
    BY <1>1, <1>2, <1>3, RunOnlyStep

\* ActivityTimeout keeps Inv.
LEMMA ActivityTimeoutInv ==
    ASSUME Inv, NEW r \in Runs, ActivityTimeout(r), UNCHANGED ingestVars
    PROVE  Inv'
  <1> USE DEF Inv, ActivityTimeout, destVars
  <1> DEFINE x == [run[r] EXCEPT !.lost = TRUE]
  <1>1. Grows
    BY DEF Grows, TypeOK, storeVars
  <1>0. run[r] \in Run
    BY DEF TypeOK
  <1>2. /\ x.pc = run[r].pc /\ x.ev = run[r].ev
        /\ x.n = run[r].n /\ x.max = run[r].max /\ x.ok = run[r].ok
    BY <1>0 DEF Run
  <1>a. x \in Run
    BY <1>0, RunFields DEF Run
  <1>3. OnlyRun(r) /\ run'[r] = x
    BY <1>a, BecomeRun
  <1>4. RunOK(run[r])' /\ run'[r].pc # "done"
    BY <1>2, <1>3 DEF RunInv, RunOK, Ended, InActivity, InSlot, storeVars
  <1> QED
    BY <1>1, <1>3, <1>4, RunOnlyStep

\* Where AfterAttempt leads: never back into the activity, and to another
\* attempt only when the policy has one left.
LEMMA AfterAttemptGoes ==
    ASSUME TypeOK, NEW r \in Runs, NEW ok \in BOOLEAN
    PROVE  /\ AfterAttempt(r, ok) \in {"failed", "delivered", "sleep", "exhausted"}
           /\ AfterAttempt(r, ok) \in PCs
           /\ AfterAttempt(r, ok) = "delivered" => ok
           /\ AfterAttempt(r, ok) \in {"sleep", "exhausted"} => ~ ok
           /\ AfterAttempt(r, ok) = "sleep" => run[r].n < run[r].max
           /\ AfterAttempt(r, ok) = "exhausted" => ~ (run[r].n < run[r].max)
  BY DEF AfterAttempt, TypeOK, Run, PCs, Ended, Scheduled

\* BadRequest keeps Inv.
LEMMA BadRequestInv ==
    ASSUME Inv, NEW r \in Runs, BadRequest(r), UNCHANGED ingestVars
    PROVE  Inv'
  <1> USE DEF Inv, BadRequest
  <1>0. RunOK(run[r]) /\ run[r] \in Run
    BY DEF RunInv, TypeOK
  <1>1. run[r].ev \in EventIds /\ run[r].n \in Attempts
    BY <1>0 DEF RunOK, TypeOK, StoreTypeOK, Run, Attempts, Ended
  <1>2. Grows /\ run[r].n \in failedAt'[run[r].ev]
    BY <1>1 DEF Grows, TypeOK, SawFailure, Saw, storeVars
  <1> DEFINE pc == AfterAttempt(r, FALSE)
  <1>3. OnlyRun(r) /\ SameBut(run[r], run[r]', pc)
    BY MoveRun, AfterAttemptGoes
  <1>a. /\ pc \in {"failed", "sleep", "exhausted"}
        /\ pc = "sleep" => run[r].n < run[r].max
        /\ pc = "exhausted" => ~ (run[r].n < run[r].max)
    BY AfterAttemptGoes
  <1> HIDE DEF pc
  <1>4. RunOK(run[r])' /\ run'[r].pc # "done"
    BY <1>0, <1>1, <1>2, <1>3, <1>a DEF RunOK, SameBut, Ended, Grows, Run, Attempts
  <1> QED
    BY <1>2, <1>3, <1>4, RunOnlyStep

\* The POST, whatever the answer, keeps Inv.
LEMMA PostInv ==
    ASSUME Inv, NEW r \in Runs, PostAccepted(r) \/ PostFailed(r),
           UNCHANGED ingestVars
    PROVE  Inv'
  <1> USE DEF Inv
  <1> DEFINE x(b) == [run[r] EXCEPT !.pc = "record", !.ok = b]
  <1>1. /\ run[r].pc = "post" /\ RunOK(run[r]) /\ run[r] \in Run
        /\ run[r].ev \in EventIds /\ run[r].n \in Attempts
    <2>1. run[r].pc = "post" /\ RunOK(run[r]) /\ run[r] \in Run
      BY DEF RunInv, TypeOK, PostAccepted, PostFailed
    <2> QED
      BY <2>1 DEF RunOK, TypeOK, StoreTypeOK, Run, Attempts, Ended
  <1>2. Grows /\ UNCHANGED storeVars
    BY <1>1 DEF Grows, TypeOK, PostAccepted, PostFailed, SawFailure, Saw, storeVars
  <1>3. \A b \in BOOLEAN : x(b) \in Run
    BY <1>1, RunFields DEF PCs, InActivity, InSlot
  <1>4. \A b \in BOOLEAN :
          /\ x(b).pc = "record" /\ x(b).ok = b /\ x(b).ev = run[r].ev
          /\ x(b).n = run[r].n /\ x(b).max = run[r].max
    BY <1>1 DEF Run
  <1>5. PICK b \in BOOLEAN :
          /\ Become(r, x(b))
          /\ IF b THEN run[r].ev \in accepted' ELSE run[r].n \in failedAt'[run[r].ev]
    <2>1. CASE PostAccepted(r)
      BY <2>1, <1>1 DEF PostAccepted
    <2>2. CASE PostFailed(r)
      BY <2>2, <1>1 DEF PostFailed, SawFailure, TypeOK
    <2> QED
      BY <2>1, <2>2
  <1>6. OnlyRun(r) /\ run'[r] = x(b)
    BY <1>3, <1>5, BecomeRun
  <1> HIDE DEF x
  <1>7. RunOK(run[r])' /\ run'[r].pc # "done"
    BY <1>1, <1>2, <1>4, <1>5, <1>6 DEF RunOK, Ended, Grows, Attempts
  <1> QED
    BY <1>2, <1>6, <1>7, RunOnlyStep

-----------------------------------------------------------------------------
(* The steps of a run that write a table *)

\* RecordDelivery keeps Inv.
LEMMA RecordDeliveryInv ==
    ASSUME Inv, NEW r \in Runs, RecordDelivery(r), UNCHANGED ingestVars
    PROVE  Inv'
  <1> USE DEF Inv, RecordDelivery
  <1> DEFINE pc == IF run[r].ok THEN AfterAttempt(r, TRUE) ELSE "note"
             status == IF run[r].ok THEN "delivered" ELSE "failed"
  <1>1. Grows
    BY DEF Grows, TypeOK, destVars, InsertDelivery, storeVars
  <1>2. RunOK(run[r]) /\ run[r] \in Run
    BY DEF RunInv, TypeOK
  <1>3. /\ run[r].ev \in EventIds /\ run[r].n \in Attempts
        /\ run[r].n \in failedAt[run[r].ev] \/ run[r].ok
        /\ run[r].ok => run[r].ev \in accepted
    BY <1>2 DEF RunOK, TypeOK, StoreTypeOK, Run, Attempts, Ended
  <1>4. RowsOK' /\ IssuesStay
    <2>1. CASE InsertDelivery(run[r].ev, run[r].n, status)
      BY <1>1, <1>3, <2>1, InsertDeliveryRows
    <2>2. CASE UNCHANGED storeVars
      BY <2>2, <1>1, RowsSame
    <2> QED
      BY <2>1, <2>2
  <1>5. /\ pc \in PCs /\ pc \in {"failed", "delivered", "note"}
        /\ pc = "delivered" => run[r].ok
        /\ pc = "note" => ~ run[r].ok
    BY AfterAttemptGoes DEF PCs, InActivity, InSlot
  <1>6. OnlyRun(r) /\ SameBut(run[r], run[r]', pc)
    BY <1>5, MoveRun
  <1> HIDE DEF pc
  <1>7. RunOK(run[r])' /\ run'[r].pc # "done"
    BY <1>1, <1>2, <1>3, <1>5, <1>6 DEF RunOK, SameBut, Ended, Grows, Run, Attempts
  <1> QED
    BY <1>1, <1>4, <1>6, <1>7, RunStepInv DEF InsertDelivery, storeVars, DoneOK

\* NoteOpenIssue keeps Inv.
LEMMA NoteOpenIssueInv ==
    ASSUME Inv, NEW r \in Runs, NoteOpenIssue(r), UNCHANGED ingestVars
    PROVE  Inv'
  <1> USE DEF Inv, NoteOpenIssue
  <1> DEFINE pc == AfterAttempt(r, FALSE)
  <1>1. Grows
    BY DEF Grows, TypeOK, destVars, UpsertIssue, storeVars
  <1>2. RunOK(run[r]) /\ run[r] \in Run
    BY DEF RunInv, TypeOK
  <1>3. /\ run[r].ev \in EventIds /\ run[r].n \in Attempts
        /\ run[r].n \in failedAt[run[r].ev]
    BY <1>2 DEF RunOK, TypeOK, StoreTypeOK, Run, Attempts, Ended
  <1>4. RowsOK' /\ IssuesStay
    <2>1. CASE UpsertIssue(run[r].ev, run[r].n, "specific")
      BY <1>1, <1>3, <2>1, UpsertIssueRows
    <2>2. CASE UNCHANGED storeVars
      BY <2>2, <1>1, RowsSame
    <2> QED
      BY <2>1, <2>2
  <1>5. /\ pc \in PCs /\ pc \in {"failed", "sleep", "exhausted"}
        /\ pc = "sleep" => run[r].n < run[r].max
        /\ pc = "exhausted" => ~ (run[r].n < run[r].max)
    BY AfterAttemptGoes
  <1>6. OnlyRun(r) /\ SameBut(run[r], run[r]', pc)
    BY <1>5, MoveRun
  <1> HIDE DEF pc
  <1>7. RunOK(run[r])' /\ run'[r].pc # "done"
    BY <1>1, <1>2, <1>3, <1>5, <1>6 DEF RunOK, SameBut, Ended, Grows, Run, Attempts
  <1> QED
    BY <1>1, <1>4, <1>6, <1>7, RunStepInv DEF UpsertIssue, storeVars, DoneOK

\* RecordDelivered keeps Inv.
LEMMA RecordDeliveredInv ==
    ASSUME Inv, NEW r \in Runs, RecordDelivered(r), UNCHANGED ingestVars
    PROVE  Inv'
  <1> USE DEF Inv, RecordDelivered
  <1>1. Grows
    BY DEF Grows, TypeOK, destVars, ResolveIssueByEventID, storeVars
  <1>2. RunOK(run[r]) /\ run[r].ev \in EventIds /\ run[r].ev \in accepted
    BY DEF RunInv, RunOK, TypeOK
  <1>3. RowsOK' /\ IssuesStay
    <2>1. CASE ResolveIssueByEventID(run[r].ev)
      BY <1>1, <1>2, <2>1, ResolveIssueRows
    <2>2. CASE UNCHANGED storeVars
      BY <1>1, <2>2, RowsSame
    <2> QED
      BY <2>1, <2>2
  <1>4. PICK pc \in Ended : Move(r, pc)
    BY DEF Ended
  <1>5. OnlyRun(r) /\ SameBut(run[r], run[r]', pc)
    BY <1>4, MoveRun DEF PCs
  <1>6. RunOK(run[r])' /\ DoneOK(run[r])'
    BY <1>1, <1>2, <1>4, <1>5 DEF RunOK, DoneOK, SameBut, Ended, Grows
  <1> QED
    BY <1>1, <1>3, <1>5, <1>6, RunStepInv DEF ResolveIssueByEventID, storeVars

\* RecordIssue keeps Inv.
LEMMA RecordIssueInv ==
    ASSUME Inv, NEW r \in Runs, RecordIssue(r), UNCHANGED ingestVars
    PROVE  Inv'
  <1> USE DEF Inv, RecordIssue
  <1> DEFINE e == run[r].ev
             n == run[r].max
  <1>1. Grows
    BY DEF Grows, TypeOK, destVars, UpsertIssue, storeVars
  <1>2. RunOK(run[r]) /\ run[r] \in Run
    BY DEF RunInv, TypeOK
  <1>3. e \in EventIds /\ n \in Attempts /\ n \in failedAt[e] /\ 1 .. n \subseteq failedAt[e]
    BY <1>2 DEF RunOK, TypeOK, StoreTypeOK, Run, Attempts, Ended
  <1>4. CASE e \in live /\ UpsertIssue(e, n, "exhausted") /\ Move(r, "done")
    <2>1. RowsOK' /\ IssuesStay /\ issue'[e].status # "none"
      BY <1>1, <1>3, <1>4, UpsertIssueRows
    <2>2. OnlyRun(r) /\ SameBut(run[r], run[r]', "done")
      BY <1>4, MoveRun DEF PCs, Ended
    <2>3. RunOK(run[r])' /\ DoneOK(run[r])'
      BY <1>1, <1>2, <1>3, <2>1, <2>2 DEF RunOK, DoneOK, SameBut, Ended, Grows
    <2> QED
      BY <1>1, <1>4, <2>1, <2>2, <2>3, RunStepInv DEF UpsertIssue
  <1>5. CASE UNCHANGED storeVars /\ Move(r, "failed")
    <2>1. OnlyRun(r) /\ SameBut(run[r], run[r]', "failed")
      BY <1>5, MoveRun DEF PCs, Ended
    <2>2. RunOK(run[r])' /\ run'[r].pc # "done"
      BY <1>1, <1>2, <2>1 DEF RunOK, SameBut, Ended, Grows
    <2> QED
      BY <1>1, <1>5, <2>1, <2>2, RunOnlyStep
  <1> QED
    BY <1>4, <1>5

\* ActivityLost keeps Inv.
LEMMA ActivityLostInv ==
    ASSUME Inv, NEW r \in Runs, ActivityLost(r), UNCHANGED ingestVars
    PROVE  Inv'
  <1> USE DEF Inv, ActivityLost
  <1>1. RunOK(run[r]) /\ run[r] \in Run /\ run[r].ev \in EventIds
    BY DEF RunInv, RunOK, TypeOK, StoreTypeOK, InActivity, InSlot, Scheduled
  <1>2. Grows /\ UNCHANGED <<live, used>>
    BY <1>1 DEF Grows, TypeOK, UpsertIssue, ResolveIssueByEventID, storeVars
  <1>3. RowsOK' /\ IssuesStay
    <2>1. CASE UNCHANGED storeVars
      BY <1>2, <2>1, RowsSame
    <2>2. CASE run[r].pc = "delivered" /\ ResolveIssueByEventID(run[r].ev)
      BY <1>1, <1>2, <2>2, ResolveIssueRows DEF RunOK
    <2>3. CASE /\ run[r].pc = "exhausted"
               /\ UpsertIssue(run[r].ev, run[r].max, "exhausted")
      <3>1. run[r].max \in Attempts /\ run[r].max \in failedAt[run[r].ev]
        BY <1>1, <2>3 DEF RunOK, Run, Attempts, Ended
      <3> QED
        BY <1>1, <1>2, <2>3, <3>1, UpsertIssueRows
    <2> QED
      BY <2>1, <2>2, <2>3
  <1>4. OnlyRun(r) /\ SameBut(run[r], run[r]', "failed")
    BY MoveRun DEF PCs, Ended
  <1>5. RunOK(run[r])' /\ DoneOK(run[r])'
    BY <1>1, <1>2, <1>4 DEF RunOK, DoneOK, SameBut, Ended, Grows, InActivity, InSlot, Scheduled
  <1> QED
    BY <1>2, <1>3, <1>4, <1>5, RunStepInv

-----------------------------------------------------------------------------
(* The steps that start a run, and the other parties *)

\* A run that is started has nothing behind it.
LEMMA ExecuteWorkflowRun ==
    ASSUME TypeOK, NEW r \in Runs, NEW e \in used, ExecuteWorkflow(r, e)
    PROVE  /\ OnlyRun(r) /\ run'[r].pc = "load" /\ run'[r].ev = e
           /\ used \subseteq used' => RunOK(run[r])' /\ DoneOK(run[r])'
  <1> DEFINE x == RunAt("load", e)
  <1>1. x.pc = "load" /\ x.ev = e
    BY DEF RunAt
  <1>2. e \in EventIds /\ "load" \in PCs /\ 0 \in 0..MaxAttempts
    BY DEF TypeOK, StoreTypeOK, PCs, Scheduled
  <1>3. x \in Run
    BY <1>2 DEF Run, RunAt
  <1>4. OnlyRun(r) /\ run'[r] = x
    BY <1>3 DEF ExecuteWorkflow, OnlyRun, TypeOK
  <1> QED
    BY <1>1, <1>4 DEF RunOK, DoneOK, Ended

\* Replay keeps Inv.
LEMMA ReplayInv ==
    ASSUME Inv, NEW r \in Replays, NEW e \in EventIds, Replay(r, e),
           UNCHANGED ingestVars
    PROVE  Inv'
  <1> USE DEF Inv, Replay
  <1>1. Grows /\ r \in Runs /\ e \in used
    BY DEF Grows, TypeOK, StoreTypeOK, IssueShowsRealFailure, destVars, storeVars, Runs
  <1>2. OnlyRun(r) /\ run'[r].pc = "load" /\ RunOK(run[r])'
    BY <1>1, ExecuteWorkflowRun DEF Grows
  <1> QED
    BY <1>1, <1>2, RunOnlyStep

\* RetentionPurge keeps Inv.
LEMMA RetentionPurgeInv ==
    ASSUME Inv, NEW S \in SUBSET live, RetentionPurge(S), UNCHANGED ingestVars
    PROVE  Inv'
  <1> USE DEF Inv, RetentionPurge, DeleteEvents
  <1>1. Grows
    BY DEF Grows, TypeOK, destVars
  <1>2. \A e \in EventIds :
          /\ issue'[e] = IF e \in S THEN NoIssue ELSE issue[e]
          /\ delivery'[e] = IF e \in S THEN NoDeliveries ELSE delivery[e]
    OBVIOUS
  <1>3. StoreTypeOK'
    <2>1. NoIssue \in Issue
      BY DEF NoIssue, Issue
    <2>2. NoDeliveries \in [Attempts -> {"none", "delivered", "failed"}]
      BY DEF NoDeliveries
    <2> QED
      BY <2>1, <2>2 DEF TypeOK, StoreTypeOK
  <1>4. TypeOK'
    BY <1>3 DEF TypeOK, destVars, ingestVars
  <1>5. IssuesStay
    BY <1>2 DEF IssuesStay, TypeOK, StoreTypeOK
  <1>6. RunInv' /\ RunOutcome'
    BY <1>1, <1>5, RunsSame
  <1>7. KeyInv' /\ AckedWasStored'
    BY DEF KeyInv, AckedWasStored, ingestVars
  <1>8. NoIssueInv' /\ ResolvedWasAccepted' /\ IssueShowsRealFailure'
    BY <1>2 DEF NoIssueInv, ResolvedWasAccepted, IssueShowsRealFailure, NoIssue, destVars
  <1>9. DeliveryRowTrue'
    BY <1>2 DEF DeliveryRowTrue, NoDeliveries, destVars
  <1> QED
    BY <1>4, <1>6, <1>7, <1>8, <1>9

\* PatchConnection keeps Inv.
LEMMA PatchConnectionInv ==
    ASSUME Inv, NEW c \in Conns, NEW n \in Attempts, PatchConnection(c, n),
           UNCHANGED ingestVars
    PROVE  Inv'
  <1> USE DEF Inv, PatchConnection, UpdateRetryAttempts
  <1>1. Grows /\ IssuesStay
    BY DEF Grows, IssuesStay, TypeOK, StoreTypeOK, destVars
  <1>2. TypeOK'
    BY DEF TypeOK, StoreTypeOK, destVars, ingestVars
  <1>3. RunInv' /\ RunOutcome'
    BY <1>1, RunsSame
  <1>4. KeyInv' /\ AckedWasStored' /\ NoIssueInv'
    BY DEF KeyInv, AckedWasStored, NoIssueInv, ingestVars
  <1>5. ResolvedWasAccepted' /\ IssueShowsRealFailure' /\ DeliveryRowTrue'
    BY DEF ResolvedWasAccepted, IssueShowsRealFailure, DeliveryRowTrue, destVars
  <1> QED
    BY <1>2, <1>3, <1>4, <1>5

\* Any step of the workers, replays, purge and PATCH keeps Inv.
LEMMA DeliveryNextInv ==
    ASSUME Inv, DeliveryNext, UNCHANGED ingestVars
    PROVE  Inv'
  <1>1. CASE \E r \in Runs : LoadEventMeta(r)
    BY <1>1, LoadEventMetaInv
  <1>2. CASE \E r \in Runs, w \in Workers : DeliverActivity(r, w)
    BY <1>2, DeliverActivityInv
  <1>3. CASE \E r \in Runs : Wake(r)
    BY <1>3, WakeInv
  <1>4. CASE \E r \in Runs : Acquire(r)
    BY <1>4, AcquireInv
  <1>5. CASE \E r \in Runs : BadRequest(r)
    BY <1>5, BadRequestInv
  <1>6. CASE \E r \in Runs : PostAccepted(r)
    BY <1>6, PostInv
  <1>7. CASE \E r \in Runs : PostFailed(r)
    BY <1>7, PostInv
  <1>8. CASE \E r \in Runs : RecordDelivery(r)
    BY <1>8, RecordDeliveryInv
  <1>9. CASE \E r \in Runs : NoteOpenIssue(r)
    BY <1>9, NoteOpenIssueInv
  <1>10. CASE \E r \in Runs : RecordDelivered(r)
    BY <1>10, RecordDeliveredInv
  <1>11. CASE \E r \in Runs : RecordIssue(r)
    BY <1>11, RecordIssueInv
  <1>12. CASE \E r \in Runs : ActivityLost(r)
    BY <1>12, ActivityLostInv
  <1>13. CASE \E r \in Runs : ActivityTimeout(r)
    BY <1>13, ActivityTimeoutInv
  <1>14. CASE \E r \in Replays, e \in EventIds : Replay(r, e)
    BY <1>14, ReplayInv
  <1>15. CASE \E S \in SUBSET live : RetentionPurge(S)
    BY <1>15, RetentionPurgeInv
  <1>16. CASE \E c \in Conns, n \in Attempts : PatchConnection(c, n)
    BY <1>16, PatchConnectionInv
  <1> QED
    BY <1>1, <1>2, <1>3, <1>4, <1>5, <1>6, <1>7, <1>8, <1>9, <1>10, <1>11,
       <1>12, <1>13, <1>14, <1>15, <1>16 DEF DeliveryNext

-----------------------------------------------------------------------------
(* The ingest handler *)

\* A step of a handler writes no delivery and no issue.
LEMMA IngestStepInv ==
    ASSUME Inv, UNCHANGED <<destVars, delivery, issue, retryAttempts>>,
           used \subseteq used', used' \subseteq EventIds,
           live \subseteq live', live' \subseteq used',
           \A e \in live' : e \in used => e \in live,
           workflowID' \subseteq live', run' \in [Runs -> Run],
           RunInv' /\ RunOutcome',
           req' \in [Reqs -> Req], acked' \subseteq Keys,
           KeyInv' /\ AckedWasStored'
    PROVE  Inv'
  <1> USE DEF Inv, destVars
  <1>1. TypeOK'
    BY DEF TypeOK, StoreTypeOK
  <1>2. NoIssueInv' /\ ResolvedWasAccepted' /\ IssueShowsRealFailure' /\ DeliveryRowTrue'
    BY DEF NoIssueInv, ResolvedWasAccepted, IssueShowsRealFailure, DeliveryRowTrue
  <1> QED
    BY <1>1, <1>2

\* A request that moves keeps its type.
LEMMA ReqFields ==
    ASSUME TypeOK, NEW q \in Reqs, NEW pc \in {"idle", "start", "setwf", "reply"}
    PROVE  /\ [req EXCEPT ![q].pc = pc] \in [Reqs -> Req]
           /\ \A k \in Keys \cup {NoKey}, e \in EventIds \cup {NoEvent} :
                [req EXCEPT ![q] = [pc |-> pc, key |-> k, ev |-> e]] \in [Reqs -> Req]
  <1>1. req \in [Reqs -> Req] /\ [req[q] EXCEPT !.pc = pc] \in Req
    BY DEF TypeOK, Req
  <1>2. \A k \in Keys \cup {NoKey}, e \in EventIds \cup {NoEvent} :
          [pc |-> pc, key |-> k, ev |-> e] \in Req
    BY DEF Req
  <1> QED
    BY <1>1, <1>2

\* Duplicate keeps Inv.
LEMMA DuplicateInv ==
    ASSUME Inv, NEW q \in Reqs, NEW k \in Keys, Duplicate(q, k), UNCHANGED destVars
    PROVE  Inv'
  <1> USE DEF Inv, Duplicate, storeVars
  <1>1. Grows /\ IssuesStay
    BY DEF Grows, IssuesStay, TypeOK, StoreTypeOK, destVars
  <1>2. RunInv' /\ RunOutcome'
    BY <1>1, RunsSame
  <1>3. req' \in [Reqs -> Req]
    BY ReqFields
  <1>4. \E e \in used : KeyOf[e] = k
    BY DEF Conflicts, TypeOK, StoreTypeOK
  <1>5. KeyInv' /\ AckedWasStored'
    BY <1>4 DEF KeyInv, AckedWasStored, TypeOK
  <1> QED
    BY <1>2, <1>3, <1>5, IngestStepInv DEF TypeOK, StoreTypeOK

\* The row of a key with no row leaves one row per key.
LEMMA InsertRowInv ==
    ASSUME Inv, NEW k \in Keys, NEW e \in EventIds, InsertRow(k, e),
           UNCHANGED <<run, acked, destVars>>, req' \in [Reqs -> Req],
           \A q \in Reqs : \/ req'[q] = req[q]
                           \/ req'[q].key = k /\ req'[q].ev = e
    PROVE  Inv'
  <1> USE DEF Inv, InsertRow
  <1>1. Grows /\ IssuesStay
    BY DEF Grows, IssuesStay, TypeOK, StoreTypeOK, destVars
  <1>2. RunInv' /\ RunOutcome'
    BY <1>1, RunsSame
  <1>3. AckedWasStored'
    BY DEF AckedWasStored
  <1>4. KeyInv'
    <2>1. \A f, g \in live' : KeyOf[f] = KeyOf[g] => f = g
      BY DEF KeyInv, Conflicts
    <2>2. \A q \in Reqs : req'[q].pc # "idle" =>
            req'[q].key \in Keys /\ \E f \in used' : KeyOf[f] = req'[q].key
      BY DEF KeyInv
    <2>3. \A q \in Reqs : req'[q].pc \in {"start", "setwf"} => req'[q].ev \in used'
      BY DEF KeyInv
    <2> QED
      BY <2>1, <2>2, <2>3 DEF KeyInv
  <1> QED
    BY <1>2, <1>3, <1>4, IngestStepInv DEF TypeOK, StoreTypeOK

\* InsertEvent keeps Inv.
LEMMA InsertEventInv ==
    ASSUME Inv, NEW q \in Reqs, NEW k \in Keys,
           InsertEvent(q, k) \/ InsertEventUnreported(q, k), UNCHANGED destVars
    PROVE  Inv'
  <1>1. CASE InsertEvent(q, k)
    <2>1. PICK e \in EventIds :
            /\ InsertRow(k, e)
            /\ req' = [req EXCEPT ![q] = [pc |-> "start", key |-> k, ev |-> e]]
      BY <1>1 DEF InsertEvent
    <2>2. req' \in [Reqs -> Req]
      BY <2>1, ReqFields DEF Inv
    <2>3. \A p \in Reqs : req'[p] = req[p] \/ (req'[p].key = k /\ req'[p].ev = e)
      BY <2>1 DEF Inv, TypeOK
    <2> QED
      BY <1>1, <2>1, <2>2, <2>3, InsertRowInv DEF InsertEvent
  <1>2. CASE InsertEventUnreported(q, k)
    BY <1>2, InsertRowInv DEF InsertEventUnreported, Inv, TypeOK
  <1> QED
    BY <1>1, <1>2

\* StartWorkflow keeps Inv.
LEMMA StartWorkflowInv ==
    ASSUME Inv, NEW q \in Reqs, StartWorkflow(q) \/ StartWorkflowFails(q),
           UNCHANGED destVars
    PROVE  Inv'
  <1> USE DEF Inv, storeVars
  <1>0. PICK e \in used : e = req[q].ev
    BY DEF StartWorkflow, StartWorkflowFails, At, KeyInv
  <1>1. e \in Runs /\ UNCHANGED <<storeVars, acked>> /\ req[q].pc = "start"
    BY DEF StartWorkflow, StartWorkflowFails, At, TypeOK, StoreTypeOK, Runs
  <1>2. Grows /\ IssuesStay
    BY <1>1 DEF Grows, IssuesStay, TypeOK, StoreTypeOK, destVars
  <1>3. run' \in [Runs -> Run] /\ RunInv' /\ RunOutcome'
    <2>1. CASE UNCHANGED run
      BY <1>2, <2>1, RunsSame DEF TypeOK
    <2>2. CASE ExecuteWorkflow(e, e)
      <3>1. OnlyRun(e) /\ RunOK(run[e])' /\ DoneOK(run[e])'
        BY <1>1, <2>2, ExecuteWorkflowRun
      <3> QED
        BY <1>1, <1>2, <3>1, RunInvStep DEF OnlyRun
    <2> QED
      BY <1>0, <2>1, <2>2 DEF StartWorkflow, StartWorkflowFails
  <1>4. PICK pc \in {"setwf", "reply"} : req' = [req EXCEPT ![q].pc = pc]
    BY DEF StartWorkflow, StartWorkflowFails, Goto
  <1>5. req' \in [Reqs -> Req]
    BY <1>4, ReqFields
  <1>6. KeyInv' /\ AckedWasStored'
    BY <1>1, <1>4 DEF KeyInv, AckedWasStored, TypeOK, Req
  <1> QED
    BY <1>1, <1>3, <1>5, <1>6, IngestStepInv DEF TypeOK, StoreTypeOK

\* SetEventWorkflowID keeps Inv.
LEMMA SetEventWorkflowIDInv ==
    ASSUME Inv, NEW q \in Reqs, SetEventWorkflowID(q), UNCHANGED destVars
    PROVE  Inv'
  <1> USE DEF Inv, SetEventWorkflowID
  <1>1. /\ UNCHANGED <<live, used, delivery, issue, retryAttempts>>
        /\ workflowID' \subseteq live'
    BY DEF SetWorkflowID, storeVars, TypeOK, StoreTypeOK
  <1>2. Grows /\ IssuesStay
    BY <1>1 DEF Grows, IssuesStay, TypeOK, StoreTypeOK, destVars
  <1>3. RunInv' /\ RunOutcome'
    BY <1>2, RunsSame
  <1>4. req' \in [Reqs -> Req]
    BY ReqFields DEF Goto
  <1>5. KeyInv' /\ AckedWasStored'
    BY <1>1 DEF KeyInv, AckedWasStored, TypeOK, Req, Goto, At
  <1> QED
    BY <1>1, <1>3, <1>4, <1>5, IngestStepInv DEF TypeOK, StoreTypeOK

\* Reply keeps Inv.
LEMMA ReplyInv ==
    ASSUME Inv, NEW q \in Reqs, Reply(q), UNCHANGED destVars
    PROVE  Inv'
  <1> USE DEF Inv, Reply, storeVars
  <1>1. Grows /\ IssuesStay
    BY DEF Grows, IssuesStay, TypeOK, StoreTypeOK, destVars
  <1>2. RunInv' /\ RunOutcome'
    BY <1>1, RunsSame
  <1>3. req' \in [Reqs -> Req]
    BY ReqFields DEF NoReq
  <1>4. req[q].key \in Keys /\ \E e \in used : KeyOf[e] = req[q].key
    BY DEF KeyInv, At
  <1>5. KeyInv' /\ AckedWasStored' /\ acked' \subseteq Keys
    BY <1>4 DEF KeyInv, AckedWasStored, TypeOK, NoReq
  <1> QED
    BY <1>2, <1>3, <1>5, IngestStepInv DEF TypeOK, StoreTypeOK

\* APICrash keeps Inv.
LEMMA APICrashInv ==
    ASSUME Inv, APICrash, UNCHANGED destVars
    PROVE  Inv'
  <1> USE DEF Inv, APICrash, storeVars
  <1>1. Grows /\ IssuesStay
    BY DEF Grows, IssuesStay, TypeOK, StoreTypeOK, destVars
  <1>2. RunInv' /\ RunOutcome'
    BY <1>1, RunsSame
  <1>3. req' \in [Reqs -> Req] /\ KeyInv' /\ AckedWasStored'
    BY DEF Req, NoReq, KeyInv, AckedWasStored
  <1> QED
    BY <1>2, <1>3, IngestStepInv DEF TypeOK, StoreTypeOK

\* Any step of the ingest handlers keeps Inv.
LEMMA IngestNextInv ==
    ASSUME Inv, IngestNext, UNCHANGED destVars
    PROVE  Inv'
  <1>1. CASE \E q \in Reqs, k \in Keys : Duplicate(q, k)
    BY <1>1, DuplicateInv
  <1>2. CASE \E q \in Reqs, k \in Keys : InsertEvent(q, k)
    BY <1>2, InsertEventInv
  <1>3. CASE \E q \in Reqs, k \in Keys : InsertEventUnreported(q, k)
    BY <1>3, InsertEventInv
  <1>4. CASE \E q \in Reqs : StartWorkflow(q)
    BY <1>4, StartWorkflowInv
  <1>5. CASE \E q \in Reqs : StartWorkflowFails(q)
    BY <1>5, StartWorkflowInv
  <1>6. CASE \E q \in Reqs : SetEventWorkflowID(q)
    BY <1>6, SetEventWorkflowIDInv
  <1>7. CASE \E q \in Reqs : Reply(q)
    BY <1>7, ReplyInv
  <1>8. CASE APICrash
    BY <1>8, APICrashInv
  <1> QED
    BY <1>1, <1>2, <1>3, <1>4, <1>5, <1>6, <1>7, <1>8 DEF IngestNext

-----------------------------------------------------------------------------
(* The theorems *)

\* Any step keeps Inv.
LEMMA InvStep == Inv /\ [Next]_vars => Inv'
  <1> SUFFICES ASSUME Inv, [Next]_vars PROVE Inv'
    OBVIOUS
  <1>1. CASE IngestNext /\ UNCHANGED destVars
    BY <1>1, IngestNextInv
  <1>2. CASE DeliveryNext /\ UNCHANGED ingestVars
    BY <1>2, DeliveryNextInv
  <1>3. CASE UNCHANGED vars
    <2> USE <1>3 DEF Inv, vars, storeVars, ingestVars, destVars
    <2>1. Grows /\ IssuesStay
      BY DEF Grows, IssuesStay, TypeOK, StoreTypeOK
    <2>2. TypeOK' /\ KeyInv' /\ AckedWasStored'
      BY DEF TypeOK, StoreTypeOK, KeyInv, AckedWasStored
    <2>3. RunInv' /\ RunOutcome'
      BY <2>1, RunsSame
    <2>4. RowsOK'
      BY <2>1, RowsSame
    <2> QED
      BY <2>2, <2>3, <2>4 DEF RowsOK
  <1> QED
    BY <1>1, <1>2, <1>3 DEF Next

\* Inv is inductive: it holds initially and every step of the handlers, the
\* workers and the other parties keeps it.
THEOREM Invariance == Spec => []Inv
  BY InitInv, InvStep, PTL DEF Spec

\* Every variable keeps its type and no attempt number leaves the policy.
THEOREM TypeCorrect == Spec => []TypeOK
  <1>1. Inv => TypeOK
    BY DEF Inv
  <1> QED
    BY <1>1, Invariance, PTL

\* What a provider was told 200 for has been committed, whatever crashes,
\* breaks or is purged (server.go:169-178).
THEOREM AckAfterCommit == Spec => []AckedWasStored
  <1>1. Inv => AckedWasStored
    BY DEF Inv
  <1> QED
    BY <1>1, Invariance, PTL

\* A completed run delivered its event or used up its attempts and left an
\* issue (delivery.go:93-108).
THEOREM CompletedMeansSettled == Spec => []RunOutcome
  <1>1. Inv => RunOutcome
    BY DEF Inv
  <1> QED
    BY <1>1, Invariance, PTL

\* An issue is resolved only for an event the destination accepted, for any
\* number of concurrent runs of the event (delivery.go:231-239).
THEOREM ResolvedIsTrue == Spec => []ResolvedWasAccepted
  <1>1. Inv => ResolvedWasAccepted
    BY DEF Inv
  <1> QED
    BY <1>1, Invariance, PTL

\* The attempt number an issue shows is that of an attempt that failed, over
\* all runs that have written it (delivery.go:241-260, store.go:330-346).
THEOREM IssueIsTrue == Spec => []IssueShowsRealFailure
  <1>1. Inv => IssueShowsRealFailure
    BY DEF Inv
  <1> QED
    BY <1>1, Invariance, PTL

\* A row of deliveries says what its attempt came to, whichever run wrote it
\* first (delivery.go:199, store.go:308-313).
THEOREM DeliveriesAreTrue == Spec => []DeliveryRowTrue
  <1>1. Inv => DeliveryRowTrue
    BY DEF Inv
  <1> QED
    BY <1>1, Invariance, PTL

-----------------------------------------------------------------------------
(* How a run moves *)

RunActs(r) ==
    \/ LoadEventMeta(r) \/ (\E w \in Workers : DeliverActivity(r, w)) \/ Wake(r) \/ Acquire(r)
    \/ BadRequest(r) \/ PostAccepted(r) \/ PostFailed(r) \/ RecordDelivery(r) \/ NoteOpenIssue(r)
    \/ RecordDelivered(r) \/ RecordIssue(r) \/ ActivityLost(r) \/ ActivityTimeout(r)

\* A run that acts has started and keeps its event; it comes by a worker when
\* its activity begins and by a slot when it acquires one; and it is lost only
\* where activities may be.
Moved(r) ==
    /\ OnlyRun(r)
    /\ run[r].pc # "idle" /\ run'[r].pc # "idle" /\ run'[r].ev = run[r].ev
    /\ run'[r].pc \in InActivity =>
         \/ run'[r].worker \in Workers
         \/ run[r].pc \in InActivity /\ run'[r].worker = run[r].worker
    /\ run'[r].pc \in InSlot =>
         run'[r].worker = run[r].worker /\ (run[r].pc \in InSlot \/ Acquire(r))
    /\ run'[r].lost => run[r].lost \/ "activityLost" \in Disturbances

\* A step that only moves a run gives it no worker, and a slot by Acquire alone.
LEMMA MovedBy ==
    ASSUME TypeOK, NEW r \in Runs, NEW pc \in PCs, Move(r, pc), pc # "idle", run[r].pc # "idle",
           pc \in InActivity => run[r].pc \in InActivity,
           pc \in InSlot => run[r].pc \in InSlot \/ Acquire(r)
    PROVE  Moved(r)
  BY MoveRun DEF Moved, SameBut

\* So does each action of a run.
LEMMA ActsMove ==
    ASSUME TypeOK, TypeOK', NEW r \in Runs, RunActs(r)
    PROVE  Moved(r)
  <1>0. run[r] \in Run
    BY DEF TypeOK
  <1>a. /\ {"failed", "done", "post", "note"} \subseteq PCs /\ "idle" \notin InActivity
        /\ {"failed", "done"} \cap InActivity = {} /\ InSlot \subseteq InActivity
        /\ "note" \in InSlot /\ "record" \in InSlot /\ "post" \in InSlot /\ "wait" \in InActivity
        /\ "deliver" \notin InActivity /\ "deliver" \in PCs /\ "wait" \in PCs /\ "record" \in PCs
        /\ "wait" \notin InSlot
    BY DEF PCs, Ended, InActivity, InSlot, Scheduled
  <1>1. ASSUME Move(r, "failed"), run[r].pc # "idle"
        PROVE  Moved(r)
    BY <1>1, <1>a, MovedBy
  <1>2. CASE LoadEventMeta(r)
    <2>1. CASE Move(r, "failed")
      BY <1>1, <1>2, <2>1 DEF LoadEventMeta
    <2>2. CASE ~ Move(r, "failed")
      <3> DEFINE max == retryAttempts[EventConn(run[r].ev)]
                 x == [run[r] EXCEPT !.pc = "deliver", !.n = 1, !.max = max]
      <3>1. run[r].ev \in live /\ Become(r, x) /\ run[r].pc = "load"
        BY <1>2, <2>2 DEF LoadEventMeta
      <3>2. max \in Attempts
        BY <3>1 DEF TypeOK, StoreTypeOK, EventConn
      <3>3. 1 \in 0..MaxAttempts /\ max \in 0..MaxAttempts
        BY <3>2 DEF Attempts
      <3> HIDE DEF max
      <3>4. x \in Run
        BY <1>0, <1>a, <3>3, RunFields
      <3>5. x.ev = run[r].ev /\ x.pc = "deliver" /\ x.lost = run[r].lost
        BY <1>0 DEF Run
      <3>6. OnlyRun(r) /\ run'[r] = x
        BY <3>1, <3>4, BecomeRun
      <3> HIDE DEF x
      <3> QED
        BY <1>a, <3>1, <3>5, <3>6 DEF Moved
    <2> QED
      BY <2>1, <2>2
  <1>3. ASSUME NEW w \in Workers, DeliverActivity(r, w)
        PROVE  Moved(r)
    <2>1. CASE Move(r, "failed")
      BY <1>1, <1>3, <2>1 DEF DeliverActivity
    <2>2. CASE ~ Move(r, "failed")
      <3> DEFINE x == [run[r] EXCEPT !.pc = "wait", !.worker = w]
      <3>1. Become(r, x) /\ run[r].pc = "deliver"
        BY <1>3, <2>2 DEF DeliverActivity
      <3>2. x \in Run
        BY <1>0, <1>a, RunFields
      <3>3. x.ev = run[r].ev /\ x.pc = "wait" /\ x.lost = run[r].lost /\ x.worker = w
        BY <1>0 DEF Run
      <3>4. OnlyRun(r) /\ run'[r] = x
        BY <3>1, <3>2, BecomeRun
      <3> HIDE DEF x
      <3> QED
        BY <1>a, <3>1, <3>3, <3>4 DEF Moved
    <2> QED
      BY <2>1, <2>2
  <1>4. CASE Wake(r)
    <2> DEFINE x == [run[r] EXCEPT !.pc = "deliver", !.n = @ + 1]
    <2>1. run' = [run EXCEPT ![r] = x] /\ run[r].pc = "sleep"
      BY <1>4 DEF Wake, Become
    <2>2. x.ev = run[r].ev /\ x.pc = "deliver" /\ x.lost = run[r].lost
      BY <1>0 DEF Run
    <2> HIDE DEF x
    <2>3. run'[r] = x /\ \A s \in Runs : s # r => run'[s] = run[s]
      BY <2>1 DEF TypeOK
    <2> QED
      BY <1>a, <2>1, <2>2, <2>3 DEF Moved, OnlyRun, TypeOK
  <1>5. CASE PostAccepted(r) \/ PostFailed(r)
    <2>1. PICK b \in BOOLEAN : Become(r, [run[r] EXCEPT !.pc = "record", !.ok = b])
      BY <1>5 DEF PostAccepted, PostFailed
    <2> DEFINE x == [run[r] EXCEPT !.pc = "record", !.ok = b]
    <2>2. Become(r, x) /\ run[r].pc = "post"
      BY <1>5, <2>1 DEF PostAccepted, PostFailed
    <2>3. x \in Run
      BY <1>0, <1>a, RunFields
    <2>4. /\ x.ev = run[r].ev /\ x.pc = "record" /\ x.lost = run[r].lost
          /\ x.worker = run[r].worker
      BY <1>0 DEF Run
    <2> HIDE DEF x
    <2>5. OnlyRun(r) /\ run'[r] = x
      BY <2>2, <2>3, BecomeRun
    <2> QED
      BY <1>a, <2>2, <2>4, <2>5 DEF Moved
  <1>6. CASE ActivityTimeout(r)
    <2> DEFINE x == [run[r] EXCEPT !.lost = TRUE]
    <2>1. Become(r, x) /\ run[r].pc \in InActivity /\ "activityLost" \in Disturbances
      BY <1>6 DEF ActivityTimeout
    <2>2. x \in Run
      BY <1>0, <1>a, RunFields
    <2>3. x.ev = run[r].ev /\ x.pc = run[r].pc /\ x.worker = run[r].worker
      BY <1>0 DEF Run
    <2> HIDE DEF x
    <2>4. OnlyRun(r) /\ run'[r] = x
      BY <2>1, <2>2, BecomeRun
    <2> QED
      BY <1>a, <2>1, <2>3, <2>4 DEF Moved
  <1>7. CASE Acquire(r)
    BY <1>7, <1>a, MovedBy DEF Acquire
  <1>8. ASSUME NEW ok \in BOOLEAN, Move(r, AfterAttempt(r, ok)), run[r].pc # "idle"
        PROVE  Moved(r)
    <2> DEFINE pc == AfterAttempt(r, ok)
    <2>1. pc \in {"failed", "delivered", "sleep", "exhausted"} /\ pc \in PCs
      BY AfterAttemptGoes
    <2>2. pc # "idle" /\ pc \notin InActivity
      BY <2>1 DEF InActivity, InSlot
    <2> HIDE DEF pc
    <2>3. Move(r, pc)
      BY <1>8 DEF pc
    <2> QED
      BY <1>8, <1>a, <2>1, <2>2, <2>3, MovedBy
  <1>9. CASE BadRequest(r) \/ NoteOpenIssue(r)
    BY <1>8, <1>9 DEF BadRequest, NoteOpenIssue
  <1>10. CASE RecordDelivery(r)
    <2>1. run[r].pc = "record"
      BY <1>10 DEF RecordDelivery
    <2>2. CASE run[r].ok
      BY <1>8, <1>10, <2>1, <2>2 DEF RecordDelivery
    <2>3. CASE ~ run[r].ok
      <3>1. Move(r, "note")
        BY <1>10, <2>3 DEF RecordDelivery
      <3> QED
        BY <1>a, <2>1, <3>1, MovedBy
    <2> QED
      BY <2>2, <2>3
  <1>11. CASE RecordDelivered(r) \/ RecordIssue(r)
    <2>1. (Move(r, "done") \/ Move(r, "failed")) /\ run[r].pc # "idle"
      BY <1>11 DEF RecordDelivered, RecordIssue
    <2> QED
      BY <1>a, <2>1, MovedBy
  <1>12. CASE ActivityLost(r)
    BY <1>1, <1>12 DEF ActivityLost, InActivity, InSlot, Scheduled
  <1> QED
    BY <1>2, <1>3, <1>4, <1>5, <1>6, <1>7, <1>9, <1>10, <1>11, <1>12 DEF RunActs

\* A handler or an operator starts a run: its own for an event, or a replay.
Starts(r, e) ==
    /\ ExecuteWorkflow(r, e) /\ (r \in EventIds => r = e)
    /\ UNCHANGED <<storeVars, destVars>>

\* The others leave the runs alone; an event keeps its rows unless it goes
\* with them, and what they add is new.
RowsKept ==
    /\ UNCHANGED <<run, destVars>>
    /\ \A e \in EventIds :
         \/ issue'[e] = issue[e] /\ delivery'[e] = delivery[e]
         \/ e \notin live' /\ issue'[e] = NoIssue /\ delivery'[e] = NoDeliveries
    /\ \A e \in live' : e \in live \/ e \notin used

\* Every step is one of a run, the start of one, or neither.
LEMMA StepCases ==
    ASSUME Inv, [Next]_vars
    PROVE  \/ \E r \in Runs : RunActs(r)
           \/ \E r \in Runs, e \in EventIds : Starts(r, e)
           \/ RowsKept
  <1>1. ASSUME UNCHANGED <<run, destVars, issue, delivery>>, \A e \in live' : e \in live \/ e \notin used
        PROVE  RowsKept
    BY <1>1 DEF RowsKept
  <1>2. ASSUME NEW q \in Reqs, StartWorkflow(q) \/ StartWorkflowFails(q), UNCHANGED destVars
        PROVE  RowsKept \/ \E r \in Runs, e \in EventIds : Starts(r, e)
    <2>1. req[q].ev \in EventIds /\ req[q].ev \in Runs /\ UNCHANGED <<storeVars, destVars>>
      BY <1>2 DEF StartWorkflow, StartWorkflowFails, At, Inv, KeyInv, TypeOK, StoreTypeOK, Runs
    <2>2. CASE UNCHANGED run
      BY <1>1, <2>1, <2>2 DEF storeVars
    <2>3. CASE ExecuteWorkflow(req[q].ev, req[q].ev)
      BY <2>1, <2>3 DEF Starts
    <2> QED
      BY <1>2, <2>2, <2>3 DEF StartWorkflow, StartWorkflowFails
  <1>3. ASSUME IngestNext, UNCHANGED destVars
        PROVE  RowsKept \/ \E r \in Runs, e \in EventIds : Starts(r, e)
    <2>1. ASSUME NEW q \in Reqs, NEW k \in Keys, Duplicate(q, k)
          PROVE  RowsKept
      BY <1>1, <1>3, <2>1 DEF Duplicate, storeVars
    <2>2. ASSUME NEW q \in Reqs, NEW k \in Keys, InsertEvent(q, k) \/ InsertEventUnreported(q, k)
          PROVE  RowsKept
      BY <1>1, <1>3, <2>2 DEF InsertEvent, InsertEventUnreported, InsertRow
    <2>3. ASSUME NEW q \in Reqs, SetEventWorkflowID(q) \/ Reply(q)
          PROVE  RowsKept
      BY <1>1, <1>3, <2>3 DEF SetEventWorkflowID, SetWorkflowID, Reply, storeVars
    <2>4. CASE APICrash
      BY <1>1, <1>3, <2>4 DEF APICrash, storeVars
    <2> QED
      BY <1>2, <1>3, <2>1, <2>2, <2>3, <2>4 DEF IngestNext
  <1>4. ASSUME NEW r \in Replays, NEW e \in EventIds, Replay(r, e)
        PROVE  \E s \in Runs, f \in EventIds : Starts(s, f)
    BY <1>4 DEF Replay, Starts, Runs
  <1>5. ASSUME NEW S \in SUBSET live, RetentionPurge(S)
        PROVE  RowsKept
    BY <1>5 DEF RetentionPurge, DeleteEvents, RowsKept
  <1>6. ASSUME NEW c \in Conns, NEW n \in Attempts, PatchConnection(c, n)
        PROVE  RowsKept
    BY <1>1, <1>6 DEF PatchConnection, UpdateRetryAttempts
  <1>7. CASE UNCHANGED vars
    BY <1>1, <1>7 DEF vars, storeVars
  <1> QED
    BY <1>3, <1>4, <1>5, <1>6, <1>7 DEF Next, DeliveryNext, RunActs

\* A start makes one run, and nothing else.
LEMMA StartsRun ==
    ASSUME TypeOK, NEW r \in Runs, NEW e \in EventIds, Starts(r, e)
    PROVE  /\ run[r].pc = "idle" /\ run'[r].pc = "load" /\ run'[r].ev = e /\ ~ run'[r].lost
           /\ \A s \in Runs : s # r => run'[s] = run[s]
  <1>1. run' = [run EXCEPT ![r] = RunAt("load", e)] /\ run[r].pc = "idle"
    BY DEF Starts, ExecuteWorkflow, Started
  <1>2. RunAt("load", e).pc = "load" /\ RunAt("load", e).ev = e /\ ~ RunAt("load", e).lost
    BY DEF RunAt
  <1> QED
    BY <1>1, <1>2 DEF TypeOK

-----------------------------------------------------------------------------
(* One workflow for an event *)

\* The run named after an event is about that event.
OwnRun == \A e \in EventIds : run[e].pc # "idle" => run[e].ev = e

\* A request about to start a workflow is alone with its event.
FreeToStart ==
    \A q \in Reqs : At(q, "start") =>
        /\ ~ Started(req[q].ev)
        /\ \A p \in Reqs \ {q} : At(p, "start") => req[p].ev # req[q].ev

StartInv == Inv /\ OwnRun /\ FreeToStart

\* A step keeps OwnRun: runs keep their event, and a start gives it.
LEMMA OwnRunStep ==
    ASSUME Inv, Inv', OwnRun, [Next]_vars
    PROVE  OwnRun'
  <1>1. ASSUME NEW r \in Runs, RunActs(r) PROVE OwnRun'
    <2>1. Moved(r)
      BY <1>1, ActsMove DEF Inv
    <2> QED
      BY <2>1 DEF Moved, OnlyRun, OwnRun, Runs
  <1>2. ASSUME NEW r \in Runs, NEW e \in EventIds, Starts(r, e) PROVE OwnRun'
    <2>1. run'[r].ev = e /\ \A s \in Runs : s # r => run'[s] = run[s]
      BY <1>2, StartsRun DEF Inv
    <2> QED
      BY <1>2, <2>1 DEF Starts, OwnRun, Runs
  <1>3. CASE RowsKept
    BY <1>3 DEF RowsKept, OwnRun
  <1> QED
    BY <1>1, <1>2, <1>3, StepCases

\* No step of a handler brings a second request to the start of an event, nor
\* one to an event that has a run (server.go:169-195).
LEMMA FreeIngest ==
    ASSUME StartInv, IngestNext
    PROVE  FreeToStart'
  <1>t. req \in [Reqs -> Req] /\ run \in [Runs -> Run]
    BY DEF StartInv, Inv, TypeOK
  <1>u. \A q \in Reqs : At(q, "start") => req[q].ev \in used /\ req[q].ev \in Runs
    BY DEF StartInv, Inv, KeyInv, TypeOK, StoreTypeOK, At, Runs
  \* Requests that stay or leave the place, while no run is started.
  <1>q. ASSUME \A p \in Reqs : At(p, "start")' => req'[p] = req[p], UNCHANGED run
        PROVE  FreeToStart'
    BY <1>q DEF StartInv, FreeToStart, At, Started
  <1>1. ASSUME NEW q \in Reqs, NEW k \in Keys, Duplicate(q, k) PROVE FreeToStart'
    BY <1>t, <1>q, <1>1 DEF Duplicate, At
  <1>2. ASSUME NEW q \in Reqs, NEW k \in Keys, InsertEvent(q, k) PROVE FreeToStart'
    <2>1. PICK e \in EventIds \ used :
            req' = [req EXCEPT ![q] = [pc |-> "start", key |-> k, ev |-> e]]
      BY <1>2 DEF InsertEvent, InsertRow
    <2>2. run' = run /\ ~ Started(e)
      BY <1>2 DEF InsertEvent, StartInv, OwnRun, Inv, RunInv, RunOK, Runs, Started
    <2>3. /\ req'[q].ev = e
          /\ \A p \in Reqs \ {q} : req'[p] = req[p]
      BY <1>t, <2>1
    <2>4. \A p \in Reqs \ {q} : At(p, "start") => req[p].ev # e
      BY <1>u, <2>1
    <2> QED
      BY <2>2, <2>3, <2>4 DEF StartInv, FreeToStart, At, Started
  <1>3. ASSUME NEW q \in Reqs, NEW k \in Keys, InsertEventUnreported(q, k)
        PROVE  FreeToStart'
    BY <1>q, <1>3 DEF InsertEventUnreported
  <1>4. ASSUME NEW q \in Reqs, StartWorkflow(q) \/ StartWorkflowFails(q)
        PROVE  FreeToStart'
    <2>1. PICK pc \in {"setwf", "reply"} : req' = [req EXCEPT ![q].pc = pc]
      BY <1>4 DEF StartWorkflow, StartWorkflowFails, Goto
    <2>2. ~ At(q, "start")' /\ \A p \in Reqs \ {q} : req'[p] = req[p]
      BY <1>t, <2>1 DEF At, Req
    <2>3. At(q, "start") /\ \A r \in Runs : r # req[q].ev => run'[r] = run[r]
      BY <1>t, <1>4 DEF StartWorkflow, StartWorkflowFails, ExecuteWorkflow
    <2> QED
      BY <1>u, <2>2, <2>3 DEF StartInv, FreeToStart, At, Started
  <1>5. ASSUME NEW q \in Reqs, SetEventWorkflowID(q) PROVE FreeToStart'
    <2>1. req' = [req EXCEPT ![q].pc = "reply"] /\ run' = run
      BY <1>5 DEF SetEventWorkflowID, Goto
    <2>2. ~ At(q, "start")' /\ \A p \in Reqs \ {q} : req'[p] = req[p]
      BY <1>t, <2>1 DEF At, Req
    <2> QED
      BY <1>q, <2>1, <2>2
  <1>6. ASSUME NEW q \in Reqs, Reply(q) PROVE FreeToStart'
    BY <1>t, <1>q, <1>6 DEF Reply, At, NoReq
  <1>7. CASE APICrash
    BY <1>q, <1>7 DEF APICrash, At, NoReq
  <1> QED
    BY <1>1, <1>2, <1>3, <1>4, <1>5, <1>6, <1>7 DEF IngestNext

\* Nor does the delivery side: of the runs it starts none is an event's own.
LEMMA FreeDelivery ==
    ASSUME StartInv, Inv', DeliveryNext, UNCHANGED ingestVars
    PROVE  FreeToStart'
  <1>1. \A e \in EventIds : Started(e)' => Started(e)
    <2>1. ASSUME NEW r \in Runs, RunActs(r) PROVE \A e \in EventIds : Started(e)' => Started(e)
      <3>1. Moved(r)
        BY <2>1, ActsMove DEF StartInv, Inv
      <3> QED
        BY <3>1 DEF Moved, OnlyRun, Started, Runs
    <2>2. ASSUME NEW r \in Replays, NEW e \in EventIds, Replay(r, e)
          PROVE  \A f \in EventIds : Started(f)' => Started(f)
      BY <2>2 DEF Replay, ExecuteWorkflow, StartInv, Inv, TypeOK, Started, Runs
    <2>3. ASSUME NEW S \in SUBSET live, RetentionPurge(S)
          PROVE  \A e \in EventIds : Started(e)' => Started(e)
      BY <2>3 DEF RetentionPurge, Started
    <2>4. ASSUME NEW c \in Conns, NEW n \in Attempts, PatchConnection(c, n)
          PROVE  \A e \in EventIds : Started(e)' => Started(e)
      BY <2>4 DEF PatchConnection, Started
    <2> QED
      BY <2>1, <2>2, <2>3, <2>4 DEF DeliveryNext, RunActs
  <1>2. \A q \in Reqs : At(q, "start") => req[q].ev \in EventIds
    BY DEF StartInv, Inv, KeyInv, TypeOK, StoreTypeOK, At
  <1>3. req' = req
    BY DEF ingestVars
  <1> QED
    BY <1>1, <1>2, <1>3 DEF StartInv, FreeToStart, At, Started

\* No request is about to start anything.
LEMMA StartInit == Init => StartInv
  BY InitInv DEF Init, TemporalInit, IngestInit, StartInv, OwnRun, FreeToStart, At, NoReq,
                 Idle, RunAt, Runs

\* Any step keeps StartInv.
LEMMA StartStep == StartInv /\ [Next]_vars => StartInv'
  <1> SUFFICES ASSUME StartInv, [Next]_vars PROVE StartInv'
    OBVIOUS
  <1>1. Inv' /\ OwnRun'
    BY InvStep, OwnRunStep DEF StartInv
  <1>2. FreeToStart'
    <2>1. CASE UNCHANGED vars
      BY <2>1 DEF vars, ingestVars, StartInv, FreeToStart, At, Started
    <2> QED
      BY <1>1, <2>1, FreeIngest, FreeDelivery DEF Next
  <1> QED
    BY <1>1, <1>2 DEF StartInv

\* README "same provider event id twice = one workflow", for any number of
\* requests, crashes and purges: a handler calls ExecuteWorkflow for an event
\* once, and for no second row of a key (server.go:169-195).
THEOREM NoDuplicateWorkflow == Spec => []StartsOnce
  <1>1. StartInv => StartsOnce
    BY DEF StartInv, FreeToStart, StartsOnce, Inv, KeyInv
  <1> QED
    BY <1>1, StartInit, StartStep, PTL DEF Spec

-----------------------------------------------------------------------------
(* The limit of deliveries in flight *)

\* An activity runs on a worker.
AtWork == \A r \in Runs : run[r].pc \in InActivity => run[r].worker \in Workers

\* A worker has at most Limit activities in a slot of a connection.
SlotsKept ==
    \A w \in Workers, c \in Conns :
        IsFiniteSet(Holders(w, c)) /\ Cardinality(Holders(w, c)) <= Limit

SlotInv == Inv /\ AtWork /\ SlotsKept

\* No run has a slot.
LEMMA SlotInit == Init => SlotInv
  <1> SUFFICES ASSUME Init PROVE SlotInv
    OBVIOUS
  <1>1. \A r \in Runs : run[r].pc = "idle"
    BY DEF Init, TemporalInit, Idle, RunAt
  <1>2. ASSUME NEW w \in Workers, NEW c \in Conns
        PROVE  Holders(w, c) = {}
    BY <1>1 DEF Holders, InSlot
  <1>3. SlotsKept
    BY <1>2, FS_EmptySet, LimitAssumption DEF SlotsKept
  <1> QED
    BY <1>1, <1>3, InitInv DEF SlotInv, AtWork, InActivity, InSlot

\* No slot is taken.
LEMMA SlotsFreed ==
    ASSUME SlotsKept,
           \A r \in Runs : run'[r].pc \in InSlot =>
               run[r].pc \in InSlot /\ run'[r].worker = run[r].worker /\ run'[r].ev = run[r].ev
    PROVE  SlotsKept'
  <1> SUFFICES ASSUME NEW w \in Workers, NEW c \in Conns
               PROVE  IsFiniteSet(Holders(w, c)') /\ Cardinality(Holders(w, c)') <= Limit
    BY DEF SlotsKept
  <1> DEFINE H == Holders(w, c)
             G == Holders(w, c)'
  <1>1. G \subseteq H
    BY DEF Holders, EventConn
  <1>2. IsFiniteSet(H) /\ Cardinality(H) <= Limit
    BY DEF SlotsKept
  <1> HIDE DEF H, G
  <1>3. IsFiniteSet(G) /\ Cardinality(G) <= Cardinality(H) /\ Cardinality(G) \in Nat
        /\ Cardinality(H) \in Nat
    BY <1>1, <1>2, FS_Subset, FS_CardinalityType
  <1>4. Cardinality(G) <= Limit
    BY <1>2, <1>3, LimitAssumption
  <1> QED
    BY <1>3, <1>4 DEF G

\* One is taken, where there was room.
LEMMA SlotTaken ==
    ASSUME TypeOK, SlotsKept, NEW r \in Runs, run[r].worker \in Workers, Acquire(r), Moved(r)
    PROVE  SlotsKept'
  <1> SUFFICES ASSUME NEW w \in Workers, NEW c \in Conns
               PROVE  IsFiniteSet(Holders(w, c)') /\ Cardinality(Holders(w, c)') <= Limit
    BY DEF SlotsKept
  <1> DEFINE H == Holders(w, c)
             G == Holders(w, c)'
  <1>1. IsFiniteSet(H) /\ Cardinality(H) <= Limit
    BY DEF SlotsKept
  <1>2. \A s \in Runs : s # r => run'[s] = run[s]
    BY DEF Moved, OnlyRun
  <1>3. run'[r].worker = run[r].worker /\ run'[r].ev = run[r].ev /\ run[r].pc = "wait"
    <2>1. SameBut(run[r], run[r]', "post")
      BY MoveRun DEF Acquire, PCs, InActivity, InSlot
    <2> QED
      BY <2>1 DEF SameBut, Acquire
  <1>4. CASE w = run[r].worker /\ c = EventConn(run[r].ev)
    <2>1. Cardinality(H) < Limit
      BY <1>4 DEF Acquire
    <2>2. G \subseteq H \cup {r} /\ r \notin H
      BY <1>2, <1>3 DEF Holders, EventConn, InSlot
    <2> HIDE DEF G, H
    <2>3. /\ IsFiniteSet(H \cup {r}) /\ Cardinality(H \cup {r}) = Cardinality(H) + 1
          /\ Cardinality(H) \in Nat
      BY <1>1, <2>2, FS_AddElement, FS_CardinalityType
    <2>4. IsFiniteSet(G) /\ Cardinality(G) <= Cardinality(H \cup {r}) /\ Cardinality(G) \in Nat
      BY <2>2, <2>3, FS_Subset, FS_CardinalityType
    <2>5. Cardinality(G) <= Limit
      BY <2>1, <2>3, <2>4, LimitAssumption
    <2> QED
      BY <2>4, <2>5 DEF G
  <1>5. CASE ~ (w = run[r].worker /\ c = EventConn(run[r].ev))
    <2>1. G = H
      BY <1>2, <1>3, <1>5 DEF Holders, EventConn, InSlot
    <2> QED
      BY <1>1, <2>1
  <1> QED
    BY <1>4, <1>5

\* Each step keeps the limit of each worker.
LEMMA SlotStep == SlotInv /\ [Next]_vars => SlotInv'
  <1> SUFFICES ASSUME SlotInv, [Next]_vars PROVE SlotInv'
    OBVIOUS
  <1>1. Inv /\ Inv' /\ TypeOK /\ TypeOK'
    BY InvStep DEF SlotInv, Inv
  <1>2. ASSUME NEW r \in Runs, RunActs(r)
        PROVE  AtWork' /\ SlotsKept'
    <2>1. Moved(r) /\ \A s \in Runs : s # r => run'[s] = run[s]
      BY <1>1, <1>2, ActsMove DEF Moved, OnlyRun
    <2>2. AtWork'
      BY <2>1 DEF Moved, SlotInv, AtWork
    <2>3. CASE Acquire(r)
      <3>1. run[r].worker \in Workers
        BY <2>3 DEF Acquire, SlotInv, AtWork, InActivity
      <3> QED
        BY <1>1, <2>1, <2>2, <2>3, <3>1, SlotTaken DEF SlotInv
    <2>4. CASE ~ Acquire(r)
      <3>1. \A s \in Runs : run'[s].pc \in InSlot =>
              run[s].pc \in InSlot /\ run'[s].worker = run[s].worker /\ run'[s].ev = run[s].ev
        BY <2>1, <2>4 DEF Moved
      <3> QED
        BY <2>2, <3>1, SlotsFreed DEF SlotInv
    <2> QED
      BY <2>3, <2>4
  <1>3. ASSUME NEW r \in Runs, NEW e \in EventIds, Starts(r, e)
        PROVE  AtWork' /\ SlotsKept'
    <2>1. run'[r].pc = "load" /\ \A s \in Runs : s # r => run'[s] = run[s]
      BY <1>1, <1>3, StartsRun
    <2>2. "load" \notin InActivity /\ InSlot \subseteq InActivity
      BY DEF InActivity, InSlot
    <2>3. AtWork'
      BY <2>1, <2>2 DEF SlotInv, AtWork
    <2>4. \A s \in Runs : run'[s].pc \in InSlot =>
            run[s].pc \in InSlot /\ run'[s].worker = run[s].worker /\ run'[s].ev = run[s].ev
      BY <2>1, <2>2
    <2> QED
      BY <2>3, <2>4, SlotsFreed DEF SlotInv
  <1>4. ASSUME UNCHANGED run
        PROVE  AtWork' /\ SlotsKept'
    BY <1>4, SlotsFreed DEF SlotInv, AtWork
  <1> QED
    BY <1>1, <1>2, <1>3, <1>4, StepCases DEF SlotInv, RowsKept

\* ConnectionSemaphores (delivery.go:46-66), for any number of runs, losses
\* and timeouts: a worker never has more than Limit deliveries to a connection
\* in a slot, so one worker keeps the limit that the README states.
THEOREM LimitPerWorker == Spec => []SlotsKept
  <1>1. SlotInv => SlotsKept
    BY DEF SlotInv
  <1> QED
    BY <1>1, SlotInit, SlotStep, PTL DEF Spec

\* With one worker process, the limit of a connection is kept (README "max
\* concurrent deliveries per connection"); the semaphores are its memory.
THEOREM LimitOfOneWorker ==
    ASSUME \A v, w \in Workers : v = w
    PROVE  Spec => []PerConnectionLimit
  <1>1. ASSUME SlotInv, NEW c \in Conns
        PROVE  Cardinality({r \in Runs : run[r].pc \in InSlot /\ EventConn(run[r].ev) = c}) <= Limit
    <2> DEFINE F == {r \in Runs : run[r].pc \in InSlot /\ EventConn(run[r].ev) = c}
    <2>1. CASE F = {}
      <3>1. Cardinality(F) = 0
        BY <2>1, FS_EmptySet
      <3> QED
        BY <3>1, LimitAssumption
    <2>2. CASE F # {}
      <3>1. PICK s \in F : TRUE
        BY <2>2
      <3>2. \A r \in F : run[r].worker \in Workers /\ run[r].worker = run[s].worker
        BY <1>1 DEF SlotInv, AtWork, InActivity
      <3>3. F = Holders(run[s].worker, c) /\ run[s].worker \in Workers
        BY <3>2 DEF Holders
      <3> HIDE DEF F
      <3>4. Cardinality(F) <= Limit
        BY <1>1, <3>3 DEF SlotInv, SlotsKept
      <3> QED
        BY <3>4 DEF F
    <2> QED
      BY <2>1, <2>2
  <1>2. SlotInv => PerConnectionLimit
    BY <1>1 DEF PerConnectionLimit
  <1> QED
    BY <1>2, SlotInit, SlotStep, PTL DEF Spec

-----------------------------------------------------------------------------
(* What an event with one run comes to, and what the tables show of it *)

\* No replay of e has been started.
Sole(e) == \A r \in Replays : run[r].pc # "idle" => run[r].ev # e

NeverLost == \A r \in Runs : ~ run[r].lost

Recorded(e) == \E n \in Attempts : delivery[e][n] = "delivered"

\* No row has the number of an attempt that is still to be made.
FreshFrom(e, n) == \A i \in Attempts : i >= n => delivery[e][i] = "none"

Untouched(e) == lastOutcome[e] = "none" /\ issue[e].status = "none" /\ FreshFrom(e, 1)

\* How an attempt ended is where the run, the issue and the deliveries meet.
Told(e) ==
    /\ run[e].pc \notin {"idle", "done"} => issue[e].status # "resolved"
    /\ run[e].pc = "load" => FreshFrom(e, 1)
    /\ run[e].pc \in {"deliver", "wait", "post", "record"} => FreshFrom(e, run[e].n)
    /\ run[e].pc = "record" => lastOutcome[e] = IF run[e].ok THEN "accepted" ELSE "failed"
    /\ run[e].pc \in {"note", "sleep"} => FreshFrom(e, run[e].n + 1)
    /\ run[e].pc \in {"note", "sleep", "exhausted"} => lastOutcome[e] = "failed"
    /\ run[e].pc = "delivered" => lastOutcome[e] = "accepted" /\ Recorded(e)
    /\ run[e].pc = "done" =>
         \/ lastOutcome[e] = "accepted" /\ issue[e].status # "open" /\ Recorded(e)
         \/ lastOutcome[e] = "failed" /\ issue[e].status = "open"
    /\ run[e].pc # "failed"

Story(e) == (run[e].pc = "idle" => Untouched(e)) /\ (e \in live => Told(e))

StoryInv == Inv /\ OwnRun /\ NeverLost /\ \A e \in EventIds : Sole(e) => Story(e)

\* No statement fails and no activity is lost.
Calm == "dbError" \notin Disturbances /\ "activityLost" \notin Disturbances

\* No event has a story.
LEMMA StoryInit == Init => StoryInv
  <1> SUFFICES ASSUME Init PROVE StoryInv
    OBVIOUS
  <1>1. \A r \in Runs : run[r].pc = "idle" /\ ~ run[r].lost
    BY DEF Init, TemporalInit, Idle, RunAt
  <1>2. OwnRun /\ NeverLost
    BY <1>1 DEF OwnRun, NeverLost, Runs
  <1>3. ASSUME NEW e \in EventIds
        PROVE  Story(e)
    <2>1. Untouched(e)
      BY DEF Init, StoreInit, DeliveryInit, Untouched, FreshFrom, NoIssue, NoDeliveries
    <2> QED
      BY <2>1 DEF Init, StoreInit, Story
  <1> QED
    BY <1>2, <1>3, InitInv DEF StoryInv

\* A step that leaves the run and the rows of e alone leaves its story.
LEMMA StoryKept ==
    ASSUME NEW e \in EventIds, Story(e), run'[e] = run[e], issue'[e] = issue[e],
           delivery'[e] = delivery[e], lastOutcome'[e] = lastOutcome[e],
           e \in live' => e \in live \/ run[e].pc = "idle"
    PROVE  Story(e)'
  <1>1. Untouched(e) => Untouched(e)'
    BY DEF Untouched, FreshFrom
  <1>2. Told(e) => Told(e)'
    BY DEF Told, FreshFrom, Recorded
  <1>3. run'[e].pc = "idle" => Told(e)'
    BY DEF Told
  <1> QED
    BY <1>1, <1>2, <1>3 DEF Story

\* A run writes nothing about other events.
LEMMA ActsElsewhere ==
    ASSUME TypeOK, NEW r \in Runs, RunActs(r), NEW e \in EventIds, e # run[r].ev
    PROVE  /\ issue'[e] = issue[e] /\ delivery'[e] = delivery[e]
           /\ lastOutcome'[e] = lastOutcome[e] /\ live' = live
  <1>1. issue \in [EventIds -> Issue] /\ lastOutcome \in [EventIds -> {"none", "accepted", "failed"}]
        /\ delivery \in [EventIds -> [Attempts -> {"none", "delivered", "failed"}]]
    BY DEF TypeOK, StoreTypeOK
  <1>2. ASSUME UNCHANGED <<storeVars, destVars>>
        PROVE  /\ issue'[e] = issue[e] /\ delivery'[e] = delivery[e]
               /\ lastOutcome'[e] = lastOutcome[e] /\ live' = live
    BY <1>2 DEF storeVars, destVars
  <1>3. CASE LoadEventMeta(r) \/ (\E w \in Workers : DeliverActivity(r, w)) \/ Wake(r) \/ Acquire(r)
             \/ ActivityTimeout(r)
    BY <1>2, <1>3 DEF LoadEventMeta, DeliverActivity, Wake, Acquire, ActivityTimeout
  <1>4. CASE BadRequest(r) \/ PostAccepted(r) \/ PostFailed(r)
    BY <1>1, <1>4 DEF BadRequest, PostAccepted, PostFailed, SawFailure, Saw, storeVars
  <1>5. CASE RecordDelivery(r)
    BY <1>1, <1>5 DEF RecordDelivery, InsertDelivery, storeVars, destVars
  <1>6. CASE NoteOpenIssue(r) \/ RecordIssue(r)
    BY <1>1, <1>6 DEF NoteOpenIssue, RecordIssue, UpsertIssue, storeVars, destVars
  <1>7. CASE RecordDelivered(r)
    BY <1>1, <1>7 DEF RecordDelivered, ResolveIssueByEventID, storeVars, destVars
  <1>8. CASE ActivityLost(r)
    BY <1>1, <1>8 DEF ActivityLost, UpsertIssue, ResolveIssueByEventID, storeVars, destVars
  <1> QED
    BY <1>3, <1>4, <1>5, <1>6, <1>7, <1>8 DEF RunActs

\* The attempts of the only run of e, without disturbance.  First the steps
\* that write no row.
LEMMA StoryQuiet ==
    ASSUME Calm, Inv, OwnRun, NeverLost, NEW e \in EventIds, Told(e), e \in live, run[e].ev = e,
           \/ LoadEventMeta(e) \/ (\E w \in Workers : DeliverActivity(e, w)) \/ Wake(e) \/ Acquire(e)
           \/ BadRequest(e) \/ PostAccepted(e) \/ PostFailed(e)
    PROVE  Told(e)'
  <1>0. e \in Runs /\ run[e] \in Run /\ TypeOK /\ ~ MayErr(e) /\ ~ run[e].lost
    BY DEF Runs, Inv, TypeOK, Calm, NeverLost, MayErr
  <1>1. UNCHANGED <<issue, delivery>>
    BY DEF LoadEventMeta, DeliverActivity, Wake, Acquire, BadRequest, PostAccepted, PostFailed,
           storeVars
  <1>2. ASSUME NEW x, run' = [run EXCEPT ![e] = x] PROVE run'[e] = x
    BY <1>0, <1>2 DEF TypeOK
  <1>3. CASE LoadEventMeta(e)
    <2> DEFINE max == retryAttempts[EventConn(run[e].ev)]
    <2>1. run'[e] = [run[e] EXCEPT !.pc = "deliver", !.n = 1, !.max = max]
      BY <1>0, <1>2, <1>3 DEF LoadEventMeta, Become
    <2> HIDE DEF max
    <2>2. run'[e].pc = "deliver" /\ run'[e].n = 1 /\ run[e].pc = "load"
      BY <1>0, <1>3, <2>1 DEF Run, LoadEventMeta
    <2> QED
      BY <1>1, <2>2 DEF Told, FreshFrom
  <1>4. ASSUME NEW w \in Workers, DeliverActivity(e, w)
        PROVE  Told(e)'
    <2>1. run'[e] = [run[e] EXCEPT !.pc = "wait", !.worker = w]
      BY <1>0, <1>2, <1>4 DEF DeliverActivity, Become
    <2>2. run'[e].pc = "wait" /\ run'[e].n = run[e].n /\ run[e].pc = "deliver"
      BY <1>0, <1>4, <2>1 DEF Run, DeliverActivity
    <2> QED
      BY <1>1, <2>2 DEF Told, FreshFrom
  <1>5. CASE Wake(e)
    <2>1. run'[e] = [run[e] EXCEPT !.pc = "deliver", !.n = @ + 1]
      BY <1>2, <1>5 DEF Wake, Become
    <2>2. run'[e].pc = "deliver" /\ run'[e].n = run[e].n + 1 /\ run[e].pc = "sleep"
      BY <1>0, <1>5, <2>1 DEF Run, Wake
    <2> QED
      BY <1>1, <2>2 DEF Told, FreshFrom
  <1>6. CASE Acquire(e)
    <2>1. SameBut(run[e], run[e]', "post") /\ run[e].pc = "wait"
      BY <1>0, <1>6, MoveRun DEF Acquire, PCs, InActivity, InSlot
    <2> QED
      BY <1>1, <2>1 DEF Told, FreshFrom, SameBut
  <1>7. CASE BadRequest(e)
    <2> DEFINE pc == AfterAttempt(e, FALSE)
    <2>1. pc \in {"sleep", "exhausted"} /\ pc \in PCs
      BY <1>0, AfterAttemptGoes DEF AfterAttempt
    <2>2. Move(e, pc) /\ run[e].pc = "post"
      BY <1>7 DEF BadRequest
    <2> HIDE DEF pc
    <2>3. SameBut(run[e], run[e]', pc)
      BY <1>0, <2>1, <2>2, MoveRun
    <2>4. lastOutcome'[e] = "failed"
      BY <1>0, <1>7 DEF BadRequest, SawFailure, Saw, TypeOK
    <2>5. run[e].n \in Int
      BY <1>0 DEF Run
    <2> QED
      BY <1>1, <2>1, <2>2, <2>3, <2>4, <2>5 DEF Told, FreshFrom, SameBut, Attempts
  <1>8. CASE PostAccepted(e) \/ PostFailed(e)
    <2>1. PICK b \in BOOLEAN :
            /\ run' = [run EXCEPT ![e] = [run[e] EXCEPT !.pc = "record", !.ok = b]]
            /\ lastOutcome'[e] = IF b THEN "accepted" ELSE "failed"
      BY <1>0, <1>8 DEF PostAccepted, PostFailed, Become, SawFailure, Saw, TypeOK
    <2>2. run'[e] = [run[e] EXCEPT !.pc = "record", !.ok = b]
      BY <1>2, <2>1
    <2>3. run'[e].pc = "record" /\ run'[e].ok = b /\ run'[e].n = run[e].n
      BY <1>0, <2>2 DEF Run
    <2>4. run[e].pc = "post"
      BY <1>8 DEF PostAccepted, PostFailed
    <2> QED
      BY <1>1, <2>1, <2>3, <2>4 DEF Told, FreshFrom
  <1> QED
    BY <1>3, <1>4, <1>5, <1>6, <1>7, <1>8

\* Then the steps that write one.
LEMMA StoryWrites ==
    ASSUME Calm, Inv, OwnRun, NeverLost, NEW e \in EventIds, Told(e), e \in live, run[e].ev = e,
           RecordDelivery(e) \/ NoteOpenIssue(e) \/ RecordDelivered(e) \/ RecordIssue(e)
    PROVE  Told(e)'
  <1>0. e \in Runs /\ run[e] \in Run /\ TypeOK /\ ~ MayErr(e) /\ ~ run[e].lost
    BY DEF Runs, Inv, TypeOK, Calm, NeverLost, MayErr
  <1>a. run[e].n \in Int
    BY <1>0 DEF Run
  <1>b. UNCHANGED lastOutcome
    BY DEF RecordDelivery, NoteOpenIssue, RecordDelivered, RecordIssue, destVars
  <1>1. UNCHANGED lastOutcome /\ run[e].n \in Int
    BY <1>a, <1>b
  <1>2. CASE RecordDelivery(e)
    <2>1. /\ run[e].pc = "record" /\ run[e].n \in Attempts
      BY <1>0, <1>2 DEF RecordDelivery, Inv, RunInv, RunOK, Run, Attempts, Ended
    <2> DEFINE status == IF run[e].ok THEN "delivered" ELSE "failed"
    <2>2. delivery[e][run[e].n] = "none" /\ FreshFrom(e, run[e].n)
      BY <1>1, <2>1 DEF Told, FreshFrom
    <2>3. delivery' = [delivery EXCEPT ![e][run[e].n] = status] /\ UNCHANGED issue
      BY <1>0, <1>2, <2>2 DEF RecordDelivery, InsertDelivery
    <2>4. \A i \in Attempts : delivery'[e][i] = IF i = run[e].n THEN status ELSE delivery[e][i]
      BY <1>0, <2>3 DEF TypeOK, StoreTypeOK
    <2>5. CASE run[e].ok
      <3>1. AfterAttempt(e, TRUE) = "delivered" /\ "delivered" \in PCs
        BY <1>0 DEF AfterAttempt, PCs, Scheduled
      <3>2. Move(e, "delivered")
        BY <1>2, <2>5, <3>1 DEF RecordDelivery
      <3>3. SameBut(run[e], run[e]', "delivered")
        BY <1>0, <3>1, <3>2, MoveRun
      <3>4. Recorded(e)'
        BY <2>1, <2>4, <2>5 DEF Recorded
      <3> QED
        BY <1>1, <2>1, <2>3, <2>5, <3>3, <3>4 DEF Told, SameBut
    <2>6. CASE ~ run[e].ok
      <3>1. "note" \in PCs /\ Move(e, "note")
        BY <1>2, <2>6 DEF RecordDelivery, PCs, InActivity, InSlot
      <3>2. SameBut(run[e], run[e]', "note")
        BY <1>0, <3>1, MoveRun
      <3>3. FreshFrom(e, run[e].n + 1)'
        BY <1>1, <2>2, <2>4, <3>2 DEF FreshFrom, SameBut, Attempts
      <3> QED
        BY <1>1, <2>1, <2>3, <2>6, <3>2, <3>3 DEF Told, SameBut
    <2> QED
      BY <2>5, <2>6
  <1>3. ASSUME NEW n, NEW why, UpsertIssue(e, n, why)
        PROVE  issue'[e].status = "open" /\ UNCHANGED delivery
    <2>1. UpsertedIssue(e, n, why).status = "open"
      BY DEF UpsertedIssue
    <2> QED
      BY <1>0, <1>3, <2>1 DEF UpsertIssue, TypeOK, StoreTypeOK
  <1>4. CASE NoteOpenIssue(e)
    <2> DEFINE pc == AfterAttempt(e, FALSE)
    <2>1. pc \in {"sleep", "exhausted"} /\ pc \in PCs
      BY <1>0, AfterAttemptGoes DEF AfterAttempt
    <2>2. Move(e, pc) /\ run[e].pc = "note" /\ UpsertIssue(e, run[e].n, "specific")
      BY <1>0, <1>4 DEF NoteOpenIssue
    <2> HIDE DEF pc
    <2>3. SameBut(run[e], run[e]', pc)
      BY <1>0, <2>1, <2>2, MoveRun
    <2>4. issue'[e].status = "open" /\ UNCHANGED delivery
      BY <1>3, <2>2
    <2> QED
      BY <1>1, <2>1, <2>2, <2>3, <2>4 DEF Told, FreshFrom, SameBut
  <1>5. CASE RecordDelivered(e)
    <2>1. Move(e, "done") /\ run[e].pc = "delivered" /\ ResolveIssueByEventID(e)
      BY <1>0, <1>5 DEF RecordDelivered
    <2>2. SameBut(run[e], run[e]', "done")
      BY <1>0, <2>1, MoveRun DEF PCs, Ended
    <2>3. issue'[e].status # "open" /\ UNCHANGED delivery
      <3>1. issue[e] \in Issue /\ [issue[e] EXCEPT !.status = "resolved"].status = "resolved"
        BY <1>0 DEF TypeOK, StoreTypeOK, Issue
      <3> QED
        BY <1>0, <2>1, <3>1 DEF ResolveIssueByEventID, TypeOK, StoreTypeOK
    <2> QED
      BY <1>1, <2>1, <2>2, <2>3 DEF Told, Recorded, SameBut
  <1>6. CASE RecordIssue(e)
    <2>1. Move(e, "done") /\ run[e].pc = "exhausted" /\ UpsertIssue(e, run[e].max, "exhausted")
      BY <1>0, <1>6 DEF RecordIssue
    <2>2. SameBut(run[e], run[e]', "done")
      BY <1>0, <2>1, MoveRun DEF PCs, Ended
    <2>3. issue'[e].status = "open"
      BY <1>3, <2>1
    <2> QED
      BY <1>1, <2>1, <2>2, <2>3 DEF Told, SameBut
  <1> QED
    BY <1>2, <1>4, <1>5, <1>6

\* Each step leaves the story of the event true.
LEMMA StoryStep ==
    ASSUME Calm
    PROVE  StoryInv /\ [Next]_vars => StoryInv'
  <1> SUFFICES ASSUME StoryInv, [Next]_vars PROVE StoryInv'
    OBVIOUS
  <1>1. Inv /\ Inv' /\ TypeOK /\ TypeOK' /\ OwnRun /\ NeverLost
    BY InvStep DEF StoryInv, Inv
  <1>2. EventIds \subseteq Runs /\ Replays \subseteq Runs
    BY DEF Runs
  <1>3. ASSUME NEW r \in Runs, RunActs(r)
        PROVE  StoryInv'
    <2>1. Moved(r) /\ \A s \in Runs : s # r => run'[s] = run[s]
      BY <1>1, <1>3, ActsMove DEF Moved, OnlyRun
    <2>2. OwnRun'
      BY <1>1, <1>2, <2>1 DEF Moved, OwnRun
    <2>3. NeverLost'
      BY <1>1, <2>1 DEF Moved, NeverLost, Calm
    <2>4. ASSUME NEW e \in EventIds, Sole(e)'
          PROVE  Story(e)'
      <3>1. Sole(e) /\ Story(e)
        BY <1>2, <2>1, <2>4 DEF Moved, Sole, StoryInv
      <3>2. CASE run[r].ev # e
        <4>1. r # e
          BY <1>1, <2>1, <3>2 DEF Moved, OwnRun
        <4>2. /\ issue'[e] = issue[e] /\ delivery'[e] = delivery[e]
              /\ lastOutcome'[e] = lastOutcome[e] /\ live' = live
          BY <1>1, <1>3, <3>2, ActsElsewhere
        <4> QED
          BY <1>2, <2>1, <3>1, <4>1, <4>2, StoryKept
      <3>3. CASE run[r].ev = e
        <4>1. r = e
          BY <1>1, <2>1, <3>1, <3>3 DEF Moved, OwnRun, Sole, Runs
        <4>2. run'[e].pc # "idle" /\ live' = live
          BY <1>3, <2>1, <4>1
             DEF Moved, RunActs, LoadEventMeta, DeliverActivity, Wake, Acquire, BadRequest,
                 PostAccepted, PostFailed, RecordDelivery, NoteOpenIssue, RecordDelivered,
                 RecordIssue, ActivityLost, ActivityTimeout, InsertDelivery, UpsertIssue,
                 ResolveIssueByEventID, storeVars
        <4>3. CASE e \in live
          <5>1. Told(e)
            BY <3>1, <4>3 DEF Story
          <5>2. ~ ActivityLost(e) /\ ~ ActivityTimeout(e)
            BY DEF Calm, ActivityLost, ActivityTimeout
          <5>3. Told(e)'
            BY <1>1, <1>3, <3>3, <4>1, <4>3, <5>1, <5>2, StoryQuiet, StoryWrites DEF RunActs
          <5> QED
            BY <4>2, <5>3 DEF Story
        <4>4. CASE e \notin live
          BY <4>2, <4>4 DEF Story
        <4> QED
          BY <4>3, <4>4
      <3> QED
        BY <3>2, <3>3
    <2> QED
      BY <1>1, <2>2, <2>3, <2>4 DEF StoryInv
  <1>4. ASSUME NEW r \in Runs, NEW f \in EventIds, Starts(r, f)
        PROVE  StoryInv'
    <2>1. /\ run[r].pc = "idle" /\ run'[r].pc = "load" /\ run'[r].ev = f /\ ~ run'[r].lost
          /\ \A s \in Runs : s # r => run'[s] = run[s]
      BY <1>1, <1>4, StartsRun
    <2>2. (r \in EventIds => r = f) /\ UNCHANGED <<live, issue, delivery, lastOutcome>>
      BY <1>4 DEF Starts, storeVars, destVars
    <2>3. OwnRun' /\ NeverLost'
      BY <1>1, <1>2, <2>1, <2>2 DEF OwnRun, NeverLost
    <2>4. ASSUME NEW e \in EventIds, Sole(e)'
          PROVE  Story(e)'
      <3>1. Sole(e) /\ Story(e)
        BY <1>2, <2>1, <2>4 DEF Sole, StoryInv
      <3>2. CASE r # e
        BY <1>2, <2>1, <2>2, <3>1, <3>2, StoryKept
      <3>3. CASE r = e
        <4>1. Untouched(e)
          BY <2>1, <3>1, <3>3 DEF Story
        <4> QED
          BY <2>1, <2>2, <3>3, <4>1 DEF Story, Told, Untouched, FreshFrom
      <3> QED
        BY <3>2, <3>3
    <2> QED
      BY <1>1, <2>3, <2>4 DEF StoryInv
  <1>5. ASSUME RowsKept
        PROVE  StoryInv'
    <2>1. UNCHANGED <<run, lastOutcome>>
      BY <1>5 DEF RowsKept, destVars
    <2>2. OwnRun' /\ NeverLost'
      BY <1>1, <2>1 DEF OwnRun, NeverLost
    <2>3. ASSUME NEW e \in EventIds, Sole(e)'
          PROVE  Story(e)'
      <3>1. Sole(e) /\ Story(e)
        BY <2>1, <2>3 DEF Sole, StoryInv
      <3>2. CASE issue'[e] = issue[e] /\ delivery'[e] = delivery[e]
        <4>1. e \in live' => e \in live \/ run[e].pc = "idle"
          BY <1>1, <1>2, <1>5 DEF RowsKept, Inv, RunInv, RunOK, OwnRun
        <4> QED
          BY <2>1, <3>1, <3>2, <4>1, StoryKept
      <3>3. CASE e \notin live' /\ issue'[e] = NoIssue /\ delivery'[e] = NoDeliveries
        BY <2>1, <3>1, <3>3 DEF Story, Untouched, FreshFrom, NoIssue, NoDeliveries
      <3> QED
        BY <1>5, <3>2, <3>3 DEF RowsKept
    <2> QED
      BY <1>1, <2>2, <2>3 DEF StoryInv
  <1> QED
    BY <1>1, <1>3, <1>4, <1>5, StepCases

\* What the tables show of an event none of whose runs is active.
LEMMA StoryEnds ==
    ASSUME StoryInv, NEW e \in live, Sole(e), Quiet(e)
    PROVE  /\ issue[e].status = "open" <=> lastOutcome[e] = "failed"
           /\ lastOutcome[e] = "accepted" => Recorded(e)
  <1>1. e \in EventIds /\ e \in Runs
    BY DEF StoryInv, Inv, TypeOK, StoreTypeOK, Runs
  <1>2. Story(e) /\ (run[e].pc = "idle" \/ run[e].pc = "done" \/ run[e].pc = "failed")
    BY <1>1 DEF StoryInv, OwnRun, Quiet, Ended
  <1> QED
    BY <1>2 DEF Story, Told, Untouched

\* As long as no replay of an event has been started, no statement fails and
\* no activity is lost, and whatever is purged, patched, refused or sent
\* twice: once its run has ended, the issue of the event is open if and only if
\* its last attempt failed, and an accepted attempt has its row
\* (delivery.go:93-108, 199, 231-260).
THEOREM OutcomeIsShown ==
    ASSUME Calm
    PROVE  Spec => []\A e \in live : Sole(e) /\ Quiet(e) =>
                        /\ issue[e].status = "open" <=> lastOutcome[e] = "failed"
                        /\ lastOutcome[e] = "accepted" => Recorded(e)
  <1>1. StoryInv => \A e \in live : Sole(e) /\ Quiet(e) =>
                        /\ issue[e].status = "open" <=> lastOutcome[e] = "failed"
                        /\ lastOutcome[e] = "accepted" => Recorded(e)
    BY StoryEnds
  <1> QED
    BY <1>1, StoryInit, StoryStep, PTL DEF Spec

\* Without replays, and without failing statements and lost activities, the
\* list of open issues is the list of events whose last attempt failed
\* (delivery.go:231-260).
THEOREM IssuesFollowAttempts ==
    ASSUME Calm, Replays = {}
    PROVE  Spec => []IssueReflectsLastAttempt
  <1>1. StoryInv => IssueReflectsLastAttempt
    BY StoryEnds DEF IssueReflectsLastAttempt, Sole
  <1> QED
    BY <1>1, StoryInit, StoryStep, PTL DEF Spec

\* Under the same conditions every accepted event has its row in the delivery
\* history: attempt numbers do not meet (delivery.go:199, store.go:308-313).
THEOREM AcceptedIsRecorded ==
    ASSUME Calm, Replays = {}
    PROVE  Spec => []DeliveryIsRecorded
  <1>1. StoryInv => DeliveryIsRecorded
    BY StoryEnds DEF DeliveryIsRecorded, Sole, Recorded
  <1> QED
    BY <1>1, StoryInit, StoryStep, PTL DEF Spec

=============================================================================
