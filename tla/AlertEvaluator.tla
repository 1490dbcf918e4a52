--------------------------- MODULE AlertEvaluator ---------------------------
(***************************************************************************)
(* internal/alerting/evaluator.go on any number of workers: the advisory   *)
(* lock that lets one worker evaluate, the passes of evaluateOnce over a   *)
(* snapshot of the rules, the send and the latch (firing_threshold) that   *)
(* makes a rule fire once per breach; with the rule handlers of AlertRules *)
(* running beside it.                                                      *)
(*                                                                         *)
(* ev[w] is the evaluator goroutine of worker w and its local variables:   *)
(*   pc    out: waiting for the advisory lock; list, measure: the reads of *)
(*         a pass; loop: between two rules; send, clear, insert, latch: the*)
(*         steps of a breach; failed: the message was delivered, and Send  *)
(*         is about to report an error; tick: waiting for the ticker       *)
(*   cur   the rule in the breach branch                                   *)
(*   snap  its copy of the rows; seen: its copy of the metrics             *)
(*   todo  the rules left in the pass, which are visited in any order      *)
(***************************************************************************)
EXTENDS AlertRules

CONSTANTS
    Workers,
    RuleTypes,      \* the rule types in use
    Levels,         \* values a metric can take
    NoSamples,
    MaxFaults,      \* bound: worker crashes and broken sessions
    Disturbances

ASSUME EvaluatorAssumption ==
    /\ RuleTypes \subseteq {"OPEN_ISSUES", "DELIVERY_SUCCESS", "UNRESOLVED_TIME"}
    /\ Levels \subseteq Nat /\ Levels # {}
    /\ Nobody \notin Workers
    /\ MaxFaults \in Nat
    /\ Disturbances \subseteq {"dbError", "sendFails", "lockLost"}

VARIABLES
    ruleType,       \* rule_type of each rule, which no PATCH changes
    metric,         \* the value now measured for each rule
    advisory,       \* the worker whose session holds the advisory lock
    faults,         \* worker crashes and broken sessions so far
    ev,
    notifications,  \* table alert_notifications: (rule, threshold)
    sent,           \* history: (rule, threshold) of the messages sent
    lastSent,       \* history: threshold of the last message since recovery,
                    \* unless a crash or an error has kept it from the latch
    repeated        \* history: rules that sent twice in one breach

world == <<ruleType, metric, advisory, faults>>
messages == <<notifications, sent, lastSent, repeated>>
vars == <<ruleVars, world, ev, messages>>

Values(r) == IF ruleType[r] = "DELIVERY_SUCCESS" THEN Levels \cup {NoSamples}
             ELSE Levels

Outside == [pc |-> "out", cur |-> Nobody, todo |-> {},
            snap |-> [r \in Rules |-> Blank],
            seen |-> [r \in Rules |-> CHOOSE v \in Levels : TRUE]]

Places == {"out", "list", "measure", "loop", "send", "failed", "clear", "insert",
           "latch", "tick"}

Evaluator == [pc: Places, cur: Rules \cup {Nobody}, todo: SUBSET Rules,
              snap: [Rules -> Row], seen: [Rules -> Levels \cup {NoSamples}]]

\* Every variable keeps its type; firing_threshold is a threshold.
TypeOK ==
    /\ RulesTypeOK
    /\ ruleType \in [Rules -> RuleTypes]
    /\ metric \in [Rules -> Levels \cup {NoSamples}]
    /\ \A r \in Rules : metric[r] \in Values(r)
    /\ advisory \in Workers \cup {Nobody}
    /\ faults \in 0..MaxFaults
    /\ ev \in [Workers -> Evaluator]
    /\ notifications \cup sent \subseteq Rules \X Thresholds
    /\ lastSent \in [Rules -> Thresholds \cup {Nobody}]
    /\ repeated \subseteq Rules

Init ==
    /\ RulesInit
    /\ ruleType \in [Rules -> RuleTypes]
    /\ metric \in {f \in [Rules -> Levels \cup {NoSamples}] :
                     \A r \in Rules : f[r] \in Values(r)}
    /\ advisory = Nobody
    /\ faults = 0
    /\ ev = [w \in Workers |-> Outside]
    /\ notifications = {} /\ sent = {} /\ repeated = {}
    /\ lastSent = [r \in Rules |-> Nobody]

Go(w, pc) == ev' = [ev EXCEPT ![w].pc = pc]

\* evaluateOnce returns: its local variables are gone.
Return(w, pc) == ev' = [ev EXCEPT ![w] = [Outside EXCEPT !.pc = pc]]

MayErr == "dbError" \in Disturbances

Forget(r) == lastSent' = [lastSent EXCEPT ![r] = Nobody]

\* An UPDATE alert_rules of the evaluator.  A deleted rule is not found.
UpdateRow(r, new) ==
    /\ tableLock = Nobody
    /\ row' = IF r \in present THEN [row EXCEPT ![r] = new] ELSE row
    /\ UNCHANGED <<present, drawn, tableLock, client>>

\* Any error is only logged.
Update(r, new) == UpdateRow(r, new) \/ (MayErr /\ UNCHANGED ruleVars)

-----------------------------------------------------------------------------
(* Run and holdEvaluation *)

Hold(w) ==
    /\ ev[w].pc = "out"
    /\ advisory' = w
    /\ Go(w, "list")
    /\ UNCHANGED <<ruleVars, ruleType, metric, faults, messages>>

HoldAlways(w) == Hold(w)    \* mutant: the answer of the lock is not looked at

\* pg_try_advisory_lock; a worker that does not get it tries again later.
HoldEvaluation(w) == advisory = Nobody /\ Hold(w)

Tick(w) ==
    /\ ev[w].pc = "tick"
    /\ Go(w, "list")
    /\ UNCHANGED <<ruleVars, world, messages>>

-----------------------------------------------------------------------------
(* evaluateOnce *)

ListAlertRules(w) ==
    /\ ev[w].pc = "list"
    /\ \/ ev' = [ev EXCEPT ![w].pc = "measure", ![w].snap = row, ![w].todo = present]
       \/ MayErr /\ Return(w, "tick")
    /\ UNCHANGED <<ruleVars, world, messages>>

\* The metrics of a pass: what the rules on unresolved time need is not among
\* them.
PlatformMetrics ==
    [r \in Rules |-> IF ruleType[r] = "UNRESOLVED_TIME" THEN Outside.seen[r] ELSE metric[r]]

GetPlatformMetrics(w) ==
    /\ ev[w].pc = "measure"
    /\ \/ ev' = [ev EXCEPT ![w].pc = "loop", ![w].seen = PlatformMetrics]
       \/ MayErr /\ Return(w, "tick")
    /\ UNCHANGED <<ruleVars, world, messages>>

\* UNRESOLVED_TIME asks the database again, the others use the pass's copy.
currentValue(w, r) ==
    IF ruleType[r] = "UNRESOLVED_TIME" THEN metric[r] ELSE ev[w].seen[r]

isBreached(r, t, v) ==
    IF ruleType[r] = "DELIVERY_SUCCESS" THEN v < t ELSE v > t

Visits(w, r) == ev[w].pc = "loop" /\ r \in ev[w].todo

\* mutant: a rule without samples counts as back to normal
RecoveredUnmeasured(w, r) ==
    \/ ~ ev[w].snap[r].active
    \/ currentValue(w, r) # NoSamples
       => ~ isBreached(r, ev[w].snap[r].threshold, currentValue(w, r))

Recovered(w, r) ==
    \/ ~ ev[w].snap[r].active
    \/ /\ currentValue(w, r) # NoSamples
       /\ ~ isBreached(r, ev[w].snap[r].threshold, currentValue(w, r))

LatchedNever(w, r) == FALSE     \* mutant: the latch is not looked at

\* sameThreshold of the latch and the rule.
Latched(w, r) == ev[w].snap[r].firing = ev[w].snap[r].threshold

\* The rule is inactive or its metric is back to normal: clearFiring.
ClearFiring(w, r) ==
    /\ Visits(w, r)
    /\ Recovered(w, r)
    /\ IF ev[w].snap[r].firing # Nobody
       THEN Update(r, [row[r] EXCEPT !.firing = Nobody]) ELSE UNCHANGED ruleVars
    /\ ev' = [ev EXCEPT ![w].todo = @ \ {r}]
    /\ Forget(r)
    /\ UNCHANGED <<world, notifications, sent, repeated>>

\* Nothing to measure, a value that could not be read, or already notified.
Skip(w, r) ==
    /\ Visits(w, r)
    /\ \/ ~ Recovered(w, r) /\ (currentValue(w, r) = NoSamples \/ Latched(w, r))
       \/ MayErr /\ ev[w].snap[r].active /\ ruleType[r] = "UNRESOLVED_TIME"
    /\ ev' = [ev EXCEPT ![w].todo = @ \ {r}]
    /\ UNCHANGED <<ruleVars, world, messages>>

Breach(w, r) ==
    /\ Visits(w, r)
    /\ ~ Recovered(w, r)
    /\ currentValue(w, r) # NoSamples
    /\ ~ Latched(w, r)
    /\ ev' = [ev EXCEPT ![w].pc = "send", ![w].cur = r, ![w].todo = @ \ {r}]
    /\ UNCHANGED <<ruleVars, world, messages>>

EndPass(w) ==
    /\ ev[w].pc = "loop" /\ ev[w].todo = {}
    /\ Return(w, "tick")
    /\ UNCHANGED <<ruleVars, world, messages>>

-----------------------------------------------------------------------------
(* The breach branch *)

Copy(w) == ev[w].snap[ev[w].cur]
Message(w) == <<ev[w].cur, Copy(w).threshold>>

\* The message reaches its recipient.
Deliver(w, pc) ==
    /\ ev[w].pc = "send"
    /\ sent' = sent \cup {Message(w)}
    /\ repeated' = repeated \cup
         {r \in {ev[w].cur} : lastSent[r] = Copy(w).threshold}
    /\ lastSent' = [lastSent EXCEPT ![ev[w].cur] = Copy(w).threshold]
    /\ Go(w, pc)
    /\ UNCHANGED <<ruleVars, world, notifications>>

SendNotification(w) == Deliver(w, "clear")

\* What follows the delivery fails: Quit after the mail was accepted, or a
\* time-out or an unreadable answer after the post.
SendBreaks(w) == "sendFails" \in Disturbances /\ Deliver(w, "failed")

\* Send returns an error.  noteDeliveryError keeps the rule unlatched; the next
\* pass sends again, whether or not the message was delivered.
SendFails(w) ==
    /\ "sendFails" \in Disturbances
    /\ ev[w].pc \in {"send", "failed"}
    /\ IF Copy(w).err THEN UNCHANGED ruleVars
       ELSE Update(ev[w].cur, [row[ev[w].cur] EXCEPT !.err = TRUE])
    /\ IF ev[w].pc = "failed" THEN Forget(ev[w].cur) ELSE UNCHANGED lastSent
    /\ Go(w, "loop")
    /\ UNCHANGED <<world, notifications, sent, repeated>>

ClearDeliveryError(w) ==
    /\ ev[w].pc = "clear"
    /\ IF Copy(w).err THEN Update(ev[w].cur, [row[ev[w].cur] EXCEPT !.err = FALSE])
       ELSE UNCHANGED ruleVars
    /\ Go(w, "insert")
    /\ UNCHANGED <<world, messages>>

\* The foreign key refuses a notification of a deleted rule; the error is
\* logged.
RecordAlertNotification(w) ==
    /\ ev[w].pc = "insert"
    /\ \/ ev[w].cur \in present /\ notifications' = notifications \cup {Message(w)}
       \/ (ev[w].cur \notin present \/ MayErr) /\ UNCHANGED notifications
    /\ Go(w, "latch")
    /\ UNCHANGED <<ruleVars, world, sent, lastSent, repeated>>

Latch(w, t) ==
    /\ ev[w].pc = "latch"
    /\ \/ /\ UpdateRow(ev[w].cur, [row[ev[w].cur] EXCEPT !.firing = t])
          /\ UNCHANGED lastSent
       \/ /\ MayErr
          /\ UNCHANGED ruleVars
          /\ Forget(ev[w].cur)
    /\ Go(w, "loop")
    /\ UNCHANGED <<world, notifications, sent, repeated>>

LatchCurrent(w) == Latch(w, row[ev[w].cur].threshold)       \* mutant: reads again

SetAlertRuleFiring(w) == Latch(w, Copy(w).threshold)

-----------------------------------------------------------------------------
(* The surroundings *)

MetricMoves(r, v) ==
    /\ v \in Values(r) \ {metric[r]}
    /\ metric' = [metric EXCEPT ![r] = v]
    /\ UNCHANGED <<ruleVars, ruleType, advisory, faults, ev, messages>>

Crash(w, holder) ==
    /\ faults < MaxFaults
    /\ ev[w].pc # "out"
    /\ faults' = faults + 1
    /\ advisory' = holder
    /\ IF ev[w].pc \in {"failed", "clear", "insert", "latch"} THEN Forget(ev[w].cur)
       ELSE UNCHANGED lastSent
    /\ Return(w, "out")
    /\ UNCHANGED <<ruleVars, ruleType, metric, notifications, sent, repeated>>

CrashKeepsLock(w) == Crash(w, advisory)     \* mutant: the lock is not a session's

\* The worker process dies and is restarted; its session ends with it.
WorkerCrash(w) == Crash(w, IF advisory = w THEN Nobody ELSE advisory)

\* The session that holds the advisory lock breaks; nothing tells the
\* evaluator, which only uses other connections of the pool.
LockLost ==
    /\ "lockLost" \in Disturbances
    /\ faults < MaxFaults
    /\ faults' = faults + 1
    /\ advisory # Nobody
    /\ advisory' = Nobody
    /\ UNCHANGED <<ruleVars, ruleType, metric, ev, messages>>

\* A rule handler; deleting a rule takes its notifications along.
HandlerStep ==
    /\ RulesNext
    /\ notifications' = {x \in notifications : x[1] \in present'}
    /\ UNCHANGED <<world, ev, sent, lastSent, repeated>>

Evaluate(w) ==
    \/ HoldEvaluation(w) \/ Tick(w)
    \/ ListAlertRules(w) \/ GetPlatformMetrics(w)
    \/ \E r \in Rules : ClearFiring(w, r) \/ Skip(w, r) \/ Breach(w, r)
    \/ EndPass(w)
    \/ SendNotification(w) \/ SendBreaks(w) \/ SendFails(w)
    \/ ClearDeliveryError(w) \/ RecordAlertNotification(w) \/ SetAlertRuleFiring(w)

Next ==
    \/ \E w \in Workers : Evaluate(w) \/ WorkerCrash(w)
    \/ \E r \in Rules, v \in Levels \cup {NoSamples} : MetricMoves(r, v)
    \/ LockLost
    \/ HandlerStep

Spec == Init /\ [][Next]_vars

\* A worker keeps evaluating and a handler finishes.  PostgreSQL grants table
\* locks in the order of the requests, so an UPDATE that waits is not passed
\* over for ever: strong fairness.  Of the mail server and Slack only this is
\* assumed: they do not refuse every message for ever, nor end the delivery of
\* every message in an error.
FairSpec ==
    /\ Spec
    /\ \A w \in Workers :
         /\ WF_vars(Evaluate(w))
         /\ SF_vars(SendNotification(w))
         /\ SF_vars(\/ ev[w].pc = "failed" /\ SendFails(w)
                    \/ ClearDeliveryError(w) \/ SetAlertRuleFiring(w)
                    \/ \E r \in Rules : ClearFiring(w, r))
    /\ \A p \in Clients : WF_vars(HandlerStep /\ client[p].pc # "idle" /\ client'[p].pc # client[p].pc)

-----------------------------------------------------------------------------
\* Two workers never evaluate at once, however they crash and restart, as
\* long as the session that holds the lock lives as long as its worker
\* (store.go:94-116, evaluator.go:73-84).
OneEvaluator ==
    \A w, v \in Workers : ev[w].pc # "out" /\ ev[v].pc # "out" => w = v

\* A rule is latched only for a threshold it has sent a message about, and
\* the notifications on record are messages that were sent
\* (evaluator.go:48-51, 183-214).
LatchWasSent ==
    /\ \A r \in present : row[r].firing # Nobody => <<r, row[r].firing>> \in sent
    /\ notifications \subseteq sent

\* README "a rule fires once per breach, then again only after the metric
\* recovers", TEMPORAL.md "only one worker sends a given alert": between
\* two evaluations that find a rule recovered or inactive, it sends no second
\* message for the threshold it sent last, unless between that message and its
\* latch the worker died, Send reported an error for the message it had
\* delivered, or the UPDATE failed (evaluator.go:183-214).
OncePerBreach == repeated = {}

Breaching(r) ==
    /\ r \in present
    /\ row[r].active
    /\ metric[r] # NoSamples
    /\ isBreached(r, row[r].threshold, metric[r])

\* A breach of one threshold that lasts is notified and latched at last,
\* although sends fail, workers crash, and handlers lock the table
\* (evaluator.go:79-219).
BreachNotified ==
    \A r \in Rules, t \in Thresholds :
        <>[](Breaching(r) /\ row[r].threshold = t) => <>[](row[r].firing = t)

=============================================================================
