------------------------ MODULE AlertEvaluatorProofs ------------------------
(***************************************************************************)
(* The alert evaluator on any number of workers, beside any number of rule *)
(* handlers: what is latched or on record was sent; and, as long as the    *)
(* session of the advisory lock lives as long as its worker, one worker    *)
(* evaluates, a breach is not notified twice, and the evaluators implement *)
(* the abstract Alarm.                                                     *)
(***************************************************************************)
EXTENDS AlertPromise, FiniteSetTheorems, TLAPS

-----------------------------------------------------------------------------
(* The limit of rules: the table lock keeps the count of a create true     *)
(* until its insert                                                        *)

\* Of a handler only its place in the code matters here.
HandlersOK ==
    /\ tableLock \in Clients \cup {Nobody}
    /\ client \in [Clients -> Client]

\* A create that is about to insert has counted, and nothing was inserted
\* since.
CountIsCurrent ==
    /\ IsFiniteSet(present)
    /\ \A p \in Clients :
         client[p].pc = "insert" => Cardinality(present) < MaxAlertRules

LimitInv == HandlersOK /\ LockHasOwner /\ CountIsCurrent /\ RuleLimit

\* The handlers start idle on an empty table.
LEMMA LimitInit == RulesInit => LimitInv
  <1> SUFFICES ASSUME RulesInit PROVE LimitInv
    OBVIOUS
  <1>1. IdleClient \in Client
    BY DEF IdleClient, Client
  <1>2. HandlersOK
    BY <1>1 DEF RulesInit, HandlersOK
  <1>3. LockHasOwner
    BY RulesAssumption DEF RulesInit, LockHasOwner, IdleClient
  <1>4. IsFiniteSet(present) /\ Cardinality(present) = 0
    BY FS_EmptySet DEF RulesInit
  <1>5. CountIsCurrent /\ RuleLimit
    BY <1>4, RulesAssumption DEF RulesInit, CountIsCurrent, RuleLimit, IdleClient
  <1> QED
    BY <1>2, <1>3, <1>5 DEF LimitInv

\* Each step of a handler keeps the limit (store.go:559-591, 612-668).
LEMMA LimitStep == LimitInv /\ [RulesNext]_ruleVars => LimitInv'
  <1> SUFFICES ASSUME LimitInv, [RulesNext]_ruleVars PROVE LimitInv'
    OBVIOUS
  <1> USE DEF LimitInv
  <1>i. IdleClient \in Client /\ IdleClient.pc = "idle"
    BY DEF IdleClient, Client
  <1>f. Cardinality(present) \in Nat
    BY FS_CardinalityType DEF CountIsCurrent
  <1>1. ASSUME NEW p \in Clients, CreateLock(p) PROVE LimitInv'
    <2>1. HandlersOK'
      BY <1>1 DEF CreateLock, HandlersOK, Client
    <2>2. LockHasOwner'
      BY <1>1, RulesAssumption DEF CreateLock, HandlersOK, Client, LockHasOwner
    <2>3. CountIsCurrent' /\ RuleLimit'
      BY <1>1 DEF CreateLock, HandlersOK, Client, CountIsCurrent, RuleLimit
    <2> QED BY <2>1, <2>2, <2>3
  <1>2. ASSUME NEW p \in Clients, CreateCount(p) PROVE LimitInv'
    <2>1. HandlersOK'
      BY <1>2, <1>i DEF CreateCount, HandlersOK, Client
    <2>2. LockHasOwner'
      BY <1>2, <1>i, RulesAssumption DEF CreateCount, HandlersOK, Client, LockHasOwner
    <2>3. CountIsCurrent' /\ RuleLimit'
      BY <1>2, <1>i DEF CreateCount, HandlersOK, Client, CountIsCurrent, RuleLimit
    <2> QED BY <2>1, <2>2, <2>3
  <1>3. ASSUME NEW p \in Clients, CreateInsert(p) PROVE LimitInv'
    <2>1. HandlersOK'
      BY <1>3, <1>i DEF CreateInsert, HandlersOK
    <2>2. LockHasOwner' /\ \A q \in Clients : client'[q].pc # "insert"
      BY <1>3, <1>i, RulesAssumption DEF CreateInsert, HandlersOK, LockHasOwner
    <2>3. PICK r \in Rules \ drawn : present' = present \cup {r}
      BY <1>3 DEF CreateInsert
    <2>4. IsFiniteSet(present') /\ Cardinality(present') <= Cardinality(present) + 1
      <3> HIDE DEF LimitInv
      <3>1. IsFiniteSet(present)
        BY DEF LimitInv, CountIsCurrent
      <3>2. /\ IsFiniteSet(present \cup {r})
            /\ \/ Cardinality(present \cup {r}) = Cardinality(present)
               \/ Cardinality(present \cup {r}) = Cardinality(present) + 1
        BY <3>1, FS_AddElement
      <3> QED BY <2>3, <3>2, <1>f
    <2>5. IsFiniteSet(present') /\ Cardinality(present') \in Nat
      BY <2>4, FS_CardinalityType
    <2>6. Cardinality(present) < MaxAlertRules
      BY <1>3 DEF CreateInsert, CountIsCurrent
    <2>7. RuleLimit'
      BY <2>4, <2>5, <2>6, <1>f, RulesAssumption DEF RuleLimit
    <2> QED BY <2>1, <2>2, <2>5, <2>7 DEF CountIsCurrent
  <1>4. ASSUME NEW p \in Clients, CreateRollback(p) PROVE LimitInv'
    <2>1. HandlersOK'
      BY <1>4, <1>i DEF CreateRollback, HandlersOK
    <2>2. LockHasOwner'
      BY <1>4, <1>i, RulesAssumption DEF CreateRollback, HandlersOK, LockHasOwner
    <2>3. CountIsCurrent' /\ RuleLimit'
      BY <1>4, <1>i DEF CreateRollback, HandlersOK, CountIsCurrent, RuleLimit
    <2> QED BY <2>1, <2>2, <2>3
  <1>5. ASSUME NEW p \in Clients, NEW r \in Rules,
               NEW f \in SUBSET {"active", "threshold"}, PatchRead(p, r, f)
        PROVE LimitInv'
    <2>1. PICK a \in BOOLEAN, t \in Thresholds :
            client' = [client EXCEPT ![p] =
              [pc |-> "patch", rule |-> r, active |-> a, threshold |-> t]]
      BY <1>5 DEF PatchRead
    <2>2. HandlersOK'
      BY <1>5, <2>1 DEF PatchRead, HandlersOK, Client
    <2>3. LockHasOwner'
      BY <1>5, <2>1, RulesAssumption DEF PatchRead, HandlersOK, LockHasOwner
    <2>4. CountIsCurrent' /\ RuleLimit'
      BY <1>5, <2>1 DEF PatchRead, HandlersOK, CountIsCurrent, RuleLimit
    <2> QED BY <2>2, <2>3, <2>4
  <1>6. ASSUME NEW p \in Clients, PatchWrite(p) PROVE LimitInv'
    <2>1. HandlersOK'
      BY <1>6, <1>i DEF PatchWrite, HandlersOK
    <2>2. LockHasOwner'
      BY <1>6, <1>i, RulesAssumption DEF PatchWrite, HandlersOK, LockHasOwner
    <2>3. CountIsCurrent' /\ RuleLimit'
      BY <1>6, <1>i DEF PatchWrite, HandlersOK, CountIsCurrent, RuleLimit
    <2> QED BY <2>1, <2>2, <2>3
  <1>7. ASSUME NEW p \in Clients, NEW r \in Rules, DeleteAlertRule(p, r)
        PROVE LimitInv'
    <2>1. HandlersOK' /\ LockHasOwner'
      BY <1>7 DEF DeleteAlertRule, HandlersOK, LockHasOwner
    <2>2. IsFiniteSet(present') /\ Cardinality(present') <= Cardinality(present)
      BY <1>7, FS_Subset DEF DeleteAlertRule, CountIsCurrent
    <2>3. Cardinality(present') \in Nat
      BY <2>2, FS_CardinalityType
    <2>4. CountIsCurrent' /\ RuleLimit'
      BY <1>7, <1>f, <2>2, <2>3, RulesAssumption
         DEF DeleteAlertRule, CountIsCurrent, RuleLimit
    <2> QED BY <2>1, <2>4
  <1>8. ASSUME UNCHANGED ruleVars PROVE LimitInv'
    BY <1>8 DEF ruleVars, HandlersOK, LockHasOwner, CountIsCurrent, RuleLimit
  <1> QED
    BY <1>1, <1>2, <1>3, <1>4, <1>5, <1>6, <1>7, <1>8 DEF RulesNext

\* The table never holds more rules than the limit, and it is locked only by a
\* create that is inside its transaction, for any number of clients.
THEOREM LimitIsExact == RulesSpec => [](RuleLimit /\ LockHasOwner)
  <1>1. LimitInv => RuleLimit /\ LockHasOwner
    BY DEF LimitInv
  <1> QED
    BY <1>1, LimitInit, LimitStep, PTL DEF RulesSpec

-----------------------------------------------------------------------------
(* Types *)

InBreach(w) == ev[w].pc \in {"send", "failed", "clear", "insert", "latch"}
HasSent(w) == ev[w].pc \in {"failed", "clear", "insert", "latch"}

\* The message of worker w is delivered, whatever Send says of it.
Delivers(w) == Deliver(w, "clear") \/ Deliver(w, "failed")

\* The rules of a pass have ids that were drawn, and the rule in the breach
\* branch is no longer among those left.
PassOK ==
    \A w \in Workers :
        /\ ev[w].todo \subseteq drawn
        /\ InBreach(w) => ev[w].cur \in drawn \ ev[w].todo

\* A PATCH that is about to write has a threshold to write.
PatchOK ==
    \A p \in Clients : client[p].pc = "patch" => client[p].threshold \in Thresholds

TypeInv == TypeOK /\ PassOK /\ PatchOK

\* The rows a handler inserts are rows without a latch.
LEMMA NewRows ==
    /\ Blank \in Row /\ Blank.firing = Nobody
    /\ \A t \in Thresholds : NewRow(t) \in Row /\ NewRow(t).firing = Nobody
<1>1. \A t \in Thresholds : NewRow(t) \in Row /\ NewRow(t).firing = Nobody
    BY DEF NewRow, Row
<1>2. (CHOOSE t \in Thresholds : TRUE) \in Thresholds
    BY RulesAssumption
<1> QED
    BY <1>1, <1>2 DEF Blank

\* What an UPDATE may do to a row.
LEMMA RowWrites ==
    ASSUME NEW x \in Row
    PROVE  /\ \A t \in Thresholds \cup {Nobody} :
                [x EXCEPT !.firing = t] \in Row /\ [x EXCEPT !.firing = t].firing = t
           /\ \A b \in BOOLEAN :
                [x EXCEPT !.err = b] \in Row /\ [x EXCEPT !.err = b].firing = x.firing
           /\ \A b \in BOOLEAN, t \in Thresholds :
                /\ [x EXCEPT !.active = b, !.threshold = t] \in Row
                /\ [x EXCEPT !.active = b, !.threshold = t].firing = x.firing
BY DEF Row

\* The local variables of an evaluator that is outside a pass.
LEMMA OutsideType ==
    ASSUME NEW pc \in Places
    PROVE  /\ [Outside EXCEPT !.pc = pc] \in Evaluator
           /\ [Outside EXCEPT !.pc = pc].pc = pc
           /\ [Outside EXCEPT !.pc = pc].todo = {}
<1>1. (CHOOSE v \in Levels : TRUE) \in Levels
    BY EvaluatorAssumption
<1>2. /\ [r \in Rules |-> Blank] \in [Rules -> Row]
      /\ [r \in Rules |-> CHOOSE v \in Levels : TRUE] \in [Rules -> Levels \cup {NoSamples}]
    BY <1>1, NewRows
<1> QED
    BY <1>2 DEF Outside, Evaluator

\* The metrics of a pass are values a metric can take.
LEMMA PlatformType ==
    ASSUME metric \in [Rules -> Levels \cup {NoSamples}]
    PROVE  PlatformMetrics \in [Rules -> Levels \cup {NoSamples}]
<1>1. (CHOOSE v \in Levels : TRUE) \in Levels
    BY EvaluatorAssumption
<1>2. \A r \in Rules : Outside.seen[r] \in Levels
    BY <1>1 DEF Outside
<1> QED
    BY <1>2 DEF PlatformMetrics

\* Only worker w has moved.
Only(w) == \A v \in Workers \ {w} : ev'[v] = ev[v]

\* What moving to another place changes of a worker, and of no other.
LEMMA GoEffect ==
    ASSUME ev \in [Workers -> Evaluator], NEW w \in Workers, NEW pc \in Places, Go(w, pc)
    PROVE  /\ ev' \in [Workers -> Evaluator] /\ Only(w)
           /\ ev'[w].pc = pc /\ ev'[w].cur = ev[w].cur
           /\ ev'[w].todo = ev[w].todo /\ ev'[w].snap = ev[w].snap
           /\ ev'[w].seen = ev[w].seen
<1>1. ev'[w] = [ev[w] EXCEPT !.pc = pc] /\ Only(w)
    BY DEF Go, Only
<1>2. [ev[w] EXCEPT !.pc = pc] \in Evaluator
    BY DEF Evaluator
<1>3. ev' \in [Workers -> Evaluator]
    BY <1>2 DEF Go
<1> QED
    BY <1>1, <1>3 DEF Evaluator

\* The same of the end of a pass, which drops the rest of its rules.
LEMMA ReturnEffect ==
    ASSUME ev \in [Workers -> Evaluator], NEW w \in Workers, NEW pc \in Places, Return(w, pc)
    PROVE  /\ ev' \in [Workers -> Evaluator] /\ Only(w)
           /\ ev'[w].pc = pc /\ ev'[w].todo = {}
<1>1. ev'[w] = [Outside EXCEPT !.pc = pc] /\ Only(w)
    BY DEF Return, Only
<1> QED
    BY <1>1, OutsideType DEF Return

\* Skip and clearFiring take a rule from those left; a breach takes it and
\* enters the breach branch with it.
LEMMA VisitEffect ==
    ASSUME ev \in [Workers -> Evaluator], NEW w \in Workers, NEW r \in Rules,
           ev' = [ev EXCEPT ![w].todo = @ \ {r}]
    PROVE  /\ ev' \in [Workers -> Evaluator] /\ Only(w)
           /\ ev'[w].todo = ev[w].todo \ {r} /\ ev'[w].snap = ev[w].snap
           /\ ev'[w].pc = ev[w].pc /\ ev'[w].cur = ev[w].cur
           /\ ev'[w].seen = ev[w].seen
<1>1. ev'[w] = [ev[w] EXCEPT !.todo = ev[w].todo \ {r}] /\ Only(w)
    BY DEF Only
<1>2. ev[w] \in Evaluator /\ ev[w].todo \ {r} \in SUBSET Rules
    BY DEF Evaluator
<1>3. ASSUME NEW s \in SUBSET Rules
      PROVE  [ev[w] EXCEPT !.todo = s] \in Evaluator
    BY <1>2 DEF Evaluator
<1>4. ev' \in [Workers -> Evaluator]
    BY <1>2, <1>3
<1> QED
    BY <1>1, <1>2, <1>4 DEF Evaluator

\* The same of entering the breach branch of evaluateRule.
LEMMA BreachEffect ==
    ASSUME ev \in [Workers -> Evaluator], NEW w \in Workers, NEW r \in Rules,
           ev' = [ev EXCEPT ![w].pc = "send", ![w].cur = r, ![w].todo = @ \ {r}]
    PROVE  /\ ev' \in [Workers -> Evaluator] /\ Only(w)
           /\ ev'[w].todo = ev[w].todo \ {r} /\ ev'[w].snap = ev[w].snap
           /\ ev'[w].pc = "send" /\ ev'[w].cur = r /\ ev'[w].seen = ev[w].seen
<1>1. ev'[w] = [ev[w] EXCEPT !.pc = "send", !.cur = r, !.todo = ev[w].todo \ {r}] /\ Only(w)
    BY DEF Only
<1>2. ev[w] \in Evaluator /\ ev[w].todo \ {r} \in SUBSET Rules
    BY DEF Evaluator
<1>3. ASSUME NEW s \in SUBSET Rules
      PROVE  [ev[w] EXCEPT !.pc = "send", !.cur = r, !.todo = s] \in Evaluator
    BY <1>2 DEF Evaluator, Places
<1>4. ev' \in [Workers -> Evaluator]
    BY <1>2, <1>3
<1> QED
    BY <1>1, <1>2, <1>4 DEF Evaluator

\* An UPDATE of the evaluator writes one row and nothing else.
LEMMA UpdateEffect ==
    ASSUME NEW r \in Rules, NEW new, Update(r, new) \/ UNCHANGED ruleVars
    PROVE  /\ UNCHANGED <<present, drawn, tableLock, client>>
           /\ \/ row' = row
              \/ r \in present /\ row' = [row EXCEPT ![r] = new]
BY DEF Update, UpdateRow, ruleVars

\* An UPDATE of a rule changes no latch but its own.
LEMMA UpdateFiring ==
    ASSUME RulesTypeOK, NEW r \in Rules, NEW new, Update(r, new) \/ UNCHANGED ruleVars
    PROVE  /\ present' = present
           /\ \A s \in present : \/ row'[s].firing = row[s].firing
                                 \/ s = r /\ row'[s].firing = new.firing
<1>1. CASE row' = row
    BY <1>1, UpdateEffect
<1>2. CASE row' = [row EXCEPT ![r] = new]
    <2>1. \A s \in Rules : row'[s] = IF s = r THEN new ELSE row[s]
        BY <1>2 DEF RulesTypeOK
    <2>2. present \subseteq Rules
        BY DEF RulesTypeOK
    <2>3. present' = present
        BY UpdateEffect
    <2> QED
        BY <2>1, <2>2, <2>3
<1> QED
    BY <1>1, <1>2, UpdateEffect

\* An UPDATE, whether or not it finds its row, keeps the types of the table.
LEMMA UpdateType ==
    ASSUME RulesTypeOK, NEW r \in Rules, NEW new \in Row,
           Update(r, new) \/ UNCHANGED ruleVars
    PROVE  RulesTypeOK'
<1>1. row' \in [Rules -> Row]
    BY UpdateEffect DEF RulesTypeOK
<1> QED
    BY <1>1, UpdateEffect DEF RulesTypeOK

\* A rule handler keeps the types; it draws ids and forgets none.
LEMMA HandlerType ==
    ASSUME RulesTypeOK, PatchOK, RulesNext
    PROVE  RulesTypeOK' /\ PatchOK' /\ drawn \subseteq drawn'
<1> USE NewRows
<1>i. IdleClient \in Client
    BY DEF IdleClient, Client
<1>k. IdleClient.pc = "idle"
    BY DEF IdleClient
<1>1. ASSUME NEW p \in Clients, CreateLock(p) \/ CreateCount(p) \/ CreateRollback(p)
      PROVE RulesTypeOK' /\ PatchOK' /\ drawn \subseteq drawn'
    BY <1>1, <1>i, <1>k DEF CreateLock, CreateCount, CreateRollback, RulesTypeOK, PatchOK, Client
<1>2. ASSUME NEW p \in Clients, CreateInsert(p)
      PROVE RulesTypeOK' /\ PatchOK' /\ drawn \subseteq drawn'
    BY <1>2, <1>i, <1>k DEF CreateInsert, RulesTypeOK, PatchOK
<1>3. ASSUME NEW p \in Clients, NEW r \in Rules,
             NEW f \in SUBSET {"active", "threshold"}, PatchRead(p, r, f)
      PROVE RulesTypeOK' /\ PatchOK' /\ drawn \subseteq drawn'
    <2>1. PICK a \in BOOLEAN, t \in Thresholds :
            client' = [client EXCEPT ![p] =
              [pc |-> "patch", rule |-> r, active |-> a, threshold |-> t]]
        BY <1>3 DEF PatchRead
    <2>2. [pc |-> "patch", rule |-> r, active |-> a, threshold |-> t] \in Client
        BY DEF Client
    <2> QED
        BY <1>3, <2>1, <2>2 DEF PatchRead, RulesTypeOK, PatchOK
<1>4. ASSUME NEW p \in Clients, PatchWrite(p)
      PROVE RulesTypeOK' /\ PatchOK' /\ drawn \subseteq drawn'
    <2>1. client[p] \in Client
        BY DEF RulesTypeOK
    <2>2. row' \in [Rules -> Row]
        <3>1. CASE client[p].rule \notin present
            BY <1>4, <3>1 DEF PatchWrite, RulesTypeOK
        <3>2. CASE client[p].rule \in present
            <4>1. client[p].rule \in Rules /\ row[client[p].rule] \in Row
                BY <3>2 DEF RulesTypeOK
            <4>2. client[p].active \in BOOLEAN /\ client[p].threshold \in Thresholds
                BY <1>4, <2>1 DEF PatchWrite, PatchOK, Client
            <4>3. [row[client[p].rule] EXCEPT !.active = client[p].active,
                                              !.threshold = client[p].threshold] \in Row
                BY <4>1, <4>2, RowWrites
            <4> QED
                BY <1>4, <3>2, <4>1, <4>3 DEF PatchWrite, RulesTypeOK
        <3> QED BY <3>1, <3>2
    <2> QED
        BY <1>4, <1>i, <1>k, <2>2 DEF PatchWrite, RulesTypeOK, PatchOK
<1>5. ASSUME NEW p \in Clients, NEW r \in Rules, DeleteAlertRule(p, r)
      PROVE RulesTypeOK' /\ PatchOK' /\ drawn \subseteq drawn'
    BY <1>5 DEF DeleteAlertRule, RulesTypeOK, PatchOK
<1> QED
    BY <1>1, <1>2, <1>3, <1>4, <1>5 DEF RulesNext

\* Workers start outside, on an empty table.
LEMMA TypeInit == Init => TypeInv
<1> SUFFICES ASSUME Init PROVE TypeInv
    OBVIOUS
<1>1. RulesTypeOK
    BY NewRows DEF Init, RulesInit, RulesTypeOK, IdleClient, Client
<1>2. Outside = [Outside EXCEPT !.pc = "out"]
    BY DEF Outside
<1>3. Outside \in Evaluator /\ Outside.pc = "out" /\ Outside.todo = {}
    BY <1>2, OutsideType DEF Places
<1>4. ev \in [Workers -> Evaluator]
    BY <1>3 DEF Init
<1>5. TypeOK
    BY <1>1, <1>4, EvaluatorAssumption DEF Init, TypeOK, Values
<1>6. PassOK
    BY <1>3 DEF Init, PassOK, InBreach
<1>7. PatchOK
    BY DEF Init, RulesInit, PatchOK, IdleClient
<1> QED
    BY <1>5, <1>6, <1>7 DEF TypeInv

\* What a step of worker w does to the types, from what it does to ev, to the
\* rules and to the messages.
LEMMA StepType ==
    ASSUME TypeInv, NEW w \in Workers,
           ev' \in [Workers -> Evaluator], Only(w),
           RulesTypeOK', UNCHANGED <<drawn, client, ruleType, metric>>,
           advisory' \in Workers \cup {Nobody}, faults' \in 0..MaxFaults,
           notifications' \cup sent' \subseteq Rules \X Thresholds,
           lastSent' \in [Rules -> Thresholds \cup {Nobody}], repeated' \subseteq Rules,
           ev'[w].todo \subseteq drawn,
           InBreach(w)' => ev'[w].cur \in drawn \ ev'[w].todo
    PROVE  TypeInv'
<1>1. TypeOK'
    BY DEF TypeInv, TypeOK, Values
<1>2. PassOK'
    <2> SUFFICES ASSUME NEW v \in Workers
                 PROVE  /\ ev'[v].todo \subseteq drawn'
                        /\ InBreach(v)' => ev'[v].cur \in drawn' \ ev'[v].todo
        BY DEF PassOK
    <2>1. CASE v = w
        BY <2>1
    <2>2. CASE v # w
        BY <2>2 DEF Only, TypeInv, PassOK, InBreach
    <2> QED BY <2>1, <2>2
<1>3. PatchOK'
    BY DEF TypeInv, PatchOK
<1> QED
    BY <1>1, <1>2, <1>3 DEF TypeInv

\* A step of one worker's evaluator.
LEMMA EvaluateType ==
    ASSUME TypeInv, NEW w \in Workers, Evaluate(w) \/ WorkerCrash(w)
    PROVE  TypeInv' /\ drawn' = drawn
<1>t. /\ RulesTypeOK /\ ev \in [Workers -> Evaluator] /\ drawn \subseteq Rules /\ present \subseteq drawn
      /\ row \in [Rules -> Row] /\ metric \in [Rules -> Levels \cup {NoSamples}]
      /\ advisory \in Workers \cup {Nobody} /\ faults \in 0..MaxFaults
      /\ notifications \cup sent \subseteq Rules \X Thresholds
      /\ lastSent \in [Rules -> Thresholds \cup {Nobody}] /\ repeated \subseteq Rules
      /\ ev[w].todo \subseteq drawn /\ (InBreach(w) => ev[w].cur \in drawn \ ev[w].todo)
    BY DEF TypeInv, TypeOK, RulesTypeOK, PassOK
<1>c. InBreach(w) => /\ ev[w].cur \in Rules /\ row[ev[w].cur] \in Row
                     /\ Copy(w).threshold \in Thresholds
                     /\ Message(w) \in Rules \X Thresholds
    <2>1. InBreach(w) => ev[w].cur \in Rules
        BY <1>t
    <2>2. InBreach(w) => Copy(w) \in Row
        BY <1>t, <2>1 DEF Copy, Evaluator
    <2> QED
        BY <1>t, <2>1, <2>2 DEF Message, Row
<1>r. UNCHANGED ruleVars => RulesTypeOK' /\ UNCHANGED <<drawn, client>>
    BY <1>t DEF ruleVars, RulesTypeOK
<1>1. CASE HoldEvaluation(w) \/ Tick(w)
    <2>1. Go(w, "list") /\ UNCHANGED <<ruleVars, ruleType, metric, faults, messages>>
        BY <1>1 DEF HoldEvaluation, Hold, Tick, world
    <2>2. advisory' \in Workers \cup {Nobody}
        BY <1>1, <1>t DEF HoldEvaluation, Hold, Tick, world
    <2> QED
        BY <1>t, <1>r, <2>1, <2>2, GoEffect, StepType DEF messages, Places, InBreach
<1>2. CASE ListAlertRules(w) \/ GetPlatformMetrics(w) \/ EndPass(w)
    <2>1. UNCHANGED <<ruleVars, world, messages>>
        BY <1>2 DEF ListAlertRules, GetPlatformMetrics, EndPass
    <2>2. CASE Return(w, "tick")
        BY <1>t, <1>r, <2>1, <2>2, ReturnEffect, StepType DEF world, messages, Places, InBreach
    <2>3. CASE ev' = [ev EXCEPT ![w].pc = "measure", ![w].snap = row, ![w].todo = present]
        <3>1. [ev[w] EXCEPT !.pc = "measure", !.snap = row, !.todo = present] \in Evaluator
            BY <1>t DEF Evaluator, Places
        <3>2. ev'[w] = [ev[w] EXCEPT !.pc = "measure", !.snap = row, !.todo = present] /\ Only(w)
            BY <1>t, <2>3 DEF Only
        <3>3. ev' \in [Workers -> Evaluator]
            BY <1>t, <2>3, <3>1
        <3>4. ev'[w].pc = "measure" /\ ev'[w].todo = present
            BY <1>t, <3>2 DEF Evaluator
        <3> QED
            BY <1>t, <1>r, <2>1, <3>2, <3>3, <3>4, StepType DEF world, messages, InBreach
    <2>4. CASE ev' = [ev EXCEPT ![w].pc = "loop", ![w].seen = PlatformMetrics]
        <3>1. [ev[w] EXCEPT !.pc = "loop", !.seen = PlatformMetrics] \in Evaluator
            <4>1. PlatformMetrics \in [Rules -> Levels \cup {NoSamples}]
                BY <1>t, PlatformType
            <4>2. ASSUME NEW f \in [Rules -> Levels \cup {NoSamples}]
                  PROVE  [ev[w] EXCEPT !.pc = "loop", !.seen = f] \in Evaluator
                BY <1>t DEF Evaluator, Places
            <4> QED
                BY <4>1, <4>2
        <3>2. ev'[w] = [ev[w] EXCEPT !.pc = "loop", !.seen = PlatformMetrics] /\ Only(w)
            BY <1>t, <2>4 DEF Only
        <3>3. ev' \in [Workers -> Evaluator]
            BY <1>t, <2>4, <3>1
        <3>4. ev'[w].pc = "loop" /\ ev'[w].todo = ev[w].todo
            BY <1>t, <3>2 DEF Evaluator
        <3> QED
            BY <1>t, <1>r, <2>1, <3>2, <3>3, <3>4, StepType DEF world, messages, InBreach
    <2> QED
        BY <1>2, <2>2, <2>3, <2>4 DEF ListAlertRules, GetPlatformMetrics, EndPass
<1>3. ASSUME NEW r \in Rules, Skip(w, r) \/ Breach(w, r)
      PROVE TypeInv' /\ drawn' = drawn
    <2>1. UNCHANGED <<ruleVars, world, messages>> /\ ev[w].pc = "loop" /\ r \in ev[w].todo
        BY <1>3 DEF Skip, Breach, Visits
    <2>2. /\ ev' \in [Workers -> Evaluator] /\ Only(w)
          /\ ev'[w].todo = ev[w].todo \ {r}
          /\ ev'[w].pc = "loop" \/ ev'[w].cur = r
        BY <1>3, <1>t, <2>1, VisitEffect, BreachEffect DEF Skip, Breach
    <2>3. /\ ev'[w].todo \subseteq drawn
          /\ InBreach(w)' => ev'[w].cur \in drawn \ ev'[w].todo
        BY <1>t, <2>1, <2>2 DEF InBreach
    <2> QED
        BY <1>t, <1>r, <2>1, <2>2, <2>3, StepType DEF world, messages
<1>4. ASSUME NEW r \in Rules, ClearFiring(w, r)
      PROVE TypeInv' /\ drawn' = drawn
    <2>1. [row[r] EXCEPT !.firing = Nobody] \in Row
        BY <1>t, RowWrites
    <2>2. Update(r, [row[r] EXCEPT !.firing = Nobody]) \/ UNCHANGED ruleVars
        BY <1>4 DEF ClearFiring
    <2>3. RulesTypeOK' /\ UNCHANGED <<drawn, client>>
        BY <1>t, <2>1, <2>2, UpdateType, UpdateEffect
    <2>4. UNCHANGED <<world, notifications, sent, repeated>> /\ ev[w].pc = "loop"
        BY <1>4 DEF ClearFiring, Visits
    <2>5. lastSent' \in [Rules -> Thresholds \cup {Nobody}]
        BY <1>4, <1>t DEF ClearFiring, Forget
    <2>6. ev' = [ev EXCEPT ![w].todo = @ \ {r}]
        BY <1>4 DEF ClearFiring
    <2>7. /\ ev' \in [Workers -> Evaluator] /\ Only(w)
          /\ ev'[w].todo = ev[w].todo \ {r} /\ ev'[w].pc = "loop"
        BY <1>t, <2>4, <2>6, VisitEffect
    <2> QED
        BY <1>t, <2>3, <2>4, <2>5, <2>7, StepType DEF world, InBreach
<1>5. CASE Delivers(w) \/ RecordAlertNotification(w)
    <2>1. InBreach(w) /\ UNCHANGED <<ruleVars, world>>
        BY <1>5 DEF Delivers, Deliver, RecordAlertNotification, InBreach
    <2>2. Go(w, "clear") \/ Go(w, "failed") \/ Go(w, "latch")
        BY <1>5 DEF Delivers, Deliver, RecordAlertNotification
    <2>3. notifications' \cup sent' \subseteq Rules \X Thresholds
        BY <1>5, <1>c, <1>t, <2>1 DEF Delivers, Deliver, RecordAlertNotification
    <2>4. lastSent' \in [Rules -> Thresholds \cup {Nobody}] /\ repeated' \subseteq Rules
        BY <1>5, <1>c, <1>t, <2>1 DEF Delivers, Deliver, RecordAlertNotification
    <2> QED
        BY <1>t, <1>r, <2>1, <2>2, <2>3, <2>4, GoEffect, StepType DEF world, Places
<1>6. CASE SendFails(w) \/ ClearDeliveryError(w)
    <2>1. InBreach(w) /\ UNCHANGED <<world, notifications, sent, repeated>>
        BY <1>6 DEF SendFails, ClearDeliveryError, InBreach, messages
    <2>0. lastSent' \in [Rules -> Thresholds \cup {Nobody}]
        BY <1>6, <1>t DEF SendFails, ClearDeliveryError, Forget, messages
    <2>2. PICK b \in BOOLEAN : Update(ev[w].cur, [row[ev[w].cur] EXCEPT !.err = b])
                               \/ UNCHANGED ruleVars
        BY <1>6 DEF SendFails, ClearDeliveryError
    <2>3. [row[ev[w].cur] EXCEPT !.err = b] \in Row
        BY <1>c, <2>1, RowWrites
    <2>4. RulesTypeOK' /\ UNCHANGED <<drawn, client>>
        BY <1>t, <1>c, <2>1, <2>2, <2>3, UpdateType, UpdateEffect
    <2>5. Go(w, "loop") \/ Go(w, "insert")
        BY <1>6 DEF SendFails, ClearDeliveryError
    <2> QED
        BY <1>t, <2>0, <2>1, <2>4, <2>5, GoEffect, StepType DEF world, Places
<1>7. CASE SetAlertRuleFiring(w)
    <2>1. InBreach(w) /\ UNCHANGED <<world, notifications, sent, repeated>> /\ Go(w, "loop")
        BY <1>7 DEF SetAlertRuleFiring, Latch, InBreach
    <2>2. Update(ev[w].cur, [row[ev[w].cur] EXCEPT !.firing = Copy(w).threshold])
            \/ UNCHANGED ruleVars
        BY <1>7 DEF SetAlertRuleFiring, Latch, Update
    <2>3. [row[ev[w].cur] EXCEPT !.firing = Copy(w).threshold] \in Row
        BY <1>c, <2>1, RowWrites
    <2>4. RulesTypeOK' /\ UNCHANGED <<drawn, client>>
        BY <1>t, <1>c, <2>1, <2>2, <2>3, UpdateType, UpdateEffect
    <2>5. lastSent' \in [Rules -> Thresholds \cup {Nobody}]
        BY <1>7, <1>t, <1>c, <2>1 DEF SetAlertRuleFiring, Latch, Forget
    <2> QED
        BY <1>t, <2>1, <2>4, <2>5, GoEffect, StepType DEF world, Places
<1>8. CASE WorkerCrash(w)
    <2>1. Return(w, "out") /\ UNCHANGED <<ruleVars, ruleType, metric, notifications, sent, repeated>>
        BY <1>8 DEF WorkerCrash, Crash
    <2>2. advisory' \in Workers \cup {Nobody} /\ faults' \in 0..MaxFaults
        BY <1>8, <1>t, EvaluatorAssumption DEF WorkerCrash, Crash
    <2>3. lastSent' \in [Rules -> Thresholds \cup {Nobody}]
        BY <1>8, <1>t DEF WorkerCrash, Crash, Forget
    <2> QED
        BY <1>t, <1>r, <2>1, <2>2, <2>3, ReturnEffect, StepType DEF Places, InBreach
<1> QED
    BY <1>1, <1>2, <1>3, <1>4, <1>5, <1>6, <1>7, <1>8
       DEF Evaluate, SendNotification, SendBreaks, Delivers

\* The world around the evaluators.
LEMMA WorldType ==
    ASSUME TypeInv,
           \/ \E r \in Rules, v \in Levels \cup {NoSamples} : MetricMoves(r, v)
           \/ LockLost \/ HandlerStep
    PROVE  TypeInv'
<1> USE EvaluatorAssumption DEF TypeInv
<1>1. ASSUME NEW r \in Rules, NEW v \in Levels \cup {NoSamples}, MetricMoves(r, v)
      PROVE TypeInv'
    BY <1>1 DEF MetricMoves, ruleVars, messages, TypeOK, RulesTypeOK, PassOK, PatchOK,
                InBreach, Values
<1>2. CASE LockLost
    BY <1>2 DEF LockLost, ruleVars, messages, TypeOK, RulesTypeOK, PassOK, PatchOK,
                InBreach, Values
<1>3. CASE HandlerStep
    <2>1. RulesTypeOK' /\ PatchOK' /\ drawn \subseteq drawn'
        BY <1>3, HandlerType DEF HandlerStep, TypeOK
    <2> QED
        BY <1>3, <2>1 DEF HandlerStep, world, TypeOK, PassOK, InBreach, Values
<1> QED
    BY <1>1, <1>2, <1>3

\* Each step of a worker, a handler or the environment keeps the types.
LEMMA TypeStep == TypeInv /\ [Next]_vars => TypeInv'
<1> SUFFICES ASSUME TypeInv, [Next]_vars PROVE TypeInv'
    OBVIOUS
<1>1. CASE UNCHANGED vars
    BY <1>1 DEF vars, ruleVars, world, messages, TypeInv, TypeOK, RulesTypeOK, PassOK, PatchOK,
                InBreach, Values
<1>2. CASE Next
    BY <1>2, EvaluateType, WorldType DEF Next
<1> QED
    BY <1>1, <1>2

\* Every variable keeps its type; a latch is a threshold or empty, whatever
\* workers, handlers and faults do.
THEOREM TypesKept == Spec => []TypeOK
<1>1. TypeInv => TypeOK
    BY DEF TypeInv
<1> QED
    BY <1>1, TypeInit, TypeStep, PTL DEF Spec

-----------------------------------------------------------------------------
(* What is latched was sent *)

\* A handler never writes a latch: a rule it keeps keeps its latch, and a rule
\* it inserts has a new id and no latch.
LEMMA HandlerRows ==
    ASSUME RulesTypeOK, PatchOK, RulesNext
    PROVE  \A r \in present' :
             \/ r \in present /\ row'[r].firing = row[r].firing
             \/ r \notin drawn /\ row'[r].firing = Nobody
<1>1. CASE UNCHANGED <<present, row>>
    BY <1>1
<1>2. ASSUME NEW p \in Clients, CreateInsert(p)
      PROVE  \A r \in present' :
               \/ r \in present /\ row'[r].firing = row[r].firing
               \/ r \notin drawn /\ row'[r].firing = Nobody
    BY <1>2, NewRows DEF CreateInsert, RulesTypeOK
<1>3. ASSUME NEW p \in Clients, PatchWrite(p)
      PROVE  \A r \in present' :
               \/ r \in present /\ row'[r].firing = row[r].firing
               \/ r \notin drawn /\ row'[r].firing = Nobody
    <2>1. present' = present
        BY <1>3 DEF PatchWrite
    <2>2. CASE client[p].rule \notin present
        BY <1>3, <2>1, <2>2 DEF PatchWrite
    <2>3. CASE client[p].rule \in present
        <3>1. client[p].rule \in Rules /\ row[client[p].rule] \in Row
            BY <2>3 DEF RulesTypeOK
        <3>2. client[p].active \in BOOLEAN /\ client[p].threshold \in Thresholds
            BY <1>3 DEF PatchWrite, PatchOK, RulesTypeOK, Client
        <3>3. [row[client[p].rule] EXCEPT
                 !.active = client[p].active,
                 !.threshold = client[p].threshold].firing = row[client[p].rule].firing
            BY <3>1 DEF Row
        <3>4. row' = [row EXCEPT ![client[p].rule] =
                        [row[client[p].rule] EXCEPT !.active = client[p].active,
                                                    !.threshold = client[p].threshold]]
            BY <1>3, <2>3 DEF PatchWrite
        <3>5. \A r \in Rules : row'[r].firing = row[r].firing
            BY <3>1, <3>3, <3>4 DEF RulesTypeOK
        <3> QED
            BY <2>1, <3>5 DEF RulesTypeOK
    <2> QED
        BY <2>2, <2>3
<1>4. ASSUME NEW p \in Clients, NEW r \in Rules, DeleteAlertRule(p, r)
      PROVE  \A s \in present' : s \in present /\ row'[s].firing = row[s].firing
    BY <1>4 DEF DeleteAlertRule, RulesTypeOK
<1> QED
    BY <1>1, <1>2, <1>3, <1>4 DEF RulesNext, CreateLock, CreateCount, CreateRollback, PatchRead

\* A worker past its send has sent the message it is about to record and to
\* latch.
MessageSent == \A w \in Workers : HasSent(w) => Message(w) \in sent

SentInv == TypeInv /\ MessageSent /\ LatchWasSent

\* Nothing is latched, and nothing is about to be.
LEMMA SentInit == Init => SentInv
<1> SUFFICES ASSUME Init PROVE SentInv
    OBVIOUS
<1>1. MessageSent
    BY DEF Init, MessageSent, HasSent, Outside
<1>2. LatchWasSent
    BY DEF Init, RulesInit, LatchWasSent
<1> QED
    BY <1>1, <1>2, TypeInit DEF SentInv

\* A step of worker w keeps SentInv if it forgets no message, latches only
\* what was sent, and moves past the send only with its message.
LEMMA SentFromStep ==
    ASSUME SentInv, TypeInv', NEW w \in Workers, Only(w),
           sent \subseteq sent', notifications' \subseteq sent', present' = present,
           \A r \in present : \/ row'[r].firing \in {row[r].firing, Nobody}
                              \/ <<r, row'[r].firing>> \in sent',
           HasSent(w)' => Message(w)' \in sent'
    PROVE  SentInv'
<1>1. MessageSent'
    <2> SUFFICES ASSUME NEW v \in Workers, HasSent(v)' PROVE Message(v)' \in sent'
        BY DEF MessageSent
    <2>1. CASE v = w
        BY <2>1
    <2>2. CASE v # w
        BY <2>2 DEF Only, SentInv, MessageSent, HasSent, Message, Copy
    <2> QED
        BY <2>1, <2>2
<1>2. LatchWasSent'
    BY DEF SentInv, LatchWasSent
<1> QED
    BY <1>1, <1>2 DEF SentInv

\* The steps of a worker: the send comes before the record and the latch.
LEMMA SentEvaluate ==
    ASSUME SentInv, NEW w \in Workers, Evaluate(w) \/ WorkerCrash(w)
    PROVE  SentInv'
<1>t. /\ RulesTypeOK /\ ev \in [Workers -> Evaluator] /\ TypeInv' /\ present \subseteq Rules
      /\ row \in [Rules -> Row] /\ (HasSent(w) => Message(w) \in sent)
      /\ (InBreach(w) => ev[w].cur \in Rules) /\ notifications \subseteq sent
    BY EvaluateType DEF SentInv, TypeInv, TypeOK, RulesTypeOK, PassOK, MessageSent, LatchWasSent
<1>g. ASSUME NEW pc \in Places, Go(w, pc)
      PROVE  /\ Only(w) /\ ev'[w].pc = pc /\ Message(w)' = Message(w)
             /\ HasSent(w)' <=> pc \in {"failed", "clear", "insert", "latch"}
    BY <1>g, <1>t, GoEffect DEF Message, Copy, HasSent
<1>1. CASE HoldEvaluation(w) \/ Tick(w)
    <2>1. Go(w, "list") /\ UNCHANGED <<present, row, notifications, sent>>
        BY <1>1 DEF HoldEvaluation, Hold, Tick, ruleVars, messages
    <2> QED
        BY <1>t, <1>g, <2>1, SentFromStep DEF Places
<1>2. CASE ListAlertRules(w) \/ GetPlatformMetrics(w) \/ EndPass(w)
    <2>1. UNCHANGED <<present, row, notifications, sent>>
        BY <1>2 DEF ListAlertRules, GetPlatformMetrics, EndPass, ruleVars, messages
    <2>2. Only(w) /\ ~ HasSent(w)'
        <3>1. CASE Return(w, "tick")
            BY <1>t, <3>1, ReturnEffect DEF Places, HasSent
        <3>2. CASE ev' = [ev EXCEPT ![w].pc = "measure", ![w].snap = row, ![w].todo = present]
            BY <1>t, <3>2 DEF Only, HasSent, Evaluator
        <3>3. CASE ev' = [ev EXCEPT ![w].pc = "loop", ![w].seen = PlatformMetrics]
            BY <1>t, <3>3 DEF Only, HasSent, Evaluator
        <3> QED
            BY <1>2, <3>1, <3>2, <3>3 DEF ListAlertRules, GetPlatformMetrics, EndPass
    <2> QED
        BY <1>t, <2>1, <2>2, SentFromStep
<1>3. ASSUME NEW r \in Rules, Skip(w, r) \/ Breach(w, r)
      PROVE  SentInv'
    <2>1. UNCHANGED <<present, row, notifications, sent>> /\ ev[w].pc = "loop"
        BY <1>3 DEF Skip, Breach, Visits, ruleVars, messages
    <2>2. Only(w) /\ ev'[w].pc \in {"loop", "send"}
        BY <1>3, <1>t, <2>1, VisitEffect, BreachEffect DEF Skip, Breach
    <2> QED
        BY <1>t, <2>1, <2>2, SentFromStep DEF HasSent
<1>4. ASSUME NEW r \in Rules, ClearFiring(w, r)
      PROVE  SentInv'
    <2>1. Update(r, [row[r] EXCEPT !.firing = Nobody]) \/ UNCHANGED ruleVars
        BY <1>4 DEF ClearFiring
    <2>2. [row[r] EXCEPT !.firing = Nobody].firing = Nobody
        BY <1>t, RowWrites
    <2>3. present' = present /\ \A s \in present : row'[s].firing \in {row[s].firing, Nobody}
        BY <1>t, <2>1, <2>2, UpdateFiring
    <2>4. UNCHANGED <<notifications, sent>> /\ ev[w].pc = "loop"
          /\ ev' = [ev EXCEPT ![w].todo = @ \ {r}]
        BY <1>4 DEF ClearFiring, Visits
    <2>5. Only(w) /\ ~ HasSent(w)'
        BY <1>t, <2>4, VisitEffect DEF HasSent
    <2> QED
        BY <1>t, <2>3, <2>4, <2>5, SentFromStep
<1>5. CASE Delivers(w)
    <2>1. /\ UNCHANGED <<present, row, notifications>> /\ (Go(w, "clear") \/ Go(w, "failed"))
          /\ sent' = sent \cup {Message(w)}
        BY <1>5 DEF Delivers, Deliver, ruleVars
    <2> QED
        BY <1>t, <1>g, <2>1, SentFromStep DEF Places
<1>6. CASE RecordAlertNotification(w)
    <2>1. /\ UNCHANGED <<present, row, sent>> /\ Go(w, "latch") /\ HasSent(w)
          /\ notifications' \subseteq notifications \cup {Message(w)}
        BY <1>6 DEF RecordAlertNotification, ruleVars, HasSent
    <2> QED
        BY <1>t, <1>g, <2>1, SentFromStep DEF Places
<1>7. CASE SendFails(w) \/ ClearDeliveryError(w)
    <2>1. InBreach(w) /\ UNCHANGED <<notifications, sent>>
        BY <1>7 DEF SendFails, ClearDeliveryError, InBreach, messages
    <2>2. PICK b \in BOOLEAN : Update(ev[w].cur, [row[ev[w].cur] EXCEPT !.err = b])
                               \/ UNCHANGED ruleVars
        BY <1>7 DEF SendFails, ClearDeliveryError
    <2> DEFINE new == [row[ev[w].cur] EXCEPT !.err = b]
    <2>3. new.firing = row[ev[w].cur].firing
        BY <1>t, <2>1, RowWrites
    <2>4. present' = present /\ \A s \in present : row'[s].firing = row[s].firing
        <3> HIDE DEF new
        <3>1. ev[w].cur \in Rules /\ (Update(ev[w].cur, new) \/ UNCHANGED ruleVars)
            BY <1>t, <2>1, <2>2 DEF new
        <3> QED
            BY <1>t, <2>3, <3>1, UpdateFiring
    <2>5. \/ Go(w, "loop")
          \/ Go(w, "insert") /\ HasSent(w)
        BY <1>7 DEF SendFails, ClearDeliveryError, HasSent
    <2> QED
        BY <1>t, <1>g, <2>1, <2>4, <2>5, SentFromStep DEF Places
<1>8. CASE SetAlertRuleFiring(w)
    <2>1. HasSent(w) /\ InBreach(w) /\ UNCHANGED <<notifications, sent>> /\ Go(w, "loop")
        BY <1>8 DEF SetAlertRuleFiring, Latch, HasSent, InBreach
    <2>2. Update(ev[w].cur, [row[ev[w].cur] EXCEPT !.firing = Copy(w).threshold])
            \/ UNCHANGED ruleVars
        BY <1>8 DEF SetAlertRuleFiring, Latch, Update
    <2>3. Copy(w).threshold \in Thresholds
        BY <1>t, <2>1 DEF Copy, Evaluator, Row
    <2>4. [row[ev[w].cur] EXCEPT !.firing = Copy(w).threshold].firing = Copy(w).threshold
        BY <1>t, <2>1, <2>3, RowWrites
    <2>5. <<ev[w].cur, Copy(w).threshold>> \in sent
        BY <1>t, <2>1 DEF Message
    <2>6. present' = present /\ \A s \in present : \/ row'[s].firing = row[s].firing
                                                  \/ <<s, row'[s].firing>> \in sent
        BY <1>t, <2>1, <2>2, <2>4, <2>5, UpdateFiring
    <2> QED
        BY <1>t, <1>g, <2>1, <2>6, SentFromStep DEF Places
<1>9. CASE WorkerCrash(w)
    <2>1. Return(w, "out") /\ UNCHANGED <<present, row, notifications, sent>>
        BY <1>9 DEF WorkerCrash, Crash, ruleVars
    <2>2. Only(w) /\ ~ HasSent(w)'
        BY <1>t, <2>1, ReturnEffect DEF Places, HasSent
    <2> QED
        BY <1>t, <2>1, <2>2, SentFromStep
<1> QED
    BY <1>1, <1>2, <1>3, <1>4, <1>5, <1>6, <1>7, <1>8, <1>9
       DEF Evaluate, SendNotification, SendBreaks, Delivers

\* A handler inserts rows without a latch, and its PATCH keeps the latch.
LEMMA SentStep == SentInv /\ [Next]_vars => SentInv'
<1> SUFFICES ASSUME SentInv, [Next]_vars PROVE SentInv'
    OBVIOUS
<1>1. TypeInv'
    BY TypeStep DEF SentInv
<1>2. CASE HandlerStep
    <2>1. MessageSent'
        BY <1>2 DEF HandlerStep, SentInv, MessageSent, HasSent, Message, Copy
    <2>2. LatchWasSent'
        BY <1>2, HandlerRows DEF HandlerStep, SentInv, TypeInv, TypeOK, LatchWasSent
    <2> QED
        BY <1>1, <2>1, <2>2 DEF SentInv
<1>3. CASE UNCHANGED <<present, row, ev, notifications, sent>>
    BY <1>1, <1>3 DEF SentInv, MessageSent, HasSent, Message, Copy, LatchWasSent
<1> QED
    BY <1>2, <1>3, SentEvaluate DEF Next, vars, ruleVars, messages, MetricMoves, LockLost

\* Whatever is latched or on record was sent, for any number of workers and
\* rules, and even when the advisory lock is lost or an UPDATE fails
\* (evaluator.go:183-214).
THEOREM LatchesAreSent == Spec => []LatchWasSent
<1>1. SentInv => LatchWasSent
    BY DEF SentInv
<1> QED
    BY <1>1, SentInit, SentStep, PTL DEF Spec

-----------------------------------------------------------------------------
(* One evaluator, as long as the session of the lock lives *)

\* A worker is in evaluateOnce, or waits for its ticker, just when its session
\* holds the advisory lock.
LockIsEvaluators == \A w \in Workers : ev[w].pc # "out" <=> advisory = w

LockInv == TypeInv /\ LockIsEvaluators

\* Nobody holds the advisory lock, and nobody is inside.
LEMMA LockInit == Init => LockInv
BY TypeInit, EvaluatorAssumption DEF Init, LockInv, LockIsEvaluators, Outside

\* Inside, a worker stays inside and keeps the lock until it crashes.
LEMMA StaysInside ==
    ASSUME TypeInv, NEW w \in Workers, Evaluate(w), ~ HoldEvaluation(w)
    PROVE  /\ Only(w) /\ ev[w].pc # "out" /\ ev'[w].pc # "out"
           /\ UNCHANGED <<world, present, drawn, tableLock, client>>
<1>t. ev \in [Workers -> Evaluator] /\ (InBreach(w) => ev[w].cur \in Rules)
    BY DEF TypeInv, TypeOK, RulesTypeOK, PassOK
<1>g. ASSUME NEW pc \in Places \ {"out"}, Go(w, pc) \/ Return(w, pc)
      PROVE  Only(w) /\ ev'[w].pc # "out"
    BY <1>g, <1>t, GoEffect, ReturnEffect
<1>1. CASE Tick(w)
    <2>1. Go(w, "list")
        BY <1>1 DEF Tick
    <2> QED
        BY <1>1, <1>g, <2>1 DEF Tick, Places, ruleVars
<1>2. CASE ListAlertRules(w) \/ GetPlatformMetrics(w) \/ EndPass(w)
    <2>1. Only(w) /\ ev'[w].pc # "out"
        <3>1. CASE Return(w, "tick")
            BY <1>g, <3>1 DEF Places
        <3>2. CASE ev' = [ev EXCEPT ![w].pc = "measure", ![w].snap = row, ![w].todo = present]
            BY <1>t, <3>2 DEF Only, Evaluator
        <3>3. CASE ev' = [ev EXCEPT ![w].pc = "loop", ![w].seen = PlatformMetrics]
            BY <1>t, <3>3 DEF Only, Evaluator
        <3> QED
            BY <1>2, <3>1, <3>2, <3>3 DEF ListAlertRules, GetPlatformMetrics, EndPass
    <2>2. ev[w].pc # "out" /\ UNCHANGED <<ruleVars, world>>
        BY <1>2 DEF ListAlertRules, GetPlatformMetrics, EndPass
    <2> QED
        BY <2>1, <2>2 DEF ruleVars
<1>3. ASSUME NEW r \in Rules, Skip(w, r) \/ Breach(w, r)
      PROVE  /\ Only(w) /\ ev[w].pc # "out" /\ ev'[w].pc # "out"
             /\ UNCHANGED <<world, present, drawn, tableLock, client>>
    <2>1. ev[w].pc = "loop" /\ UNCHANGED <<ruleVars, world>>
        BY <1>3 DEF Skip, Breach, Visits
    <2>2. Only(w) /\ ev'[w].pc # "out"
        BY <1>3, <1>t, <2>1, VisitEffect, BreachEffect DEF Skip, Breach
    <2> QED
        BY <2>1, <2>2 DEF ruleVars
<1>4. ASSUME NEW r \in Rules, ClearFiring(w, r)
      PROVE  /\ Only(w) /\ ev[w].pc # "out" /\ ev'[w].pc # "out"
             /\ UNCHANGED <<world, present, drawn, tableLock, client>>
    <2>1. /\ ev[w].pc = "loop" /\ UNCHANGED world /\ ev' = [ev EXCEPT ![w].todo = @ \ {r}]
          /\ Update(r, [row[r] EXCEPT !.firing = Nobody]) \/ UNCHANGED ruleVars
        BY <1>4 DEF ClearFiring, Visits
    <2>2. Only(w) /\ ev'[w].pc # "out"
        BY <1>t, <2>1, VisitEffect
    <2> QED
        BY <2>1, <2>2, UpdateEffect
<1>5. CASE Delivers(w) \/ RecordAlertNotification(w)
    <2>1. /\ ev[w].pc # "out" /\ UNCHANGED <<ruleVars, world>>
          /\ Go(w, "clear") \/ Go(w, "failed") \/ Go(w, "latch")
        BY <1>5 DEF Delivers, Deliver, RecordAlertNotification
    <2> QED
        BY <1>g, <2>1 DEF Places, ruleVars
<1>6. CASE SendFails(w) \/ ClearDeliveryError(w) \/ SetAlertRuleFiring(w)
    <2>1. InBreach(w) /\ UNCHANGED world /\ (Go(w, "loop") \/ Go(w, "insert"))
        BY <1>6 DEF SendFails, ClearDeliveryError, SetAlertRuleFiring, Latch, InBreach
    <2>2. \E new : Update(ev[w].cur, new) \/ UNCHANGED ruleVars
        BY <1>6 DEF SendFails, ClearDeliveryError, SetAlertRuleFiring, Latch, Update
    <2> QED
        BY <1>t, <1>g, <2>1, <2>2, UpdateEffect DEF Places, InBreach
<1> QED
    BY <1>1, <1>2, <1>3, <1>4, <1>5, <1>6
       DEF Evaluate, SendNotification, SendBreaks, Delivers

\* A restarted worker is outside, and its session took the lock along.
LEMMA CrashLetsGo ==
    ASSUME TypeInv, NEW w \in Workers, WorkerCrash(w)
    PROVE  /\ Only(w) /\ ev[w].pc # "out" /\ ev'[w].pc = "out"
           /\ advisory' = IF advisory = w THEN Nobody ELSE advisory
BY ReturnEffect DEF WorkerCrash, Crash, TypeInv, TypeOK, Places

\* Without a broken session the lock ends only with its worker.
LEMMA LockStep ==
    ASSUME "lockLost" \notin Disturbances
    PROVE  LockInv /\ [Next]_vars => LockInv'
<1> SUFFICES ASSUME LockInv, [Next]_vars PROVE LockInv'
    OBVIOUS
<1>1. TypeInv /\ TypeInv'
    BY TypeStep DEF LockInv
<1>2. ASSUME NEW w \in Workers, HoldEvaluation(w)
      PROVE  LockIsEvaluators'
    <2>1. Only(w) /\ ev'[w].pc = "list"
        BY <1>1, <1>2, GoEffect DEF HoldEvaluation, Hold, TypeInv, TypeOK, Places
    <2>2. advisory = Nobody /\ advisory' = w
        BY <1>2 DEF HoldEvaluation, Hold
    <2> QED
        BY <2>1, <2>2, EvaluatorAssumption DEF Only, LockInv, LockIsEvaluators
<1>3. ASSUME NEW w \in Workers, Evaluate(w), ~ HoldEvaluation(w)
      PROVE  LockIsEvaluators'
    BY <1>1, <1>3, StaysInside DEF Only, LockInv, LockIsEvaluators, world
<1>4. ASSUME NEW w \in Workers, WorkerCrash(w)
      PROVE  LockIsEvaluators'
    BY <1>1, <1>4, CrashLetsGo, EvaluatorAssumption DEF Only, LockInv, LockIsEvaluators
<1>5. ASSUME UNCHANGED <<ev, advisory>>
      PROVE  LockIsEvaluators'
    BY <1>5 DEF LockInv, LockIsEvaluators
<1>6. LockIsEvaluators'
    BY <1>2, <1>3, <1>4, <1>5 DEF Next, vars, world, MetricMoves, LockLost, HandlerStep
<1> QED
    BY <1>1, <1>6 DEF LockInv

\* Two workers never evaluate at once, for any number of workers and crashes,
\* as long as no session breaks under a living worker (store.go:94-116,
\* evaluator.go:73-84).
THEOREM OneWorkerEvaluates ==
    ASSUME "lockLost" \notin Disturbances
    PROVE  Spec => []OneEvaluator
<1>1. LockInv => OneEvaluator
    BY DEF LockInv, LockIsEvaluators, OneEvaluator
<1>2. LockInv /\ [Next]_vars => LockInv'
    BY LockStep
<1> QED
    BY <1>1, <1>2, LockInit, PTL DEF Spec

-----------------------------------------------------------------------------
(* Once per breach *)

\* A rule that never existed has sent nothing.
UndrawnSilent == \A r \in Rules \ drawn : lastSent[r] = Nobody

\* What a rule sent last is latched, or a worker is on its way to latch it.
LastIsLatched ==
    \A r \in present : lastSent[r] # Nobody =>
        \/ row[r].firing = lastSent[r]
        \/ \E w \in Workers : HasSent(w) /\ ev[w].cur = r

\* The copy a pass works from is old, and still right about the latches of the
\* rules it has not visited; so a worker that sends has a new threshold to
\* send about, and one that has sent has what was sent last.
PassSawLatch(w) ==
    ev[w].pc \notin {"out", "list", "tick"} =>
        \A r \in ev[w].todo : lastSent[r] # Nobody => ev[w].snap[r].firing = lastSent[r]

SendIsNew(w) == ev[w].pc = "send" => lastSent[ev[w].cur] # Copy(w).threshold

SentIsLast(w) == HasSent(w) => lastSent[ev[w].cur] = Copy(w).threshold

PassIsFresh(w) == PassSawLatch(w) /\ SendIsNew(w) /\ SentIsLast(w)

OnceInv ==
    /\ LockInv
    /\ UndrawnSilent
    /\ LastIsLatched
    /\ \A w \in Workers : PassIsFresh(w)
    /\ OncePerBreach

\* No rule is drawn, so none has sent.
LEMMA OnceInit == Init => OnceInv
<1> SUFFICES ASSUME Init PROVE OnceInv
    OBVIOUS
<1>1. UndrawnSilent /\ LastIsLatched /\ OncePerBreach
    BY DEF Init, RulesInit, UndrawnSilent, LastIsLatched, OncePerBreach
<1>2. \A w \in Workers : PassIsFresh(w)
    BY DEF Init, PassIsFresh, PassSawLatch, SendIsNew, SentIsLast, HasSent, Outside
<1> QED
    BY <1>1, <1>2, LockInit DEF OnceInv

\* A step of worker w: the others are outside, so only w's pass matters.
LEMMA OnceFromStep ==
    ASSUME OnceInv, LockInv', NEW w \in Workers, Only(w), drawn' = drawn,
           \A v \in Workers \ {w} : ev[v].pc = "out",
           UndrawnSilent', LastIsLatched', PassIsFresh(w)', repeated' = {}
    PROVE  OnceInv'
<1>1. ASSUME NEW v \in Workers PROVE PassIsFresh(v)'
    <2>1. CASE v = w
        BY <2>1
    <2>2. CASE v # w
        BY <2>2 DEF Only, PassIsFresh, PassSawLatch, SendIsNew, SentIsLast, HasSent
    <2> QED
        BY <2>1, <2>2
<1> QED
    BY <1>1 DEF OnceInv, OncePerBreach

\* The steps of a worker: what its pass has read is still the row.
LEMMA OnceEvaluate ==
    ASSUME OnceInv, LockInv', NEW w \in Workers, Evaluate(w) \/ WorkerCrash(w)
    PROVE  OnceInv'
<1>t. /\ TypeInv /\ RulesTypeOK /\ ev \in [Workers -> Evaluator] /\ present \subseteq Rules
      /\ row \in [Rules -> Row] /\ lastSent \in [Rules -> Thresholds \cup {Nobody}]
      /\ (InBreach(w) => ev[w].cur \in drawn \ ev[w].todo)
      /\ ev[w].todo \subseteq Rules /\ drawn \subseteq Rules
    BY DEF OnceInv, LockInv, TypeInv, TypeOK, RulesTypeOK, PassOK
<1>d. drawn' = drawn
    BY <1>t, EvaluateType
<1>n. Nobody \notin Thresholds
    BY RulesAssumption
<1>c. \A r \in Rules : ev[w].snap[r].threshold \in Thresholds
    BY <1>t DEF Evaluator, Row
<1>f. /\ PassSawLatch(w) /\ SendIsNew(w) /\ SentIsLast(w)
      /\ UndrawnSilent /\ LastIsLatched /\ repeated = {}
    BY DEF OnceInv, PassIsFresh, OncePerBreach
<1>o. \A v \in Workers \ {w} : ev[v].pc = "out"
    <2>1. LockIsEvaluators
        BY DEF OnceInv, LockInv
    <2>2. CASE HoldEvaluation(w)
        BY <2>1, <2>2, EvaluatorAssumption DEF HoldEvaluation, Hold, LockIsEvaluators
    <2>3. CASE ~ HoldEvaluation(w)
        BY <1>t, <2>1, <2>3, StaysInside, CrashLetsGo DEF LockIsEvaluators
    <2> QED
        BY <2>2, <2>3
\* Before the step: what was sent last is latched unless w is about to.
<1>l. \A r \in present : lastSent[r] # Nobody =>
          row[r].firing = lastSent[r] \/ (HasSent(w) /\ ev[w].cur = r)
    BY <1>f, <1>o DEF LastIsLatched, HasSent
\* After the step, likewise.
<1>q. ASSUME present' = present, UNCHANGED <<row, lastSent>>,
             HasSent(w) => HasSent(w)' /\ ev'[w].cur = ev[w].cur
      PROVE  LastIsLatched'
    BY <1>q, <1>l DEF LastIsLatched
<1>g. ASSUME NEW pc \in Places, Go(w, pc)
      PROVE  /\ Only(w) /\ ev'[w].pc = pc /\ ev'[w].cur = ev[w].cur
             /\ ev'[w].todo = ev[w].todo /\ ev'[w].snap = ev[w].snap
             /\ Copy(w)' = Copy(w)
             /\ HasSent(w)' <=> pc \in {"failed", "clear", "insert", "latch"}
    BY <1>g, <1>t, GoEffect DEF Copy, HasSent
<1>1. CASE HoldEvaluation(w) \/ Tick(w)
    <2>1. /\ Go(w, "list") /\ UNCHANGED <<present, row, lastSent, repeated>> /\ ~ HasSent(w)
        BY <1>1 DEF HoldEvaluation, Hold, Tick, ruleVars, messages, HasSent
    <2>2. Only(w) /\ ev'[w].pc = "list" /\ ~ HasSent(w)'
        BY <1>g, <2>1 DEF Places
    <2>3. LastIsLatched' /\ UndrawnSilent'
        BY <1>q, <1>f, <1>d, <2>1 DEF UndrawnSilent
    <2>4. PassIsFresh(w)'
        BY <2>2 DEF PassIsFresh, PassSawLatch, SendIsNew, SentIsLast
    <2> QED
        BY <1>d, <1>f, <1>o, <2>1, <2>2, <2>3, <2>4, OnceFromStep
<1>2. CASE ListAlertRules(w) \/ GetPlatformMetrics(w) \/ EndPass(w)
    <2>1. UNCHANGED <<present, row, lastSent, repeated>> /\ ~ HasSent(w)
        BY <1>2 DEF ListAlertRules, GetPlatformMetrics, EndPass, ruleVars, messages, HasSent
    <2>2. LastIsLatched' /\ UndrawnSilent'
        BY <1>q, <1>f, <1>d, <2>1 DEF UndrawnSilent
    <2>3. CASE Return(w, "tick")
        <3>1. Only(w) /\ ev'[w].pc = "tick"
            BY <1>t, <2>3, ReturnEffect DEF Places
        <3>2. PassIsFresh(w)'
            BY <3>1 DEF PassIsFresh, PassSawLatch, SendIsNew, SentIsLast, HasSent
        <3> QED
            BY <1>d, <1>f, <1>o, <2>1, <2>2, <3>1, <3>2, OnceFromStep
    <2>4. CASE ev' = [ev EXCEPT ![w].pc = "measure", ![w].snap = row, ![w].todo = present]
        <3>1. /\ Only(w) /\ ev'[w].pc = "measure"
              /\ ev'[w].snap = row /\ ev'[w].todo = present
            BY <1>t, <2>4 DEF Only, Evaluator
        <3>2. PassIsFresh(w)'
            BY <1>l, <2>1, <3>1 DEF PassIsFresh, PassSawLatch, SendIsNew, SentIsLast, HasSent
        <3> QED
            BY <1>d, <1>f, <1>o, <2>1, <2>2, <3>1, <3>2, OnceFromStep
    <2>5. CASE /\ ev' = [ev EXCEPT ![w].pc = "loop", ![w].seen = PlatformMetrics]
               /\ ev[w].pc = "measure"
        <3>1. /\ Only(w) /\ ev'[w].pc = "loop"
              /\ ev'[w].snap = ev[w].snap /\ ev'[w].todo = ev[w].todo
            BY <1>t, <2>5 DEF Only, Evaluator
        <3>2. PassIsFresh(w)'
            BY <1>f, <2>1, <2>5, <3>1 DEF PassIsFresh, PassSawLatch, SendIsNew, SentIsLast, HasSent
        <3> QED
            BY <1>d, <1>f, <1>o, <2>1, <2>2, <3>1, <3>2, OnceFromStep
    <2> QED
        BY <1>2, <2>3, <2>4, <2>5 DEF ListAlertRules, GetPlatformMetrics, EndPass
<1>3. ASSUME NEW r \in Rules, Skip(w, r)
      PROVE  OnceInv'
    <2>1. /\ UNCHANGED <<present, row, lastSent, repeated>> /\ ~ HasSent(w) /\ ev[w].pc = "loop"
          /\ ev' = [ev EXCEPT ![w].todo = @ \ {r}]
        BY <1>3 DEF Skip, Visits, ruleVars, messages, HasSent
    <2>2. LastIsLatched' /\ UndrawnSilent'
        BY <1>q, <1>f, <1>d, <2>1 DEF UndrawnSilent
    <2>3. /\ Only(w) /\ ev'[w].pc = "loop" /\ ev'[w].snap = ev[w].snap
          /\ ev'[w].todo \subseteq ev[w].todo
        BY <1>t, <2>1, VisitEffect
    <2>4. PassIsFresh(w)'
        BY <1>f, <2>1, <2>3 DEF PassIsFresh, PassSawLatch, SendIsNew, SentIsLast, HasSent
    <2> QED
        BY <1>d, <1>f, <1>o, <2>1, <2>2, <2>3, <2>4, OnceFromStep
<1>4. ASSUME NEW r \in Rules, Breach(w, r)
      PROVE  OnceInv'
    <2>1. /\ UNCHANGED <<present, row, lastSent, repeated>> /\ ~ HasSent(w)
          /\ ev[w].pc = "loop" /\ r \in ev[w].todo
          /\ ev[w].snap[r].firing # ev[w].snap[r].threshold
          /\ ev' = [ev EXCEPT ![w].pc = "send", ![w].cur = r, ![w].todo = @ \ {r}]
        BY <1>4 DEF Breach, Visits, ruleVars, messages, HasSent, Latched
    <2>2. LastIsLatched' /\ UndrawnSilent'
        BY <1>q, <1>f, <1>d, <2>1 DEF UndrawnSilent
    <2>3. /\ Only(w) /\ ev'[w].pc = "send" /\ ev'[w].cur = r /\ ev'[w].snap = ev[w].snap
          /\ ev'[w].todo \subseteq ev[w].todo
        <3>1. ev \in [Workers -> Evaluator]
            BY <1>t
        <3>2. ev' = [ev EXCEPT ![w].pc = "send", ![w].cur = r, ![w].todo = @ \ {r}]
            BY <2>1
        <3>3. ev'[w].todo = ev[w].todo \ {r}
            BY <3>1, <3>2, BreachEffect
        <3> QED
            BY <3>1, <3>2, <3>3, BreachEffect
    <2>4. lastSent[r] # ev[w].snap[r].threshold
        BY <1>c, <1>f, <1>n, <2>1 DEF PassSawLatch
    <2>5. PassIsFresh(w)'
        BY <1>f, <2>1, <2>3, <2>4 DEF PassIsFresh, PassSawLatch, SendIsNew, SentIsLast, HasSent, Copy
    <2> QED
        BY <1>d, <1>f, <1>o, <2>1, <2>2, <2>3, <2>5, OnceFromStep
<1>5. ASSUME NEW r \in Rules, ClearFiring(w, r)
      PROVE  OnceInv'
    <2>1. /\ ~ HasSent(w) /\ ev[w].pc = "loop" /\ repeated' = repeated
          /\ ev' = [ev EXCEPT ![w].todo = @ \ {r}]
          /\ Update(r, [row[r] EXCEPT !.firing = Nobody]) \/ UNCHANGED ruleVars
        BY <1>5 DEF ClearFiring, Visits, HasSent
    <2>2. /\ \A s \in Rules : lastSent'[s] = IF s = r THEN Nobody ELSE lastSent[s]
        BY <1>5, <1>t DEF ClearFiring, Forget
    <2>3. /\ Only(w) /\ ev'[w].pc = "loop" /\ ev'[w].snap = ev[w].snap
          /\ ev'[w].todo \subseteq ev[w].todo
        BY <1>t, <2>1, VisitEffect
    <2>4. present' = present /\ \A s \in present \ {r} : row'[s].firing = row[s].firing
        BY <1>t, <2>1, UpdateFiring
    <2>5. LastIsLatched' /\ UndrawnSilent'
        BY <1>t, <1>l, <1>f, <1>d, <2>1, <2>2, <2>4 DEF UndrawnSilent, LastIsLatched
    <2>6. PassIsFresh(w)'
        BY <1>t, <1>f, <2>1, <2>2, <2>3
           DEF PassIsFresh, PassSawLatch, SendIsNew, SentIsLast, HasSent
    <2> QED
        BY <1>d, <1>f, <1>o, <2>1, <2>3, <2>5, <2>6, OnceFromStep
<1>6. CASE Delivers(w)
    <2>1. /\ UNCHANGED <<present, row>> /\ InBreach(w) /\ ev[w].pc = "send"
          /\ Go(w, "clear") \/ Go(w, "failed")
        BY <1>6 DEF Delivers, Deliver, ruleVars, InBreach
    <2>2. ev[w].cur \in drawn /\ ev[w].cur \in Rules /\ ev[w].cur \notin ev[w].todo
        BY <1>t, <2>1
    <2>3. \A s \in Rules : lastSent'[s] = IF s = ev[w].cur THEN Copy(w).threshold ELSE lastSent[s]
        BY <1>6, <1>t DEF Delivers, Deliver
    <2>4. repeated' = {}
        BY <1>6, <1>f, <2>1 DEF Delivers, Deliver, SendIsNew
    <2>5. /\ Only(w) /\ ev'[w].pc \in {"clear", "failed"} /\ ev'[w].cur = ev[w].cur /\ Copy(w)' = Copy(w)
          /\ ev'[w].todo = ev[w].todo /\ ev'[w].snap = ev[w].snap /\ HasSent(w)'
        BY <1>g, <2>1 DEF Places
    <2>6. ~ HasSent(w)
        BY <2>1 DEF HasSent
    <2>7. LastIsLatched'
        BY <1>t, <1>l, <2>1, <2>3, <2>5, <2>6 DEF LastIsLatched
    <2>8. UndrawnSilent'
        BY <1>f, <1>d, <2>2, <2>3 DEF UndrawnSilent
    <2>9. PassIsFresh(w)'
        BY <1>t, <1>f, <2>1, <2>2, <2>3, <2>5 DEF PassIsFresh, PassSawLatch, SendIsNew, SentIsLast
    <2> QED
        BY <1>d, <1>o, <2>4, <2>5, <2>7, <2>8, <2>9, OnceFromStep
<1>7. CASE SendFails(w) \/ ClearDeliveryError(w)
    <2>1. InBreach(w) /\ UNCHANGED repeated
        BY <1>7 DEF SendFails, ClearDeliveryError, InBreach, messages
    <2>2. PICK b \in BOOLEAN : Update(ev[w].cur, [row[ev[w].cur] EXCEPT !.err = b])
                               \/ UNCHANGED ruleVars
        BY <1>7 DEF SendFails, ClearDeliveryError
    <2> DEFINE new == [row[ev[w].cur] EXCEPT !.err = b]
    <2>3. new.firing = row[ev[w].cur].firing
        BY <1>t, <2>1, RowWrites
    <2>4. present' = present /\ \A s \in present : row'[s].firing = row[s].firing
        <3> HIDE DEF new
        <3>1. ev[w].cur \in Rules /\ (Update(ev[w].cur, new) \/ UNCHANGED ruleVars)
            BY <1>t, <2>1, <2>2 DEF new
        <3> QED
            BY <1>t, <2>3, <3>1, UpdateFiring
    <2> HIDE DEF new
    <2>5. CASE \/ Go(w, "loop") /\ ev[w].pc = "send" /\ UNCHANGED lastSent
               \/ Go(w, "insert") /\ ev[w].pc = "clear" /\ UNCHANGED lastSent
        <3>1. /\ Only(w) /\ ev'[w].cur = ev[w].cur /\ Copy(w)' = Copy(w)
              /\ ev'[w].todo = ev[w].todo /\ ev'[w].snap = ev[w].snap
              /\ HasSent(w)' = HasSent(w)
              /\ ev'[w].pc \in {"loop", "insert"}
            BY <1>g, <2>5 DEF Places, HasSent
        <3>2. LastIsLatched' /\ UndrawnSilent'
            BY <1>l, <1>f, <1>d, <2>4, <2>5, <3>1 DEF UndrawnSilent, LastIsLatched
        <3>3. PassIsFresh(w)'
            BY <1>f, <2>5, <3>1 DEF PassIsFresh, PassSawLatch, SendIsNew, SentIsLast
        <3> QED
            BY <1>d, <1>f, <1>o, <2>1, <3>1, <3>2, <3>3, OnceFromStep
    \* The message was delivered, but the rule may send it again.
    <2>6. CASE Go(w, "loop") /\ ev[w].pc = "failed" /\ Forget(ev[w].cur)
        <3>1. /\ Only(w) /\ ev'[w].todo = ev[w].todo /\ ev'[w].snap = ev[w].snap
              /\ ev'[w].pc = "loop" /\ ~ HasSent(w)'
            BY <1>g, <2>6 DEF Places
        <3>2. /\ ev[w].cur \in Rules /\ ev[w].cur \notin ev[w].todo
              /\ \A s \in Rules : lastSent'[s] = IF s = ev[w].cur THEN Nobody ELSE lastSent[s]
            BY <1>t, <2>1, <2>6 DEF Forget
        <3>3. LastIsLatched' /\ UndrawnSilent'
            BY <1>t, <1>l, <1>f, <1>d, <2>4, <3>2 DEF UndrawnSilent, LastIsLatched
        <3>4. PassIsFresh(w)'
            BY <1>t, <1>f, <2>6, <3>1, <3>2
               DEF PassIsFresh, PassSawLatch, SendIsNew, SentIsLast
        <3> QED
            BY <1>d, <1>f, <1>o, <2>1, <3>1, <3>3, <3>4, OnceFromStep
    <2> QED
        BY <1>7, <2>5, <2>6 DEF SendFails, ClearDeliveryError, messages
<1>8. CASE RecordAlertNotification(w)
    <2>1. /\ UNCHANGED <<present, row, lastSent, repeated>> /\ HasSent(w) /\ ev[w].pc = "insert"
          /\ Go(w, "latch")
        BY <1>8 DEF RecordAlertNotification, ruleVars, HasSent
    <2>2. /\ Only(w) /\ ev'[w].pc = "latch" /\ ev'[w].cur = ev[w].cur /\ Copy(w)' = Copy(w)
          /\ ev'[w].todo = ev[w].todo /\ ev'[w].snap = ev[w].snap /\ HasSent(w)'
        BY <1>g, <2>1 DEF Places
    <2>3. LastIsLatched' /\ UndrawnSilent'
        BY <1>q, <1>f, <1>d, <2>1, <2>2 DEF UndrawnSilent
    <2>4. PassIsFresh(w)'
        BY <1>f, <2>1, <2>2 DEF PassIsFresh, PassSawLatch, SendIsNew, SentIsLast
    <2> QED
        BY <1>d, <1>f, <1>o, <2>1, <2>2, <2>3, <2>4, OnceFromStep
<1>9. CASE SetAlertRuleFiring(w)
    <2>1. HasSent(w) /\ InBreach(w) /\ ev[w].pc = "latch" /\ repeated' = repeated /\ Go(w, "loop")
        BY <1>9 DEF SetAlertRuleFiring, Latch, HasSent, InBreach
    <2>2. /\ Only(w) /\ ev'[w].pc = "loop" /\ ev'[w].cur = ev[w].cur
          /\ ev'[w].todo = ev[w].todo /\ ev'[w].snap = ev[w].snap /\ ~ HasSent(w)'
        BY <1>g, <2>1 DEF Places
    <2>3. /\ ev[w].cur \in Rules /\ ev[w].cur \notin ev[w].todo
          /\ Copy(w).threshold \in Thresholds
          /\ lastSent[ev[w].cur] = Copy(w).threshold
        BY <1>t, <1>c, <1>f, <2>1 DEF Copy, SentIsLast
    <2>4. CASE UpdateRow(ev[w].cur, [row[ev[w].cur] EXCEPT !.firing = Copy(w).threshold])
               /\ UNCHANGED lastSent
        <3>1. [row[ev[w].cur] EXCEPT !.firing = Copy(w).threshold].firing = Copy(w).threshold
            <4>1. row[ev[w].cur] \in Row
                BY <1>t, <2>3
            <4> QED
                BY <2>3, <4>1 DEF Row
        <3>2. /\ present' = present
              /\ \A s \in present : row'[s].firing = IF s = ev[w].cur THEN Copy(w).threshold
                                                     ELSE row[s].firing
            BY <1>t, <2>4, <3>1 DEF UpdateRow
        <3>3. LastIsLatched' /\ UndrawnSilent'
            BY <1>t, <1>l, <1>f, <1>d, <2>3, <2>4, <3>2 DEF UndrawnSilent, LastIsLatched
        <3>4. PassIsFresh(w)'
            BY <1>f, <2>1, <2>2, <2>4 DEF PassIsFresh, PassSawLatch, SendIsNew, SentIsLast
        <3> QED
            BY <1>d, <1>f, <1>o, <2>1, <2>2, <3>3, <3>4, OnceFromStep
    <2>5. CASE UNCHANGED ruleVars /\ Forget(ev[w].cur)
        <3>1. \A s \in Rules : lastSent'[s] = IF s = ev[w].cur THEN Nobody ELSE lastSent[s]
            BY <1>t, <2>5 DEF Forget
        <3>2. UNCHANGED <<present, row>>
            BY <2>5 DEF ruleVars
        <3>3. LastIsLatched' /\ UndrawnSilent'
            BY <1>t, <1>l, <1>f, <1>d, <3>1, <3>2 DEF UndrawnSilent, LastIsLatched
        <3>4. PassIsFresh(w)'
            BY <1>t, <1>f, <2>1, <2>2, <2>3, <3>1
               DEF PassIsFresh, PassSawLatch, SendIsNew, SentIsLast
        <3> QED
            BY <1>d, <1>f, <1>o, <2>1, <2>2, <3>3, <3>4, OnceFromStep
    <2> QED
        BY <1>9, <2>4, <2>5 DEF SetAlertRuleFiring, Latch
<1>10. CASE WorkerCrash(w)
    <2>1. Return(w, "out") /\ UNCHANGED <<present, row, repeated>>
        BY <1>10 DEF WorkerCrash, Crash, ruleVars
    <2>2. Only(w) /\ ev'[w].pc = "out"
        BY <1>t, <2>1, ReturnEffect DEF Places
    <2>3. \A s \in Rules : \/ lastSent'[s] = Nobody
                           \/ lastSent'[s] = lastSent[s] /\ ~ (HasSent(w) /\ ev[w].cur = s)
        BY <1>10, <1>t DEF WorkerCrash, Crash, Forget, HasSent
    <2>4. LastIsLatched' /\ UndrawnSilent'
        BY <1>t, <1>l, <1>f, <1>d, <2>1, <2>3 DEF UndrawnSilent, LastIsLatched
    <2>5. PassIsFresh(w)'
        BY <2>2 DEF PassIsFresh, PassSawLatch, SendIsNew, SentIsLast, HasSent
    <2> QED
        BY <1>d, <1>f, <1>o, <2>1, <2>2, <2>4, <2>5, OnceFromStep
<1> QED
    BY <1>1, <1>2, <1>3, <1>4, <1>5, <1>6, <1>7, <1>8, <1>9, <1>10
       DEF Evaluate, SendNotification, SendBreaks, Delivers

\* A handler or a metric that moves beside a pass.
LEMMA OnceWorld ==
    ASSUME OnceInv, LockInv', UNCHANGED <<ev, lastSent, repeated>>,
           HandlerStep \/ UNCHANGED <<present, drawn, row>>
    PROVE  OnceInv'
<1>1. /\ drawn \subseteq drawn'
      /\ \A r \in present' : \/ r \in present /\ row'[r].firing = row[r].firing
                             \/ r \in Rules \ drawn
    <2>1. RulesTypeOK /\ PatchOK /\ present \subseteq Rules
        BY DEF OnceInv, LockInv, TypeInv, TypeOK, RulesTypeOK
    <2>2. present' \subseteq Rules
        BY DEF LockInv, TypeInv, TypeOK, RulesTypeOK
    <2> QED
        BY <2>1, <2>2, HandlerType, HandlerRows DEF HandlerStep
<1>2. UndrawnSilent' /\ LastIsLatched'
    BY <1>1 DEF OnceInv, UndrawnSilent, LastIsLatched, HasSent
<1>3. \A w \in Workers : PassIsFresh(w)'
    BY DEF OnceInv, PassIsFresh, PassSawLatch, SendIsNew, SentIsLast, HasSent, Copy
<1> QED
    BY <1>2, <1>3 DEF OnceInv, OncePerBreach

\* A PATCH keeps the latch, and a rule that is new has sent nothing.
LEMMA OnceStep ==
    ASSUME "lockLost" \notin Disturbances
    PROVE  OnceInv /\ [Next]_vars => OnceInv'
<1> SUFFICES ASSUME OnceInv, [Next]_vars PROVE OnceInv'
    OBVIOUS
<1>1. LockInv'
    BY LockStep DEF OnceInv
<1>2. CASE \E w \in Workers : Evaluate(w) \/ WorkerCrash(w)
    BY <1>1, <1>2, OnceEvaluate
<1>3. CASE UNCHANGED <<ev, lastSent, repeated>> /\ (HandlerStep \/ UNCHANGED <<present, drawn, row>>)
    BY <1>1, <1>3, OnceWorld
<1> QED
    BY <1>2, <1>3 DEF Next, vars, ruleVars, messages, MetricMoves, LockLost, HandlerStep

\* README "a rule fires once per breach": for any number of workers, rules and
\* clients, no rule sends twice about one breach, unless between the first
\* message and the latch its worker died, Send reported an error for the message
\* it had delivered, or the UPDATE failed; and as long as no session breaks
\* under a living worker (evaluator.go:48-51, 142-219).
THEOREM OneMessagePerBreach ==
    ASSUME "lockLost" \notin Disturbances
    PROVE  Spec => []OncePerBreach
<1>1. OnceInv => OncePerBreach
    BY DEF OnceInv
<1>2. OnceInv /\ [Next]_vars => OnceInv'
    BY OnceStep
<1> QED
    BY <1>1, <1>2, OnceInit, PTL DEF Spec

-----------------------------------------------------------------------------
(* The rule handlers beside the evaluators *)

TableInv == TypeInv /\ LimitInv

\* A step of an evaluator changes no row that is counted, and no lock.
LEMMA TableStep == TableInv /\ [Next]_vars => TableInv'
<1> SUFFICES ASSUME TableInv, [Next]_vars PROVE TableInv'
    OBVIOUS
<1>1. TypeInv /\ TypeInv' /\ LimitInv
    BY TypeStep DEF TableInv
<1>2. ASSUME UNCHANGED <<present, tableLock, client>>
      PROVE  LimitInv'
    BY <1>1, <1>2 DEF LimitInv, HandlersOK, LockHasOwner, CountIsCurrent, RuleLimit
<1>3. CASE HandlerStep
    BY <1>1, <1>3, LimitStep DEF HandlerStep, TableInv
<1>4. ASSUME NEW w \in Workers, Evaluate(w) \/ WorkerCrash(w)
      PROVE  UNCHANGED <<present, tableLock, client>>
    <2>1. CASE HoldEvaluation(w) \/ WorkerCrash(w)
        BY <2>1 DEF HoldEvaluation, Hold, WorkerCrash, Crash, ruleVars
    <2>2. CASE Evaluate(w) /\ ~ HoldEvaluation(w)
        BY <1>1, <2>2, StaysInside
    <2> QED
        BY <1>4, <2>1, <2>2
<1>5. CASE ~ HandlerStep
    <2>1. UNCHANGED <<present, tableLock, client>>
        BY <1>4, <1>5 DEF Next, vars, ruleVars, MetricMoves, LockLost
    <2> QED
        BY <1>1, <1>2, <2>1 DEF TableInv
<1> QED
    BY <1>3, <1>5

\* The evaluators' UPDATEs and crashes beside the handlers cannot break the
\* limit of the rules or leave the table locked (store.go:564-591).
THEOREM LimitBesideEvaluators == Spec => [](RuleLimit /\ LockHasOwner)
<1>1. Init => TableInv
    BY TypeInit, LimitInit DEF Init, TableInv
<1>2. TableInv => RuleLimit /\ LockHasOwner
    BY DEF TableInv, LimitInv
<1> QED
    BY <1>1, <1>2, TableStep, PTL DEF Spec

-----------------------------------------------------------------------------
(* The promise of Alarm *)

InPass(w) == ev[w].pc \notin {"out", "list", "tick"}

MemoryOK ==
    /\ limits \in [Rules -> SUBSET (Thresholds \cup {Nobody})]
    /\ values \in [Rules -> SUBSET (Levels \cup {NoSamples})]
    /\ beat \in [Rules -> {0, 1}]
    /\ late \subseteq Rules

\* A rule that is free to speak remembers nothing; one that is not remembers
\* at least the limit and the value of now.
Remembered ==
    \A r \in Rules :
        /\ lastSent[r] = Nobody => limits[r] = {} /\ values[r] = {}
        /\ lastSent[r] # Nobody => metric[r] \in values[r]
        /\ lastSent[r] # Nobody /\ r \in present => Limit(row[r]) \in limits[r]

\* What a pass has read of the rules it has not visited is not older than
\* their last message, and no one else has written their latches.
PassRemembered(w) ==
    InPass(w) => \A r \in ev[w].todo : lastSent[r] # Nobody =>
        /\ Limit(ev[w].snap[r]) \in limits[r]
        /\ ev[w].pc # "measure" /\ ruleType[r] # "UNRESOLVED_TIME" =>
             ev[w].seen[r] \in values[r]

LatchSeen(w) ==
    InPass(w) =>
        \A r \in ev[w].todo \cap present : row[r].firing = ev[w].snap[r].firing

\* In the breach branch the rule does not show the threshold it breaches.
NotLatched(w) ==
    InBreach(w) /\ ev[w].cur \in present => row[ev[w].cur].firing # Copy(w).threshold

\* A rule that spoke after it was deleted is in no pass any more.
LateIsLast(w) ==
    InPass(w) => \A r \in late : r \notin ev[w].todo /\ (ev[w].pc = "send" => ev[w].cur # r)

PassKeeps(w) == PassRemembered(w) /\ LatchSeen(w) /\ NotLatched(w) /\ LateIsLast(w)

\* DELETE takes the notifications of its rule along, and the foreign key lets
\* none be recorded afterwards.
RecordIsOfRule == \A x \in notifications : x[1] \in present

PromiseInv ==
    /\ OnceInv
    /\ MemoryOK /\ Remembered /\ RecordIsOfRule
    /\ late \cap present = {} /\ late \subseteq drawn
    /\ \A w \in Workers : PassKeeps(w)

\* The memory only watches: with it the evaluators do nothing they would not do
\* without, so what is proved of Spec holds of HSpec, which the run checks.
LEMMA MemoryWatches == HSpec => Spec
<1>1. HInit => Init
    BY DEF HInit
<1>2. [Next /\ Remember]_hvars => [Next]_vars
    BY DEF hvars
<1> QED
    BY <1>1, <1>2, PTL DEF HSpec, Spec

\* At first no rule has spoken, and no worker is in a pass.
LEMMA PromiseInit == HInit => PromiseInv
<1> SUFFICES ASSUME HInit PROVE PromiseInv
    OBVIOUS
<1>1. OnceInv
    BY OnceInit DEF HInit
<1>2. MemoryOK /\ late = {}
    BY DEF HInit, MemoryOK
<1>3. Remembered /\ RecordIsOfRule
    BY DEF HInit, Init, Remembered, RecordIsOfRule
<1>4. \A w \in Workers : PassKeeps(w)
    BY DEF HInit, Init, Outside, PassKeeps, PassRemembered, LatchSeen, NotLatched,
           LateIsLast, InPass, InBreach
<1> QED
    BY <1>1, <1>2, <1>3, <1>4 DEF PromiseInv

\* The limit of a row is a threshold or none.
LEMMA LimitType == \A x \in Row : Limit(x) \in Thresholds \cup {Nobody}
BY DEF Row, Limit

\* What the memory is after a step, rule by rule.
LEMMA MemoryAfter ==
    ASSUME Remember, NEW r \in Rules
    PROVE  /\ lastSent'[r] = Nobody => limits'[r] = {} /\ values'[r] = {}
           /\ lastSent'[r] # Nobody => metric'[r] \in values'[r]
           /\ lastSent'[r] # Nobody /\ r \in present' => Limit(row'[r]) \in limits'[r]
           /\ lastSent'[r] = lastSent[r] /\ lastSent[r] # Nobody =>
                limits[r] \subseteq limits'[r] /\ values[r] \subseteq values'[r]
           /\ \A t \in limits'[r] : \/ t \in limits[r] /\ lastSent'[r] = lastSent[r]
                                    \/ r \in present' /\ t = Limit(row'[r])
           /\ \A v \in values'[r] : \/ v \in values[r] /\ lastSent'[r] = lastSent[r]
                                    \/ v = metric'[r]
<1>1. /\ limits'[r] = Met(r, limits[r], {Limit(row'[s]) : s \in {r} \cap present'})
      /\ values'[r] = Met(r, values[r], {metric'[r]})
    BY DEF Remember
<1>2. \A t : t \in {Limit(row'[s]) : s \in {r} \cap present'}
               <=> r \in present' /\ t = Limit(row'[r])
    OBVIOUS
<1> QED
    BY <1>1, <1>2 DEF Met

\* The memory has its type and holds what is there now, after any step.
LEMMA MemoryStep ==
    ASSUME PromiseInv, TypeInv', Remember
    PROVE  MemoryOK' /\ Remembered'
<1>t. /\ row' \in [Rules -> Row] /\ metric' \in [Rules -> Levels \cup {NoSamples}]
      /\ limits \in [Rules -> SUBSET (Thresholds \cup {Nobody})]
      /\ values \in [Rules -> SUBSET (Levels \cup {NoSamples})]
      /\ beat \in [Rules -> {0, 1}] /\ late \subseteq Rules
    BY DEF TypeInv, TypeOK, RulesTypeOK, PromiseInv, MemoryOK
<1>1. Remembered'
    BY MemoryAfter DEF Remembered
<1>2. ASSUME NEW r \in Rules
      PROVE  /\ limits'[r] \in SUBSET (Thresholds \cup {Nobody})
             /\ values'[r] \in SUBSET (Levels \cup {NoSamples})
    BY <1>t, MemoryAfter, LimitType
<1>3. /\ limits' \in [Rules -> SUBSET (Thresholds \cup {Nobody})]
      /\ values' \in [Rules -> SUBSET (Levels \cup {NoSamples})]
    <2>1. limits' = [r \in Rules |-> limits'[r]] /\ values' = [r \in Rules |-> values'[r]]
        BY DEF Remember
    <2> QED
        BY <1>2, <2>1
<1>4. beat' \in [Rules -> {0, 1}] /\ late' \subseteq Rules
    BY <1>t DEF Remember
<1> QED
    BY <1>1, <1>3, <1>4 DEF MemoryOK

\* A rule that has neither spoken nor forgotten, and has met nothing new,
\* remembers what it did.
LEMMA MemoryKept ==
    ASSUME PromiseInv, Remember, NEW r \in Rules,
           UNCHANGED ruleType, lastSent'[r] = lastSent[r],
           \/ lastSent[r] = Nobody
           \/ /\ metric'[r] = metric[r]
              /\ r \in present' => r \in present /\ Limit(row'[r]) = Limit(row[r])
    PROVE  r \in Calm' <=> r \in Calm
<1>1. limits'[r] = limits[r] /\ values'[r] = values[r]
    <2>1. CASE lastSent[r] = Nobody
        BY <2>1, MemoryAfter DEF PromiseInv, Remembered
    <2>2. CASE lastSent[r] # Nobody
        <3>1. metric[r] \in values[r] /\ (r \in present => Limit(row[r]) \in limits[r])
            BY <2>2 DEF PromiseInv, Remembered
        <3>2. \A t : t \in limits'[r] <=> t \in limits[r]
            BY <2>2, <3>1, MemoryAfter
        <3>3. \A v : v \in values'[r] <=> v \in values[r]
            BY <2>2, <3>1, MemoryAfter
        <3> QED
            BY <3>2, <3>3
    <2> QED
        BY <2>1, <2>2
<1>2. \A t, v : Quiet(r, t, v)' <=> Quiet(r, t, v)
    BY DEF Quiet, isBreached
<1> QED
    BY <1>1, <1>2 DEF Calm

-----------------------------------------------------------------------------
(* The steps of a worker *)

\* firing_threshold and delivery_error do not change the limit of a row.
LEMMA WritesKeepLimit ==
    ASSUME NEW x \in Row
    PROVE  /\ \A t : Limit([x EXCEPT !.firing = t]) = Limit(x)
           /\ \A b : Limit([x EXCEPT !.err = b]) = Limit(x)
BY DEF Row, Limit

\* An UPDATE of the evaluator keeps every limit.
LEMMA UpdateLimit ==
    ASSUME RulesTypeOK, NEW r \in Rules, NEW new, Limit(new) = Limit(row[r]),
           Update(r, new) \/ UNCHANGED ruleVars
    PROVE  \A s \in Rules : Limit(row'[s]) = Limit(row[s])
<1>1. CASE row' = row
    BY <1>1
<1>2. CASE row' = [row EXCEPT ![r] = new]
    <2>1. \A s \in Rules : row'[s] = IF s = r THEN new ELSE row[s]
        BY <1>2 DEF RulesTypeOK
    <2> QED
        BY <2>1
<1> QED
    BY <1>1, <1>2, UpdateEffect

\* A step of worker w: the others are outside, and of the rows only latches
\* and delivery errors are written.
LEMMA WorkerBase ==
    ASSUME PromiseInv, NEW w \in Workers, Evaluate(w) \/ WorkerCrash(w)
    PROVE  /\ Only(w) /\ \A v \in Workers \ {w} : ev[v].pc = "out"
           /\ UNCHANGED <<present, drawn, ruleType, metric>>
           /\ \A s \in Rules : Limit(row'[s]) = Limit(row[s])
<1>t. /\ TypeInv /\ RulesTypeOK /\ row \in [Rules -> Row]
      /\ ev \in [Workers -> Evaluator] /\ (InBreach(w) => ev[w].cur \in Rules)
    BY DEF PromiseInv, OnceInv, LockInv, TypeInv, TypeOK, RulesTypeOK, PassOK
<1>1. Only(w) /\ \A v \in Workers \ {w} : ev[v].pc = "out"
    <2>1. LockIsEvaluators
        BY DEF PromiseInv, OnceInv, LockInv
    <2>2. CASE HoldEvaluation(w)
        <3>1. Only(w)
            BY <1>t, <2>2, GoEffect DEF HoldEvaluation, Hold, Places
        <3> QED
            BY <2>1, <2>2, <3>1, EvaluatorAssumption DEF HoldEvaluation, Hold, LockIsEvaluators
    <2>3. CASE ~ HoldEvaluation(w)
        BY <1>t, <2>1, <2>3, StaysInside, CrashLetsGo DEF LockIsEvaluators
    <2> QED
        BY <2>2, <2>3
<1>2. UNCHANGED <<present, drawn, ruleType, metric>>
    <2>1. CASE HoldEvaluation(w) \/ WorkerCrash(w)
        BY <2>1 DEF HoldEvaluation, Hold, WorkerCrash, Crash, ruleVars
    <2>2. CASE Evaluate(w) /\ ~ HoldEvaluation(w)
        BY <1>t, <2>2, StaysInside DEF world
    <2> QED
        BY <2>1, <2>2
<1>3. \A s \in Rules : Limit(row'[s]) = Limit(row[s])
    <2>1. ASSUME UNCHANGED ruleVars PROVE \A s \in Rules : Limit(row'[s]) = Limit(row[s])
        BY <2>1 DEF ruleVars
    <2>2. ASSUME NEW r \in Rules, ClearFiring(w, r)
          PROVE  \A s \in Rules : Limit(row'[s]) = Limit(row[s])
        <3>1. Update(r, [row[r] EXCEPT !.firing = Nobody]) \/ UNCHANGED ruleVars
            BY <2>2 DEF ClearFiring
        <3>2. Limit([row[r] EXCEPT !.firing = Nobody]) = Limit(row[r])
            BY <1>t, WritesKeepLimit
        <3> QED
            BY <1>t, <3>1, <3>2, UpdateLimit
    <2>3. CASE SendFails(w) \/ ClearDeliveryError(w)
        <3>1. ev[w].cur \in Rules
            BY <1>t, <2>3 DEF SendFails, ClearDeliveryError, InBreach
        <3>2. PICK b \in BOOLEAN : Update(ev[w].cur, [row[ev[w].cur] EXCEPT !.err = b])
                                   \/ UNCHANGED ruleVars
            BY <2>3 DEF SendFails, ClearDeliveryError
        <3>3. Limit([row[ev[w].cur] EXCEPT !.err = b]) = Limit(row[ev[w].cur])
            BY <1>t, <3>1, WritesKeepLimit
        <3> QED
            BY <1>t, <3>1, <3>2, <3>3, UpdateLimit
    <2>4. CASE SetAlertRuleFiring(w)
        <3>1. ev[w].cur \in Rules
            BY <1>t, <2>4 DEF SetAlertRuleFiring, Latch, InBreach
        <3>2. Update(ev[w].cur, [row[ev[w].cur] EXCEPT !.firing = Copy(w).threshold])
              \/ UNCHANGED ruleVars
            BY <2>4 DEF SetAlertRuleFiring, Latch, Update
        <3>3. Limit([row[ev[w].cur] EXCEPT !.firing = Copy(w).threshold]) = Limit(row[ev[w].cur])
            BY <1>t, <3>1, WritesKeepLimit
        <3> QED
            BY <1>t, <3>1, <3>2, <3>3, UpdateLimit
    <2>5. CASE \/ HoldEvaluation(w) \/ Tick(w) \/ ListAlertRules(w) \/ GetPlatformMetrics(w)
               \/ (\E r \in Rules : Skip(w, r) \/ Breach(w, r)) \/ EndPass(w)
               \/ Delivers(w) \/ RecordAlertNotification(w) \/ WorkerCrash(w)
        <3>1. UNCHANGED ruleVars
            BY <2>5 DEF HoldEvaluation, Hold, Tick, ListAlertRules, GetPlatformMetrics, Skip,
                        Breach, EndPass, Delivers, Deliver, RecordAlertNotification,
                        WorkerCrash, Crash
        <3> QED
            BY <2>1, <3>1
    <2> QED
        BY <2>2, <2>3, <2>4, <2>5
       DEF Evaluate, SendNotification, SendBreaks, Delivers
<1> QED
    BY <1>1, <1>2, <1>3

Speaks(w) == ev[w].pc = "send" /\ ev'[w].pc \in {"clear", "failed"}

\* Only a worker that sends changes the parity, or speaks for a deleted rule.
LEMMA WhoSends ==
    ASSUME MemoryOK, Remember, NEW w \in Workers, Only(w),
           \A v \in Workers \ {w} : ev[v].pc = "out"
    PROVE  /\ \A r : Sends(r) <=> Speaks(w) /\ ev[w].cur = r
           /\ ~ Speaks(w) => UNCHANGED <<beat, late>>
<1>1. \A r : Sends(r) <=> Speaks(w) /\ ev[w].cur = r
    BY DEF Sends, Speaks
<1>2. ASSUME ~ Speaks(w)
      PROVE  UNCHANGED <<beat, late>>
    <2>1. \A r : ~ Sends(r)
        BY <1>1, <1>2
    <2>2. beat' = [r \in Rules |-> beat[r]]
        BY <2>1 DEF Remember
    <2>3. late' = late
        BY <2>1 DEF Remember
    <2> QED
        BY <2>2, <2>3 DEF MemoryOK
<1> QED
    BY <1>1, <1>2

\* Only w's pass matters to a step of worker w.
LEMMA PromiseFromStep ==
    ASSUME PromiseInv, OnceInv', Remember, NEW w \in Workers, Only(w),
           \A v \in Workers \ {w} : ev[v].pc = "out", UNCHANGED <<present, drawn>>,
           PassKeeps(w)', RecordIsOfRule'
    PROVE  PromiseInv'
<1>1. MemoryOK' /\ Remembered'
    BY MemoryStep DEF OnceInv, LockInv
<1>2. late' \cap present' = {} /\ late' \subseteq drawn'
    <2>1. ASSUME NEW r, Sends(r) PROVE r \in drawn
        BY <2>1 DEF Sends, PromiseInv, OnceInv, LockInv, TypeInv, PassOK, InBreach
    <2> QED
        BY <2>1 DEF PromiseInv, Remember
<1>3. ASSUME NEW v \in Workers PROVE PassKeeps(v)'
    <2>1. CASE v = w
        BY <2>1
    <2>2. CASE v # w
        BY <2>2 DEF Only, PassKeeps, PassRemembered, LatchSeen, NotLatched, LateIsLast,
                    InPass, InBreach
    <2> QED
        BY <2>1, <2>2
<1> QED
    BY <1>1, <1>2, <1>3 DEF PromiseInv

\* A pass that goes on remembers what it has read, and what it has read is
\* still true of the rules it has not visited.
LEMMA PassGoesOn ==
    ASSUME PromiseInv, Remember, NEW w \in Workers, InPass(w), TypeInv,
           ev[w].pc # "measure", ev'[w].pc # "measure",
           ev'[w].snap = ev[w].snap, ev'[w].seen = ev[w].seen,
           ev'[w].todo \subseteq ev[w].todo, UNCHANGED <<present, ruleType>>,
           \A s \in ev'[w].todo : /\ lastSent'[s] = lastSent[s]
                                  /\ s \in present => row'[s].firing = row[s].firing
    PROVE  PassRemembered(w)' /\ LatchSeen(w)'
<1>1. \A s \in ev'[w].todo : s \in Rules
    BY DEF TypeInv, PassOK, TypeOK, RulesTypeOK
<1>2. PassRemembered(w) /\ LatchSeen(w)
    BY DEF PromiseInv, PassKeeps
<1>3. PassRemembered(w)'
    <2> SUFFICES ASSUME NEW s \in ev'[w].todo, lastSent'[s] # Nobody
                 PROVE  /\ Limit(ev'[w].snap[s]) \in limits'[s]
                        /\ ruleType[s] # "UNRESOLVED_TIME" => ev'[w].seen[s] \in values'[s]
        BY DEF PassRemembered
    <2>1. /\ Limit(ev[w].snap[s]) \in limits[s]
          /\ ruleType[s] # "UNRESOLVED_TIME" => ev[w].seen[s] \in values[s]
        BY <1>2 DEF PassRemembered
    <2>2. limits[s] \subseteq limits'[s] /\ values[s] \subseteq values'[s]
        BY <1>1, MemoryAfter
    <2> QED
        BY <2>1, <2>2
<1>4. LatchSeen(w)'
    BY <1>2 DEF LatchSeen
<1> QED
    BY <1>3, <1>4

\* What a step of worker w does to the latches: only clearFiring and
\* SetAlertRuleFiring write one, that of the rule they are about.
LEMMA WorkerLatches ==
    ASSUME PromiseInv, NEW w \in Workers
    PROVE  /\ SendFails(w) \/ ClearDeliveryError(w) =>
                \A s \in present : row'[s].firing = row[s].firing
           /\ \A r \in Rules : ClearFiring(w, r) =>
                \A s \in present : \/ row'[s].firing = row[s].firing
                                   \/ s = r /\ row'[s].firing = Nobody
           /\ SetAlertRuleFiring(w) =>
                \A s \in present \ {ev[w].cur} : row'[s].firing = row[s].firing
<1>t. /\ TypeInv /\ RulesTypeOK /\ row \in [Rules -> Row] /\ ev \in [Workers -> Evaluator]
      /\ (InBreach(w) => ev[w].cur \in Rules)
    BY DEF PromiseInv, OnceInv, LockInv, TypeInv, TypeOK, RulesTypeOK, PassOK
<1>1. ASSUME SendFails(w) \/ ClearDeliveryError(w)
      PROVE  \A s \in present : row'[s].firing = row[s].firing
    <2>1. ev[w].cur \in Rules
        BY <1>t, <1>1 DEF SendFails, ClearDeliveryError, InBreach
    <2>2. PICK b \in BOOLEAN : Update(ev[w].cur, [row[ev[w].cur] EXCEPT !.err = b])
                               \/ UNCHANGED ruleVars
        BY <1>1 DEF SendFails, ClearDeliveryError
    <2>3. [row[ev[w].cur] EXCEPT !.err = b].firing = row[ev[w].cur].firing
        BY <1>t, <2>1, RowWrites
    <2> DEFINE new == [row[ev[w].cur] EXCEPT !.err = b]
    <2>4. Update(ev[w].cur, new) \/ UNCHANGED ruleVars
        BY <2>2
    <2>5. new.firing = row[ev[w].cur].firing
        BY <2>3
    <2> HIDE DEF new
    <2> QED
        BY <1>t, <2>1, <2>4, <2>5, UpdateFiring
<1>2. ASSUME NEW r \in Rules, ClearFiring(w, r)
      PROVE  \A s \in present : \/ row'[s].firing = row[s].firing
                                \/ s = r /\ row'[s].firing = Nobody
    <2> DEFINE new == [row[r] EXCEPT !.firing = Nobody]
    <2>1. Update(r, new) \/ UNCHANGED ruleVars
        BY <1>2 DEF ClearFiring
    <2>2. new.firing = Nobody
        BY <1>t, RowWrites
    <2> HIDE DEF new
    <2> QED
        BY <1>t, <2>1, <2>2, UpdateFiring
<1>3. ASSUME SetAlertRuleFiring(w)
      PROVE  \A s \in present \ {ev[w].cur} : row'[s].firing = row[s].firing
    <2> DEFINE new == [row[ev[w].cur] EXCEPT !.firing = Copy(w).threshold]
    <2>1. ev[w].cur \in Rules /\ (Update(ev[w].cur, new) \/ UNCHANGED ruleVars)
        BY <1>t, <1>3 DEF SetAlertRuleFiring, Latch, InBreach, Update
    <2> HIDE DEF new
    <2> QED
        BY <1>t, <2>1, UpdateFiring
<1> QED
    BY <1>1, <1>2, <1>3

\* A worker records a notification only of a rule that is there.
LEMMA WorkerRecords ==
    ASSUME RecordIsOfRule, NEW w \in Workers, Evaluate(w) \/ WorkerCrash(w), present' = present
    PROVE  RecordIsOfRule'
<1>1. CASE UNCHANGED notifications
    BY <1>1 DEF RecordIsOfRule
<1>2. CASE RecordAlertNotification(w)
    BY <1>1, <1>2 DEF RecordAlertNotification, RecordIsOfRule, Message
<1>3. CASE ~ RecordAlertNotification(w)
    <2>1. UNCHANGED notifications
        BY <1>3 DEF Evaluate, HoldEvaluation, Hold, Tick, ListAlertRules, GetPlatformMetrics,
                    ClearFiring, Skip, Breach, EndPass, SendNotification, SendBreaks, Deliver, SendFails,
                    ClearDeliveryError, SetAlertRuleFiring, Latch, WorkerCrash, Crash, messages
    <2> QED
        BY <1>1, <2>1
<1> QED
    BY <1>2, <1>3

\* The memory keeps up with the steps of a worker.
LEMMA PromiseEvaluate ==
    ASSUME PromiseInv, OnceInv', Remember, NEW w \in Workers, Evaluate(w) \/ WorkerCrash(w)
    PROVE  PromiseInv'
<1>b. /\ Only(w) /\ \A v \in Workers \ {w} : ev[v].pc = "out"
      /\ UNCHANGED <<present, drawn, ruleType, metric>>
    BY WorkerBase
<1>t. /\ TypeInv /\ ev \in [Workers -> Evaluator] /\ ev[w].todo \subseteq Rules
      /\ (InBreach(w) => ev[w].cur \in Rules /\ ev[w].cur \notin ev[w].todo)
      /\ lastSent \in [Rules -> Thresholds \cup {Nobody}]
    BY DEF PromiseInv, OnceInv, LockInv, TypeInv, TypeOK, RulesTypeOK, PassOK
<1>k. /\ PassRemembered(w) /\ LatchSeen(w) /\ NotLatched(w) /\ LateIsLast(w)
      /\ Remembered /\ late \cap present = {}
    BY DEF PromiseInv, PassKeeps
<1>l. ~ Speaks(w) => late' = late
    BY <1>b, WhoSends DEF PromiseInv
<1>q. ASSUME PassKeeps(w)' PROVE PromiseInv'
    <2>1. RecordIsOfRule
        BY DEF PromiseInv
    <2> QED
        BY <1>b, <1>q, <2>1, WorkerRecords, PromiseFromStep
<1>o. ASSUME ev'[w].pc \in {"out", "list", "tick"} PROVE PromiseInv'
    BY <1>o, <1>q DEF PassKeeps, PassRemembered, LatchSeen, NotLatched, LateIsLast, InPass, InBreach
<1>g. ASSUME NEW pc \in Places, Go(w, pc)
      PROVE  /\ ev'[w].pc = pc /\ ev'[w].cur = ev[w].cur /\ ev'[w].seen = ev[w].seen
             /\ ev'[w].todo = ev[w].todo /\ ev'[w].snap = ev[w].snap /\ Copy(w)' = Copy(w)
    BY <1>g, <1>t, GoEffect DEF Copy
<1>1. CASE HoldEvaluation(w) \/ Tick(w)
    <2>1. Go(w, "list")
        BY <1>1 DEF HoldEvaluation, Hold, Tick
    <2> QED
        BY <1>g, <1>o, <2>1 DEF Places
<1>2. CASE Return(w, "tick") \/ WorkerCrash(w)
    <2>1. Return(w, "tick") \/ Return(w, "out")
        BY <1>2 DEF WorkerCrash, Crash
    <2>2. ev'[w].pc \in {"tick", "out"}
        BY <1>t, <2>1, ReturnEffect DEF Places
    <2> QED
        BY <1>o, <2>2
<1>3. ASSUME ev' = [ev EXCEPT ![w].pc = "measure", ![w].snap = row, ![w].todo = present],
             ListAlertRules(w)
      PROVE  PromiseInv'
    <2>1. ev'[w].pc = "measure" /\ ev'[w].snap = row /\ ev'[w].todo = present
        BY <1>t, <1>3 DEF Evaluator
    <2>2. UNCHANGED <<row, lastSent>> /\ late' = late
        BY <1>l, <1>3, <2>1 DEF ListAlertRules, ruleVars, messages, Speaks
    <2>3. PassRemembered(w)'
        <3> SUFFICES ASSUME NEW s \in present, lastSent'[s] # Nobody
                     PROVE  Limit(row[s]) \in limits'[s]
            BY <2>1 DEF PassRemembered
        <3>1. s \in Rules
            BY <1>t DEF TypeInv, TypeOK, RulesTypeOK
        <3> QED
            BY <1>b, <2>2, <3>1, MemoryAfter
    <2>4. LatchSeen(w)' /\ NotLatched(w)' /\ LateIsLast(w)'
        BY <1>b, <1>k, <2>1, <2>2 DEF LatchSeen, NotLatched, LateIsLast, InBreach
    <2> QED
        BY <1>q, <2>3, <2>4 DEF PassKeeps
<1>4. ASSUME ev' = [ev EXCEPT ![w].pc = "loop", ![w].seen = PlatformMetrics],
             GetPlatformMetrics(w)
      PROVE  PromiseInv'
    <2>1. /\ ev'[w].pc = "loop" /\ ev'[w].seen = PlatformMetrics
          /\ ev'[w].snap = ev[w].snap /\ ev'[w].todo = ev[w].todo
        BY <1>t, <1>4 DEF Evaluator
    <2>2. UNCHANGED <<row, lastSent>> /\ late' = late /\ InPass(w)
        BY <1>l, <1>4, <2>1 DEF GetPlatformMetrics, ruleVars, messages, InPass, Speaks
    <2>3. PassRemembered(w)'
        <3> SUFFICES ASSUME NEW s \in ev[w].todo, lastSent'[s] # Nobody
                     PROVE  Limit(ev[w].snap[s]) \in limits'[s] /\ metric[s] \in values'[s]
            BY <1>b, <1>t, <2>1 DEF PassRemembered, PlatformMetrics
        <3>1. s \in Rules /\ Limit(ev[w].snap[s]) \in limits[s]
            BY <1>t, <1>k, <2>2 DEF PassRemembered
        <3> QED
            BY <1>b, <2>2, <3>1, MemoryAfter
    <2>4. LatchSeen(w)' /\ NotLatched(w)' /\ LateIsLast(w)'
        BY <1>b, <1>k, <2>1, <2>2 DEF LatchSeen, NotLatched, LateIsLast, InBreach
    <2> QED
        BY <1>q, <2>3, <2>4 DEF PassKeeps
<1>5. ASSUME NEW r \in Rules, Skip(w, r) \/ ClearFiring(w, r)
      PROVE  PromiseInv'
    <2>1. ev[w].pc = "loop" /\ InPass(w) /\ ev' = [ev EXCEPT ![w].todo = @ \ {r}]
        BY <1>5 DEF Skip, ClearFiring, Visits, InPass
    <2>2. /\ ev'[w].pc = "loop" /\ ev'[w].snap = ev[w].snap /\ ev'[w].seen = ev[w].seen
          /\ ev'[w].todo = ev[w].todo \ {r}
        BY <1>t, <2>1, VisitEffect
    <2>3. \A s \in Rules \ {r} : /\ lastSent'[s] = lastSent[s]
                                 /\ s \in present => row'[s].firing = row[s].firing
        <3>1. CASE Skip(w, r)
            BY <3>1 DEF Skip, ruleVars, messages
        <3>2. CASE ClearFiring(w, r)
            <4>1. \A s \in Rules \ {r} : lastSent'[s] = lastSent[s]
                BY <1>t, <3>2 DEF ClearFiring, Forget
            <4> QED
                BY <3>2, <4>1, WorkerLatches
        <3> QED
            BY <1>5, <3>1, <3>2
    <2>4. \A s \in ev'[w].todo : s \in Rules \ {r}
        BY <1>t, <2>2
    <2>5. PassRemembered(w)' /\ LatchSeen(w)'
        BY <1>b, <1>t, <2>1, <2>2, <2>3, <2>4, PassGoesOn
    <2>6. NotLatched(w)' /\ LateIsLast(w)'
        BY <1>k, <1>l, <2>1, <2>2 DEF NotLatched, LateIsLast, InBreach, Speaks
    <2> QED
        BY <1>q, <2>5, <2>6 DEF PassKeeps
<1>6. ASSUME NEW r \in Rules, Breach(w, r)
      PROVE  PromiseInv'
    <2>1. /\ ev[w].pc = "loop" /\ InPass(w) /\ r \in ev[w].todo
          /\ ev[w].snap[r].firing # ev[w].snap[r].threshold
          /\ ev' = [ev EXCEPT ![w].pc = "send", ![w].cur = r, ![w].todo = @ \ {r}]
          /\ UNCHANGED <<row, lastSent>>
        BY <1>6 DEF Breach, Visits, Latched, ruleVars, messages, InPass
    <2>2. ev' = [ev EXCEPT ![w].pc = "send", ![w].cur = r, ![w].todo = @ \ {r}]
        BY <2>1
    <2>3. /\ ev'[w].pc = "send" /\ ev'[w].cur = r /\ ev'[w].snap = ev[w].snap
          /\ ev'[w].seen = ev[w].seen /\ ev'[w].todo = ev[w].todo \ {r}
        BY <1>t, <2>2, BreachEffect
    <2>4. PassRemembered(w)' /\ LatchSeen(w)'
        BY <1>b, <1>t, <2>1, <2>3, PassGoesOn
    <2>5. NotLatched(w)'
        BY <1>b, <1>k, <2>1, <2>3 DEF NotLatched, LatchSeen, Copy
    <2>6. LateIsLast(w)'
        BY <1>k, <1>l, <2>1, <2>3 DEF LateIsLast, Speaks
    <2> QED
        BY <1>q, <2>4, <2>5, <2>6 DEF PassKeeps
\* The breach branch up to the latch.
<1>7. ASSUME Delivers(w) \/ ClearDeliveryError(w) \/ RecordAlertNotification(w)
             \/ SendFails(w)
      PROVE  PromiseInv'
    <2>1. PICK pc \in {"failed", "clear", "insert", "latch", "loop"} : Go(w, pc)
        BY <1>7 DEF Delivers, Deliver, ClearDeliveryError, RecordAlertNotification, SendFails
    <2>2. /\ ev'[w].pc = pc /\ ev'[w].cur = ev[w].cur /\ ev'[w].seen = ev[w].seen
          /\ ev'[w].todo = ev[w].todo /\ ev'[w].snap = ev[w].snap /\ Copy(w)' = Copy(w)
        BY <1>g, <2>1 DEF Places
    <2>3. InBreach(w) /\ InPass(w) /\ ev[w].pc # "measure"
        BY <1>7 DEF Delivers, Deliver, ClearDeliveryError, RecordAlertNotification, SendFails,
                    InBreach, InPass
    <2>4. \A s \in Rules \ {ev[w].cur} : lastSent'[s] = lastSent[s]
        BY <1>7, <1>t DEF Delivers, Deliver, ClearDeliveryError, RecordAlertNotification,
                          SendFails, Forget, messages
    <2>5. \A s \in present : row'[s].firing = row[s].firing
        <3>1. CASE Delivers(w) \/ RecordAlertNotification(w)
            BY <3>1 DEF Delivers, Deliver, RecordAlertNotification, ruleVars
        <3> QED
            BY <1>7, <3>1, WorkerLatches
    <2>6. PassRemembered(w)' /\ LatchSeen(w)'
        BY <1>b, <1>t, <2>2, <2>3, <2>4, <2>5, PassGoesOn
    <2>7. NotLatched(w)'
        BY <1>b, <1>k, <2>2, <2>3, <2>5 DEF NotLatched
    <2>8. LateIsLast(w)'
        <3>1. \A r \in late' : r \in late \/ r = ev[w].cur
            BY <1>b, WhoSends DEF Remember, PromiseInv
        <3> QED
            BY <1>t, <1>k, <2>2, <2>3, <3>1 DEF LateIsLast
    <2> QED
        BY <1>q, <2>6, <2>7, <2>8 DEF PassKeeps
<1>8. ASSUME SetAlertRuleFiring(w)
      PROVE  PromiseInv'
    <2>1. Go(w, "loop") /\ InBreach(w) /\ InPass(w) /\ ev[w].pc = "latch"
        BY <1>8 DEF SetAlertRuleFiring, Latch, InBreach, InPass
    <2>2. /\ ev'[w].pc = "loop" /\ ev'[w].cur = ev[w].cur /\ ev'[w].seen = ev[w].seen
          /\ ev'[w].todo = ev[w].todo /\ ev'[w].snap = ev[w].snap
        BY <1>g, <2>1 DEF Places
    <2>3. \A s \in Rules \ {ev[w].cur} : lastSent'[s] = lastSent[s]
        BY <1>8, <1>t DEF SetAlertRuleFiring, Latch, Forget
    <2>4. PassRemembered(w)' /\ LatchSeen(w)'
        BY <1>b, <1>t, <1>8, <2>1, <2>2, <2>3, WorkerLatches, PassGoesOn
    <2>5. NotLatched(w)' /\ LateIsLast(w)'
        BY <1>k, <1>l, <2>1, <2>2 DEF NotLatched, LateIsLast, InBreach, Speaks
    <2> QED
        BY <1>q, <2>4, <2>5 DEF PassKeeps
<1> QED
    BY <1>1, <1>2, <1>3, <1>4, <1>5, <1>6, <1>7, <1>8
       DEF Evaluate, ListAlertRules, GetPlatformMetrics, EndPass, SendNotification,
           SendBreaks, Delivers

\* A handler or a metric that moves beside a pass adds to the memory, and
\* writes no latch of a rule that a pass has read.
LEMMA PromiseWorld ==
    ASSUME PromiseInv, OnceInv', Remember, UNCHANGED <<ev, lastSent, ruleType>>,
           HandlerStep \/ UNCHANGED <<present, drawn, row, notifications>>
    PROVE  PromiseInv'
<1>t. TypeInv /\ RulesTypeOK /\ PatchOK /\ drawn \subseteq Rules
    BY DEF PromiseInv, OnceInv, LockInv, TypeInv, TypeOK, RulesTypeOK
<1>1. /\ drawn \subseteq drawn'
      /\ \A r \in present' : \/ r \in present /\ row'[r].firing = row[r].firing
                             \/ r \notin drawn
    BY <1>t, HandlerType, HandlerRows DEF HandlerStep
<1>2. MemoryOK' /\ Remembered'
    BY MemoryStep DEF OnceInv, LockInv
<1>3. late' = late /\ RecordIsOfRule'
    BY DEF Remember, Sends, HandlerStep, PromiseInv, RecordIsOfRule
<1>4. late' \cap present' = {} /\ late' \subseteq drawn'
    BY <1>1, <1>3 DEF PromiseInv
<1>5. ASSUME NEW w \in Workers PROVE PassKeeps(w)'
    <2>1. /\ PassRemembered(w) /\ LatchSeen(w) /\ NotLatched(w) /\ LateIsLast(w)
          /\ ev[w].todo \subseteq drawn /\ (InBreach(w) => ev[w].cur \in drawn)
        BY <1>t DEF PromiseInv, PassKeeps, TypeInv, PassOK
    <2>2. PassRemembered(w)'
        <3> SUFFICES ASSUME InPass(w), NEW r \in ev[w].todo, lastSent[r] # Nobody
                     PROVE  /\ Limit(ev[w].snap[r]) \in limits'[r]
                            /\ ev[w].pc # "measure" /\ ruleType[r] # "UNRESOLVED_TIME" =>
                                 ev[w].seen[r] \in values'[r]
            BY DEF PassRemembered, InPass
        <3>1. limits[r] \subseteq limits'[r] /\ values[r] \subseteq values'[r]
            BY <1>t, <2>1, MemoryAfter
        <3> QED
            BY <2>1, <3>1 DEF PassRemembered
    <2>3. LatchSeen(w)' /\ NotLatched(w)'
        BY <1>1, <2>1 DEF LatchSeen, NotLatched, InPass, InBreach, Copy
    <2>4. LateIsLast(w)'
        BY <1>3, <2>1 DEF LateIsLast, InPass
    <2> QED
        BY <2>2, <2>3, <2>4 DEF PassKeeps
<1> QED
    BY <1>2, <1>3, <1>4, <1>5 DEF PromiseInv

\* The invariant of the evaluators with their memory.
LEMMA PromiseStep ==
    ASSUME "lockLost" \notin Disturbances
    PROVE  PromiseInv /\ [Next /\ Remember]_hvars => PromiseInv'
<1> SUFFICES ASSUME PromiseInv, [Next /\ Remember]_hvars PROVE PromiseInv'
    OBVIOUS
<1>1. CASE UNCHANGED hvars
    <2>1. OnceInv'
        BY <1>1, OnceStep DEF PromiseInv, hvars
    <2>2. UNCHANGED <<limits, values, beat, late, ev, lastSent, ruleType, metric, present,
                      drawn, row, notifications>>
        BY <1>1 DEF hvars, memory, vars, ruleVars, world, messages
    <2>3. MemoryOK' /\ Remembered' /\ RecordIsOfRule'
        BY <2>2 DEF PromiseInv, MemoryOK, Remembered, RecordIsOfRule
    <2>4. \A w \in Workers : PassKeeps(w)'
        BY <2>2 DEF PromiseInv, PassKeeps, PassRemembered, LatchSeen, NotLatched, LateIsLast,
                    InPass, InBreach, Copy
    <2> QED
        BY <2>1, <2>2, <2>3, <2>4 DEF PromiseInv
<1>2. CASE Next /\ Remember
    <2>1. OnceInv'
        BY <1>2, OnceStep DEF PromiseInv
    <2>2. CASE \E w \in Workers : Evaluate(w) \/ WorkerCrash(w)
        BY <1>2, <2>1, <2>2, PromiseEvaluate
    <2>3. CASE /\ UNCHANGED <<ev, lastSent, ruleType>>
               /\ HandlerStep \/ UNCHANGED <<present, drawn, row, notifications>>
        BY <1>2, <2>1, <2>3, PromiseWorld
    <2> QED
        BY <1>2, <2>2, <2>3 DEF Next, ruleVars, world, messages, MetricMoves, LockLost, HandlerStep
<1> QED
    BY <1>1, <1>2

-----------------------------------------------------------------------------
(* Every step is a step of Alarm or changes nothing the owner sees *)

Stutter == UNCHANGED <<drawn, present, lastSent, Shown, notifications, beat, late, Calm>>

\* No one is told anything, and nothing is met that is new.
LEMMA SilentStep ==
    ASSUME PromiseInv, Remember,
           UNCHANGED <<drawn, present, lastSent, notifications, beat, late, ruleType, metric>>,
           \A s \in present : row'[s].firing = row[s].firing,
           \A s \in present : Limit(row'[s]) = Limit(row[s])
    PROVE  Stutter
<1>1. Shown' = Shown
    BY DEF Shown
<1>2. Calm' = Calm
    <2>1. \A r \in Rules : r \in Calm' <=> r \in Calm
        BY MemoryKept
    <2> QED
        BY <2>1 DEF Calm
<1> QED
    BY <1>1, <1>2 DEF Stutter

\* A step in which only rule r speaks or forgets leaves the memory of the
\* others as it was.
LEMMA OthersKept ==
    ASSUME PromiseInv, Remember, NEW r \in Rules,
           UNCHANGED <<present, ruleType, metric>>,
           \A s \in Rules \ {r} : lastSent'[s] = lastSent[s],
           \A s \in Rules : Limit(row'[s]) = Limit(row[s])
    PROVE  /\ Calm' \in {Calm \ {r}, Calm \cup {r}}
           /\ lastSent'[r] = Nobody => Calm' = Calm \ {r}
           /\ lastSent'[r] = lastSent[r] => Calm' = Calm
<1>1. \A s \in Rules \ {r} : s \in Calm' <=> s \in Calm
    BY MemoryKept
<1>2. Calm \subseteq Rules /\ Calm' \subseteq Rules
    BY DEF Calm
<1>3. lastSent'[r] = Nobody => r \notin Calm'
    BY MemoryAfter DEF Calm
<1>4. lastSent'[r] = lastSent[r] => (r \in Calm' <=> r \in Calm)
    BY MemoryKept
<1> QED
    BY <1>1, <1>2, <1>3, <1>4

\* A delivered message tells.
LEMMA SendTells ==
    ASSUME PromiseInv, Remember, NEW w \in Workers,
           SendNotification(w) \/ SendBreaks(w)
    PROVE  A!Next
<1> DEFINE r == ev[w].cur
           t == Copy(w).threshold
<1>d. Delivers(w)
    BY DEF SendNotification, SendBreaks, Delivers
<1>b. /\ Only(w) /\ \A v \in Workers \ {w} : ev[v].pc = "out"
      /\ UNCHANGED <<present, drawn, ruleType, metric>>
      /\ \A s \in Rules : Limit(row'[s]) = Limit(row[s])
    BY WorkerBase DEF Evaluate
<1>t. /\ TypeInv /\ ev \in [Workers -> Evaluator] /\ r \in Rules /\ r \in drawn
      /\ lastSent \in [Rules -> Thresholds \cup {Nobody}] /\ t \in Thresholds
    <2>1. TypeInv
        BY DEF PromiseInv, OnceInv, LockInv
    <2>2. /\ ev \in [Workers -> Evaluator] /\ r \in Rules /\ r \in drawn
          /\ lastSent \in [Rules -> Thresholds \cup {Nobody}]
        BY <1>d, <2>1 DEF Delivers, Deliver, TypeInv, TypeOK, RulesTypeOK, PassOK, InBreach
    <2>3. t \in Thresholds
        BY <2>2 DEF Copy, Evaluator, Row
    <2> QED
        BY <2>1, <2>2, <2>3
<1>1. ev[w].pc = "send" /\ ev'[w].pc \in {"clear", "failed"}
    BY <1>d, <1>t, GoEffect DEF Delivers, Deliver, Places
<1>2. /\ UNCHANGED <<row, notifications>>
      /\ lastSent' = [lastSent EXCEPT ![r] = t]
    BY <1>d DEF Delivers, Deliver, ruleVars
<1>3. lastSent[r] # t
    BY <1>1 DEF PromiseInv, OnceInv, PassIsFresh, SendIsNew
<1>4. \A s : Sends(s) <=> s = r
    BY <1>1, <1>b, WhoSends DEF PromiseInv, Speaks
<1>5. beat' = [beat EXCEPT ![r] = 1 - @]
    BY <1>4, <1>t DEF Remember, PromiseInv, MemoryOK
<1>6. late' = late \cup ({r} \ present)
    BY <1>4, <1>t DEF Remember
<1>7. r \notin present => r \notin late
    BY <1>1 DEF PromiseInv, PassKeeps, LateIsLast, InPass
<1>8. Calm' \in {Calm \ {r}, Calm \cup {r}}
    BY <1>b, <1>t, <1>2, OthersKept
<1>9. Shown' = Shown
    BY <1>b, <1>2 DEF Shown
<1>10. A!Tell(r, t)
    <2> HIDE DEF r, t
    <2> QED
        BY <1>b, <1>t, <1>2, <1>3, <1>5, <1>6, <1>7, <1>8, <1>9 DEF A!Tell
<1> QED
    BY <1>t, <1>10 DEF A!Next

\* RecordAlertNotification puts on record what was told, or nothing.
LEMMA RecordKeeps ==
    ASSUME PromiseInv, Remember, NEW w \in Workers, RecordAlertNotification(w)
    PROVE  A!Next \/ Stutter
<1>b. /\ Only(w) /\ \A v \in Workers \ {w} : ev[v].pc = "out"
      /\ UNCHANGED <<present, drawn, ruleType, metric>>
      /\ \A s \in Rules : Limit(row'[s]) = Limit(row[s])
    BY WorkerBase DEF Evaluate
<1>1. /\ ev[w].pc = "insert" /\ UNCHANGED <<row, lastSent>> /\ present \subseteq Rules
    BY DEF RecordAlertNotification, ruleVars, PromiseInv, OnceInv, LockInv, TypeInv, TypeOK, RulesTypeOK
<1>2. UNCHANGED <<beat, late>>
    BY <1>b, <1>1, WhoSends DEF PromiseInv, Speaks
<1>3. Shown' = Shown
    BY <1>b, <1>1 DEF Shown
<1>4. Calm' = Calm
    <2>1. \A r \in Rules : r \in Calm' <=> r \in Calm
        BY <1>b, <1>1, MemoryKept
    <2> QED
        BY <2>1 DEF Calm
<1>5. ASSUME ev[w].cur \in present, notifications' = notifications \cup {Message(w)}
      PROVE  A!Next
    <2>1. lastSent[ev[w].cur] = Copy(w).threshold
        BY <1>1 DEF PromiseInv, OnceInv, PassIsFresh, SentIsLast, HasSent
    <2>2. Copy(w).threshold # Nobody
        <3>1. ev \in [Workers -> Evaluator] /\ ev[w].cur \in Rules
            BY <1>1, <1>5 DEF PromiseInv, OnceInv, LockInv, TypeInv, TypeOK
        <3>2. Copy(w).threshold \in Thresholds
            BY <3>1 DEF Copy, Evaluator, Row
        <3> QED
            BY <3>2, RulesAssumption
    <2>3. A!Record(ev[w].cur)
        BY <1>b, <1>1, <1>2, <1>3, <1>4, <1>5, <2>1, <2>2 DEF A!Record, Message
    <2> QED
        BY <1>1, <1>5, <2>3 DEF A!Next
<1>6. CASE UNCHANGED notifications
    BY <1>b, <1>1, <1>2, <1>3, <1>4, <1>6 DEF Stutter
<1> QED
    BY <1>5, <1>6 DEF RecordAlertNotification

\* SetAlertRuleFiring latches what was told; when its UPDATE fails the
\* message is forgotten before it was latched; a deleted rule is not found.
LEMMA FiringLatches ==
    ASSUME PromiseInv, Remember, NEW w \in Workers, SetAlertRuleFiring(w)
    PROVE  A!Next \/ Stutter
<1> DEFINE r == ev[w].cur
           t == Copy(w).threshold
<1>b. /\ Only(w) /\ \A v \in Workers \ {w} : ev[v].pc = "out"
      /\ UNCHANGED <<present, drawn, ruleType, metric>>
      /\ \A s \in Rules : Limit(row'[s]) = Limit(row[s])
    BY WorkerBase DEF Evaluate
<1>1. ev[w].pc = "latch" /\ UNCHANGED notifications
    BY DEF SetAlertRuleFiring, Latch
<1>t. /\ ev \in [Workers -> Evaluator] /\ r \in Rules /\ present \subseteq Rules
      /\ lastSent \in [Rules -> Thresholds \cup {Nobody}] /\ row \in [Rules -> Row]
    BY <1>1 DEF PromiseInv, OnceInv, LockInv, TypeInv, TypeOK, RulesTypeOK, PassOK, InBreach
<1>c. t \in Thresholds /\ t # Nobody
    <2>1. t \in Thresholds
        BY <1>t DEF Copy, Evaluator, Row
    <2> QED
        BY <2>1, RulesAssumption
<1>2. UNCHANGED <<beat, late>>
    BY <1>b, <1>1, WhoSends DEF PromiseInv, Speaks
<1>3. lastSent[r] = t
    BY <1>1 DEF PromiseInv, OnceInv, PassIsFresh, SentIsLast, HasSent
<1>4. r \in present => row[r].firing # t
    BY <1>1 DEF PromiseInv, PassKeeps, NotLatched, InBreach
<1>5. CASE UpdateRow(r, [row[r] EXCEPT !.firing = t]) /\ UNCHANGED lastSent
    <2>1. Calm' = Calm
        BY <1>b, <1>t, <1>5, OthersKept
    <2>2. CASE r \notin present
        <3>1. row' = row
            BY <1>5, <2>2 DEF UpdateRow
        <3>2. Shown' = Shown
            BY <1>b, <3>1 DEF Shown
        <3> QED
            BY <1>b, <1>1, <1>2, <1>5, <2>1, <3>2 DEF Stutter
    <2>3. CASE r \in present
        <3>1. [row[r] EXCEPT !.firing = t].firing = t
            <4>1. row[r] \in Row
                BY <1>t
            <4> HIDE DEF r, t
            <4> QED
                BY <1>c, <4>1 DEF Row
        <3>2. \A s \in Rules : row'[s].firing = IF s = r THEN t ELSE row[s].firing
            BY <1>t, <1>5, <2>3, <3>1 DEF UpdateRow
        <3>3. Shown' = [Shown EXCEPT ![r] = lastSent[r]]
            BY <1>b, <1>t, <1>3, <2>3, <3>2 DEF Shown
        <3>4. A!Latch(r)
            <4> HIDE DEF r, t
            <4> QED
                BY <1>b, <1>c, <1>1, <1>2, <1>3, <1>5, <2>1, <2>3, <3>3 DEF A!Latch
        <3> QED
            BY <1>t, <3>4 DEF A!Next
    <2> QED
        BY <2>2, <2>3
<1>6. CASE UNCHANGED ruleVars /\ Forget(r)
    <2>1. lastSent' = [lastSent EXCEPT ![r] = Nobody] /\ row' = row
        BY <1>6 DEF Forget, ruleVars
    <2>2. Calm' = Calm \ {r}
        BY <1>b, <1>t, <2>1, OthersKept
    <2>3. Shown' = Shown /\ Shown[r] # t
        BY <1>b, <1>c, <1>t, <1>4, <2>1 DEF Shown
    <2>4. A!Interrupt(r)
        <3> HIDE DEF r, t
        <3> QED
            BY <1>b, <1>c, <1>1, <1>2, <1>3, <2>1, <2>2, <2>3 DEF A!Interrupt
    <2> QED
        BY <1>t, <2>4 DEF A!Next
<1> QED
    BY <1>5, <1>6 DEF SetAlertRuleFiring, Latch

\* What clearFiring acts on was really there since the message: the limit and
\* the value it compares are both remembered.
LEMMA RecoveredIsCalm ==
    ASSUME PromiseInv, NEW w \in Workers, NEW r \in Rules, Visits(w, r), Recovered(w, r),
           lastSent[r] # Nobody
    PROVE  r \in Calm
<1>1. /\ Limit(ev[w].snap[r]) \in limits[r]
      /\ ruleType[r] # "UNRESOLVED_TIME" => ev[w].seen[r] \in values[r]
    BY DEF PromiseInv, PassKeeps, PassRemembered, InPass, Visits
<1>2. metric[r] \in values[r]
    BY DEF PromiseInv, Remembered
<1>3. currentValue(w, r) \in values[r]
    BY <1>1, <1>2 DEF currentValue
<1>4. Quiet(r, Limit(ev[w].snap[r]), currentValue(w, r))
    BY DEF Recovered, Quiet, Limit
<1> QED
    BY <1>1, <1>3, <1>4 DEF Calm

\* clearFiring forgets a rule that has recovered.
LEMMA ClearRecovers ==
    ASSUME PromiseInv, Remember, NEW w \in Workers, NEW r \in Rules, ClearFiring(w, r)
    PROVE  A!Next
<1>b. /\ Only(w) /\ \A v \in Workers \ {w} : ev[v].pc = "out"
      /\ UNCHANGED <<present, drawn, ruleType, metric>>
      /\ \A s \in Rules : Limit(row'[s]) = Limit(row[s])
    BY WorkerBase DEF Evaluate
<1>t. /\ present \subseteq Rules /\ row \in [Rules -> Row]
      /\ lastSent \in [Rules -> Thresholds \cup {Nobody}]
    BY DEF PromiseInv, OnceInv, LockInv, TypeInv, TypeOK, RulesTypeOK
<1>1. /\ Visits(w, r) /\ Recovered(w, r) /\ UNCHANGED notifications
      /\ lastSent' = [lastSent EXCEPT ![r] = Nobody]
    BY DEF ClearFiring, Forget
<1>2. UNCHANGED <<beat, late>>
    BY <1>b, <1>1, WhoSends DEF PromiseInv, Visits, Speaks
<1>3. lastSent[r] # Nobody => r \in Calm
    BY <1>1, RecoveredIsCalm
<1>4. Calm' = Calm \ {r}
    BY <1>b, <1>t, <1>1, OthersKept
<1>5. Shown' \in {Shown, [Shown EXCEPT ![r] = Nobody]}
    <2>1. \A s \in present : \/ row'[s].firing = row[s].firing
                             \/ s = r /\ row'[s].firing = Nobody
        BY WorkerLatches
    <2>2. CASE \A s \in present : row'[s].firing = row[s].firing
        BY <1>b, <2>2 DEF Shown
    <2>3. CASE r \in present /\ row'[r].firing = Nobody
        BY <1>b, <2>1, <2>3 DEF Shown
    <2> QED
        BY <2>1, <2>2, <2>3
<1>6. A!Recover(r)
    BY <1>b, <1>1, <1>2, <1>3, <1>4, <1>5 DEF A!Recover
<1> QED
    BY <1>6 DEF A!Next

\* A worker that dies between its message and its latch interrupts the rule.
LEMMA CrashInterrupts ==
    ASSUME PromiseInv, Remember, NEW w \in Workers, WorkerCrash(w)
    PROVE  A!Next \/ Stutter
<1> DEFINE r == ev[w].cur
           t == Copy(w).threshold
<1>b. /\ Only(w) /\ \A v \in Workers \ {w} : ev[v].pc = "out"
      /\ UNCHANGED <<present, drawn, ruleType, metric>>
      /\ \A s \in Rules : Limit(row'[s]) = Limit(row[s])
    BY WorkerBase
<1>t. /\ ev \in [Workers -> Evaluator] /\ present \subseteq Rules
      /\ (HasSent(w) => r \in Rules)
      /\ lastSent \in [Rules -> Thresholds \cup {Nobody}]
    BY DEF PromiseInv, OnceInv, LockInv, TypeInv, TypeOK, RulesTypeOK, PassOK, InBreach, HasSent
<1>1. UNCHANGED <<row, notifications>> /\ ev'[w].pc = "out"
    <2>1. ev'[w].pc = "out"
        BY CrashLetsGo DEF PromiseInv, OnceInv, LockInv
    <2> QED
        BY <2>1 DEF WorkerCrash, Crash, ruleVars
<1>2. UNCHANGED <<beat, late>>
    BY <1>b, <1>1, WhoSends DEF PromiseInv, Speaks
<1>3. Shown' = Shown
    BY <1>b, <1>1 DEF Shown
<1>4. CASE ~ HasSent(w)
    <2>1. lastSent' = lastSent
        BY <1>4 DEF WorkerCrash, Crash, HasSent
    <2> QED
        BY <1>b, <1>t, <1>1, <1>2, <2>1, SilentStep
<1>5. CASE HasSent(w)
    <2>1. lastSent' = [lastSent EXCEPT ![r] = Nobody] /\ r \in Rules
        BY <1>t, <1>5 DEF WorkerCrash, Crash, HasSent, Forget
    <2>2. Calm' = Calm \ {r}
        BY <1>b, <1>t, <2>1, OthersKept
    <2>3. t # Nobody
        <3>1. t \in Thresholds
            BY <1>t, <2>1 DEF Copy, Evaluator, Row
        <3> QED
            BY <3>1, RulesAssumption
    <2>4. lastSent[r] = t
        BY <1>5 DEF PromiseInv, OnceInv, PassIsFresh, SentIsLast
    <2>5. Shown[r] # t
        <3>1. r \in present => row[r].firing # t
            BY <1>5 DEF PromiseInv, PassKeeps, NotLatched, InBreach, HasSent
        <3> QED
            BY <2>1, <2>3, <3>1 DEF Shown
    <2>6. A!Interrupt(r)
        <3> HIDE DEF r, t
        <3> QED
            BY <1>b, <1>1, <1>2, <1>3, <2>1, <2>2, <2>3, <2>4, <2>5 DEF A!Interrupt
    <2> QED
        BY <2>1, <2>6 DEF A!Next
<1> QED
    BY <1>4, <1>5

\* A message that was delivered and is taken for undelivered: the rule forgets
\* it before it was latched.
LEMMA BrokenSendInterrupts ==
    ASSUME PromiseInv, Remember, NEW w \in Workers, SendFails(w), ev[w].pc = "failed"
    PROVE  A!Next
<1> DEFINE r == ev[w].cur
           t == Copy(w).threshold
<1>b. /\ Only(w) /\ \A v \in Workers \ {w} : ev[v].pc = "out"
      /\ UNCHANGED <<present, drawn, ruleType, metric>>
      /\ \A s \in Rules : Limit(row'[s]) = Limit(row[s])
    BY WorkerBase DEF Evaluate
<1>t. /\ ev \in [Workers -> Evaluator] /\ r \in Rules
      /\ lastSent \in [Rules -> Thresholds \cup {Nobody}]
    BY DEF PromiseInv, OnceInv, LockInv, TypeInv, TypeOK, RulesTypeOK, PassOK, InBreach
<1>c. t \in Thresholds /\ t # Nobody
    <2>1. t \in Thresholds
        BY <1>t DEF Copy, Evaluator, Row
    <2> QED
        BY <2>1, RulesAssumption
<1>1. UNCHANGED notifications /\ lastSent' = [lastSent EXCEPT ![r] = Nobody]
    BY DEF SendFails, Forget
<1>2. UNCHANGED <<beat, late>>
    BY <1>b, WhoSends DEF PromiseInv, Speaks
<1>3. Shown' = Shown
    BY <1>b, WorkerLatches DEF Shown
<1>4. lastSent[r] = t
    BY DEF PromiseInv, OnceInv, PassIsFresh, SentIsLast, HasSent
<1>5. Shown[r] # t
    <2>1. r \in present => row[r].firing # t
        BY DEF PromiseInv, PassKeeps, NotLatched, InBreach
    <2> QED
        BY <1>t, <1>c, <2>1 DEF Shown
<1>6. Calm' = Calm \ {r}
    BY <1>b, <1>t, <1>1, OthersKept
<1>7. A!Interrupt(r)
    <2> HIDE DEF r, t
    <2> QED
        BY <1>b, <1>c, <1>1, <1>2, <1>3, <1>4, <1>5, <1>6 DEF A!Interrupt
<1> QED
    BY <1>t, <1>7 DEF A!Next

\* The other steps of a pass are not seen.
LEMMA PassIsSilent ==
    ASSUME PromiseInv, Remember, NEW w \in Workers,
           \/ HoldEvaluation(w) \/ Tick(w) \/ ListAlertRules(w) \/ GetPlatformMetrics(w)
           \/ \E r \in Rules : Skip(w, r) \/ Breach(w, r)
           \/ EndPass(w) \/ ClearDeliveryError(w) \/ (SendFails(w) /\ ev[w].pc = "send")
    PROVE  Stutter
<1>b. /\ Only(w) /\ \A v \in Workers \ {w} : ev[v].pc = "out"
      /\ UNCHANGED <<present, drawn, ruleType, metric>>
      /\ \A s \in Rules : Limit(row'[s]) = Limit(row[s])
    BY WorkerBase DEF Evaluate
<1>t. ev \in [Workers -> Evaluator] /\ present \subseteq Rules
    BY DEF PromiseInv, OnceInv, LockInv, TypeInv, TypeOK, RulesTypeOK
<1>1. UNCHANGED <<lastSent, notifications>>
    BY DEF HoldEvaluation, Hold, Tick, ListAlertRules, GetPlatformMetrics, Skip, Breach,
           EndPass, SendFails, ClearDeliveryError, messages
<1>2. \A s \in present : row'[s].firing = row[s].firing
    <2>1. CASE UNCHANGED ruleVars
        BY <2>1 DEF ruleVars
    <2>2. CASE SendFails(w) \/ ClearDeliveryError(w)
        BY <2>2, WorkerLatches
    <2> QED
        BY <2>1, <2>2 DEF HoldEvaluation, Hold, Tick, ListAlertRules, GetPlatformMetrics,
                          Skip, Breach, EndPass
<1>3. ~ Speaks(w)
    <2>1. CASE SendFails(w)
        BY <1>t, <2>1, GoEffect DEF SendFails, Places, Speaks
    <2> QED
        BY <2>1 DEF Speaks, HoldEvaluation, Hold, Tick, ListAlertRules, GetPlatformMetrics, Skip,
                    Breach, EndPass, ClearDeliveryError, Visits
<1>4. UNCHANGED <<beat, late>>
    BY <1>b, <1>3, WhoSends DEF PromiseInv
<1> QED
    BY <1>b, <1>t, <1>1, <1>2, <1>4, SilentStep

\* A rule that meets something new may only have become calm.
LEMMA MeetsMore ==
    ASSUME PromiseInv, Remember, NEW r \in Rules,
           UNCHANGED <<drawn, present, lastSent, notifications, ruleType, ev>>,
           \A s \in present : row'[s].firing = row[s].firing,
           \A s \in Rules \ {r} :
               metric'[s] = metric[s] /\ (s \in present => Limit(row'[s]) = Limit(row[s]))
    PROVE  A!Next \/ Stutter
<1>1. UNCHANGED <<beat, late>>
    <2>1. \A s : ~ Sends(s)
        BY DEF Sends
    <2>2. beat' = [s \in Rules |-> beat[s]] /\ late' = late
        BY <2>1 DEF Remember
    <2> QED
        BY <2>2 DEF PromiseInv, MemoryOK
<1>2. Shown' = Shown
    BY DEF Shown
<1>3. \A s \in Rules \ {r} : s \in Calm' <=> s \in Calm
    BY MemoryKept
<1>4. Calm \subseteq Rules /\ Calm' \subseteq Rules
    BY DEF Calm
<1>5. r \in Calm => r \in Calm'
    <2> SUFFICES ASSUME r \in Calm PROVE r \in Calm'
        OBVIOUS
    <2>1. PICK t \in limits[r], v \in values[r] : Quiet(r, t, v)
        BY DEF Calm
    <2>2. lastSent[r] # Nobody
        BY <2>1 DEF PromiseInv, Remembered
    <2>3. t \in limits'[r] /\ v \in values'[r]
        BY <2>1, <2>2, MemoryAfter
    <2>4. Quiet(r, t, v)'
        BY <2>1 DEF Quiet, isBreached
    <2> QED
        BY <2>3, <2>4 DEF Calm
<1>6. CASE r \notin Calm' \/ r \in Calm
    <2>1. \A s \in Rules : s \in Calm' <=> s \in Calm
        BY <1>3, <1>5, <1>6
    <2>2. Calm' = Calm
        BY <1>4, <2>1
    <2> QED
        BY <1>1, <1>2, <2>2 DEF Stutter
<1>7. CASE r \in Calm' /\ r \notin Calm
    <2>1. Calm' = Calm \cup {r}
        BY <1>3, <1>4, <1>7
    <2>2. lastSent[r] # Nobody
        BY <1>7, MemoryKept
    <2>3. A!CalmDown(r)
        BY <1>1, <1>2, <2>1, <2>2 DEF A!CalmDown
    <2> QED
        BY <2>3 DEF A!Next
<1> QED
    BY <1>6, <1>7

\* Metrics move.
LEMMA MetricIsMet ==
    ASSUME PromiseInv, Remember, NEW r \in Rules, NEW v, MetricMoves(r, v)
    PROVE  A!Next \/ Stutter
<1>1. /\ UNCHANGED <<drawn, present, row, lastSent, notifications, ruleType, ev>>
      /\ metric' = [metric EXCEPT ![r] = v]
    BY DEF MetricMoves, ruleVars, messages
<1>2. metric \in [Rules -> Levels \cup {NoSamples}]
    BY DEF PromiseInv, OnceInv, LockInv, TypeInv, TypeOK
<1>3. \A s \in Rules \ {r} : metric'[s] = metric[s]
    BY <1>1, <1>2
<1> QED
    BY <1>1, <1>3, MeetsMore

\* A rule is created with no latch, under an id that no message was about.
LEMMA CreateCreates ==
    ASSUME PromiseInv, Remember, HandlerStep, NEW p \in Clients, CreateInsert(p)
    PROVE  A!Next
<1>t. /\ present \subseteq drawn /\ drawn \subseteq Rules /\ row \in [Rules -> Row]
      /\ notifications \subseteq Rules \X Thresholds
      /\ UndrawnSilent /\ late \cap present = {}
    BY DEF PromiseInv, OnceInv, LockInv, TypeInv, TypeOK, RulesTypeOK
<1>1. PICK r \in Rules \ drawn, t \in Thresholds :
        /\ present' = present \cup {r} /\ drawn' = drawn \cup {r}
        /\ row' = [row EXCEPT ![r] = NewRow(t)]
    BY DEF CreateInsert
<1>2. /\ UNCHANGED <<ruleType, metric, ev, lastSent>>
      /\ notifications' = {x \in notifications : x[1] \in present'}
    BY DEF HandlerStep, world
<1>3. UNCHANGED <<beat, late>>
    <2>1. \A s : ~ Sends(s)
        BY <1>2 DEF Sends
    <2>2. beat' = [s \in Rules |-> beat[s]] /\ late' = late
        BY <2>1 DEF Remember
    <2> QED
        BY <2>2 DEF PromiseInv, MemoryOK
<1>4. \A s \in Rules : row'[s] = IF s = r THEN NewRow(t) ELSE row[s]
    BY <1>t, <1>1
<1>5. Shown' = Shown
    <2>1. NewRow(t).firing = Nobody /\ r \notin present
        BY <1>t, <1>1, NewRows
    <2> QED
        BY <1>1, <1>4, <2>1 DEF Shown
<1>6. Calm' = Calm
    <2>1. lastSent[r] = Nobody
        BY <1>t DEF UndrawnSilent
    <2>2. \A s \in Rules : s \in Calm' <=> s \in Calm
        BY <1>t, <1>1, <1>2, <1>4, <2>1, MemoryKept
    <2> QED
        BY <2>2 DEF Calm
<1>7. notifications' = notifications
    <2>1. \A x \in notifications : x[1] \in present
        BY DEF PromiseInv, RecordIsOfRule
    <2> QED
        BY <1>1, <1>2, <2>1
<1>8. A!Create(r)
    BY <1>1, <1>2, <1>3, <1>5, <1>6, <1>7 DEF A!Create
<1> QED
    BY <1>8 DEF A!Next

\* Deleting a rule takes its latch and its notifications, and no more.
LEMMA DeleteDeletes ==
    ASSUME PromiseInv, Remember, HandlerStep, NEW p \in Clients, NEW r \in Rules,
           DeleteAlertRule(p, r)
    PROVE  A!Next
<1>t. present \subseteq drawn /\ drawn \subseteq Rules /\ row \in [Rules -> Row]
    BY DEF PromiseInv, OnceInv, LockInv, TypeInv, TypeOK, RulesTypeOK
<1>1. /\ r \in present /\ present' = present \ {r} /\ UNCHANGED drawn
      /\ row' = [row EXCEPT ![r] = Blank]
    BY DEF DeleteAlertRule
<1>2. /\ UNCHANGED <<ruleType, metric, ev, lastSent>>
      /\ notifications' = {x \in notifications : x[1] \in present'}
    BY DEF HandlerStep, world
<1>3. UNCHANGED <<beat, late>>
    <2>1. \A s : ~ Sends(s)
        BY <1>2 DEF Sends
    <2>2. beat' = [s \in Rules |-> beat[s]] /\ late' = late
        BY <2>1 DEF Remember
    <2> QED
        BY <2>2 DEF PromiseInv, MemoryOK
<1>4. \A s \in Rules \ {r} : row'[s] = row[s]
    BY <1>t, <1>1
<1>5. Shown' = [Shown EXCEPT ![r] = Nobody]
    <2>1. \A s \in Rules : Shown'[s] = IF s = r THEN Nobody ELSE Shown[s]
        BY <1>1, <1>4 DEF Shown
    <2>2. Shown' = [s \in Rules |-> Shown'[s]] /\ Shown = [s \in Rules |-> Shown[s]]
        BY DEF Shown
    <2> HIDE DEF Shown
    <2> QED
        BY <2>1, <2>2
<1>6. Calm' = Calm
    <2>1. \A s \in Rules : s \in Calm' <=> s \in Calm
        BY <1>t, <1>1, <1>2, <1>4, MemoryKept
    <2> QED
        BY <2>1 DEF Calm
<1>7. notifications' = {x \in notifications : x[1] # r}
    <2>1. \A x \in notifications : x[1] \in present' <=> x[1] # r
        BY <1>1 DEF PromiseInv, RecordIsOfRule
    <2> QED
        BY <1>2, <2>1
<1>8. A!Delete(r)
    BY <1>1, <1>2, <1>3, <1>5, <1>6, <1>7 DEF A!Delete
<1> QED
    BY <1>8 DEF A!Next

\* A PATCH keeps the latch; the rest of the handlers change no row.
LEMMA HandlerRefines ==
    ASSUME PromiseInv, Remember, HandlerStep
    PROVE  A!Next \/ Stutter
<1>t. /\ RulesTypeOK /\ PatchOK /\ present \subseteq Rules /\ row \in [Rules -> Row]
    BY DEF PromiseInv, OnceInv, LockInv, TypeInv, TypeOK, RulesTypeOK
<1>1. /\ UNCHANGED <<ruleType, metric, ev, lastSent>>
      /\ notifications' = {x \in notifications : x[1] \in present'}
      /\ \A x \in notifications : x[1] \in present
    BY DEF HandlerStep, world, PromiseInv, RecordIsOfRule
<1>2. present' = present => notifications' = notifications
    BY <1>1
<1>3. CASE UNCHANGED <<present, drawn, row>>
    <2>1. \A s : ~ Sends(s)
        BY <1>1 DEF Sends
    <2>2. beat' = [s \in Rules |-> beat[s]] /\ late' = late
        BY <2>1 DEF Remember
    <2>3. UNCHANGED <<beat, late>>
        BY <2>2 DEF PromiseInv, MemoryOK
    <2> QED
        BY <1>1, <1>2, <1>3, <2>3, SilentStep
<1>4. ASSUME NEW p \in Clients, PatchWrite(p), client[p].rule \in present
      PROVE  A!Next \/ Stutter
    <2>1. client[p].rule \in Rules
        BY <1>t, <1>4
    <2>2. UNCHANGED <<present, drawn>>
        BY <1>4 DEF PatchWrite
    <2>3. \A s \in Rules \ {client[p].rule} : row'[s] = row[s]
        BY <1>t, <1>4 DEF PatchWrite
    <2>4. \A s \in present : row'[s].firing = row[s].firing
        <3>1. \A s \in present' : s \notin drawn \/ row'[s].firing = row[s].firing
            BY <1>t, HandlerRows DEF HandlerStep
        <3> QED
            BY <1>t, <2>2, <3>1 DEF RulesTypeOK
    <2> QED
        BY <1>1, <1>2, <2>1, <2>2, <2>3, <2>4, MeetsMore
<1>5. ASSUME NEW p \in Clients, CreateInsert(p) PROVE A!Next
    BY <1>5, CreateCreates
<1>6. ASSUME NEW p \in Clients, NEW r \in Rules, DeleteAlertRule(p, r) PROVE A!Next
    BY <1>6, DeleteDeletes
<1>7. ASSUME NEW p \in Clients, PatchWrite(p), client[p].rule \notin present
      PROVE  UNCHANGED <<present, drawn, row>>
    BY <1>7 DEF PatchWrite
<1> QED
    BY <1>3, <1>4, <1>5, <1>6, <1>7
       DEF HandlerStep, RulesNext, CreateLock, CreateCount, CreateRollback, PatchRead

\* Every step of the evaluators and of the handlers is a step of Alarm, or
\* changes nothing Alarm speaks of.
LEMMA StepRefines ==
    ASSUME PromiseInv, Next, Remember
    PROVE  A!Next \/ Stutter
<1>1. ASSUME NEW w \in Workers, Evaluate(w) PROVE A!Next \/ Stutter
    <2>1. CASE SendFails(w)
        <3>1. ev[w].pc \in {"send", "failed"}
            BY <2>1 DEF SendFails
        <3> QED
            BY <2>1, <3>1, PassIsSilent, BrokenSendInterrupts
    <2> QED
        BY <1>1, <2>1, SendTells, RecordKeeps, FiringLatches, ClearRecovers, PassIsSilent
           DEF Evaluate
<1>2. ASSUME NEW w \in Workers, WorkerCrash(w) PROVE A!Next \/ Stutter
    BY <1>2, CrashInterrupts
<1>3. CASE LockLost
    <2>1. /\ UNCHANGED <<drawn, present, row, lastSent, notifications, ruleType, metric, ev>>
        BY <1>3 DEF LockLost, ruleVars, messages
    <2>2. \A s : ~ Sends(s)
        BY <2>1 DEF Sends
    <2>3. beat' = [s \in Rules |-> beat[s]] /\ late' = late
        BY <2>2 DEF Remember
    <2>4. UNCHANGED <<beat, late>>
        BY <2>3 DEF PromiseInv, MemoryOK
    <2> QED
        BY <2>1, <2>4, SilentStep
<1> QED
    BY <1>1, <1>2, <1>3, MetricIsMet, HandlerRefines DEF Next

\* The evaluators on any number of workers, beside any number of handlers,
\* keep the promise of Alarm for every rule, as long as no session breaks
\* under a living worker: the owner of a rule gets no second message about a
\* breach until the rule really was inactive or back to normal since the
\* first, or before the latch the worker died, Send reported an error for the
\* message it had delivered, or the UPDATE failed; latches and records are of
\* messages told; a deleted rule sends at most the message that was under way
\* (evaluator.go:79-219).
THEOREM EvaluatorsKeepPromise ==
    ASSUME "lockLost" \notin Disturbances
    PROVE  HSpec => ImplementsAlarm
<1>1. HInit => A!Init
    <2> SUFFICES ASSUME HInit PROVE A!Init
        OBVIOUS
    <2>1. Shown = [r \in Rules |-> Nobody]
        BY DEF HInit, Init, RulesInit, Shown
    <2>2. Calm = {}
        BY DEF HInit, Calm
    <2> QED
        BY <2>1, <2>2 DEF HInit, Init, RulesInit, A!Init
<1>2. PromiseInv /\ [Next /\ Remember]_hvars => [A!Next]_(A!vars)
    <2> SUFFICES ASSUME PromiseInv, [Next /\ Remember]_hvars PROVE A!Next \/ Stutter
        BY DEF A!vars, Stutter
    <2>1. CASE UNCHANGED hvars
        BY <2>1 DEF hvars, memory, vars, ruleVars, world, messages, Stutter, Shown, Calm,
                    Quiet, isBreached
    <2>2. CASE Next /\ Remember
        BY <2>2, StepRefines
    <2> QED
        BY <2>1, <2>2
<1>3. PromiseInv /\ [Next /\ Remember]_hvars => PromiseInv'
    BY PromiseStep
<1> QED
    BY <1>1, <1>2, <1>3, PromiseInit, PTL DEF HSpec, ImplementsAlarm, A!Spec

=============================================================================
