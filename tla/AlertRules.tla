----------------------------- MODULE AlertRules -----------------------------
(***************************************************************************)
(* The table alert_rules and the API handlers that change it: create, under*)
(* a table lock that makes the limit of ten rules exact; patch, which reads*)
(* the row in one statement and writes it back in another; and delete.     *)
(* Names, templates and destinations are left out: the rule's active flag  *)
(* stands for the fields a PATCH may leave alone.                          *)
(***************************************************************************)
EXTENDS Integers, FiniteSets

CONSTANTS
    Rules,          \* UUIDs of alert rules
    Thresholds,     \* thresholds that clients ask for
    Clients,        \* goroutines of the API that serve the rule handlers
    MaxAlertRules,
    Nobody          \* no client, no worker, no rule, no threshold

ASSUME RulesAssumption ==
    /\ Thresholds \subseteq Nat /\ Thresholds # {}
    /\ MaxAlertRules \in Nat
    /\ Nobody \notin Rules \cup Thresholds \cup Clients

VARIABLES
    present,        \* ids of the rows in alert_rules
    drawn,          \* ids drawn so far
    row,            \* the rows
    tableLock,      \* the client whose transaction holds EXCLUSIVE MODE
    client          \* where each handler goroutine stands

ruleVars == <<present, drawn, row, tableLock, client>>

Row == [active: BOOLEAN, threshold: Thresholds, err: BOOLEAN,
        firing: Thresholds \cup {Nobody}]

NewRow(t) == [active |-> TRUE, threshold |-> t, err |-> FALSE, firing |-> Nobody]

\* Stands for a row that is not there.
Blank == NewRow(CHOOSE t \in Thresholds : TRUE)

IdleClient == [pc |-> "idle", rule |-> Nobody,
               active |-> FALSE, threshold |-> Nobody]

Client == [pc: {"idle", "count", "insert", "patch"}, rule: Rules \cup {Nobody},
           active: BOOLEAN, threshold: Thresholds \cup {Nobody}]

RulesTypeOK ==
    /\ present \subseteq drawn /\ drawn \subseteq Rules
    /\ row \in [Rules -> Row]
    /\ tableLock \in Clients \cup {Nobody}
    /\ client \in [Clients -> Client]

RulesInit ==
    /\ present = {}
    /\ drawn = {}
    /\ row = [r \in Rules |-> Blank]
    /\ tableLock = Nobody
    /\ client = [p \in Clients |-> IdleClient]

\* A statement that writes the table waits for the EXCLUSIVE lock.
Writable(p) == tableLock \in {Nobody, p}

-----------------------------------------------------------------------------
(* CreateAlertRule: LOCK TABLE, count, insert and commit *)

CreateLock(p) ==
    /\ client[p].pc = "idle"
    /\ tableLock = Nobody
    /\ tableLock' = p
    /\ client' = [client EXCEPT ![p].pc = "count"]
    /\ UNCHANGED <<present, drawn, row>>

CreateCount(p) ==
    /\ client[p].pc = "count"
    /\ \/ /\ Cardinality(present) < MaxAlertRules
          /\ client' = [client EXCEPT ![p].pc = "insert"]
          /\ UNCHANGED tableLock
       \/ /\ Cardinality(present) >= MaxAlertRules
          /\ client' = [client EXCEPT ![p] = IdleClient]
          /\ tableLock' = Nobody
    /\ UNCHANGED <<present, drawn, row>>

CreateInsert(p) ==
    /\ client[p].pc = "insert"
    /\ \E r \in Rules \ drawn, t \in Thresholds :
         /\ present' = present \cup {r}
         /\ drawn' = drawn \cup {r}
         /\ row' = [row EXCEPT ![r] = NewRow(t)]
    /\ client' = [client EXCEPT ![p] = IdleClient]
    /\ tableLock' = Nobody

\* mutant: the handler returns without ending its transaction
CreateNoRollback(p) ==
    /\ client[p].pc \in {"count", "insert"}
    /\ client' = [client EXCEPT ![p] = IdleClient]
    /\ UNCHANGED <<present, drawn, row, tableLock>>

\* The request's context ends inside the transaction: the rollback releases
\* the lock.  Also how a create ends that finds no id left in the model.
CreateRollback(p) ==
    /\ client[p].pc \in {"count", "insert"}
    /\ client' = [client EXCEPT ![p] = IdleClient]
    /\ tableLock' = Nobody
    /\ UNCHANGED <<present, drawn, row>>

-----------------------------------------------------------------------------
(* UpdateAlertRule: GetAlertRule, then an UPDATE of every field *)

PatchRead(p, r, fields) ==
    /\ client[p].pc = "idle"
    /\ r \in present
    /\ fields # {}
    /\ \E a \in BOOLEAN, t \in Thresholds :
         /\ "active" \notin fields => a = row[r].active
         /\ "threshold" \notin fields => t = row[r].threshold
         /\ client' = [client EXCEPT ![p] =
              [pc |-> "patch", rule |-> r, active |-> a, threshold |-> t]]
    /\ UNCHANGED <<present, drawn, row, tableLock>>

\* A row deleted in between is not found, and the handler answers 500.
PatchWrite(p) ==
    /\ client[p].pc = "patch"
    /\ Writable(p)
    /\ row' = IF client[p].rule \in present
              THEN [row EXCEPT ![client[p].rule] =
                      [@ EXCEPT !.active = client[p].active,
                                !.threshold = client[p].threshold]]
              ELSE row
    /\ client' = [client EXCEPT ![p] = IdleClient]
    /\ UNCHANGED <<present, drawn, tableLock>>

DeleteAlertRule(p, r) ==
    /\ client[p].pc = "idle"
    /\ r \in present
    /\ Writable(p)
    /\ present' = present \ {r}
    /\ row' = [row EXCEPT ![r] = Blank]
    /\ UNCHANGED <<drawn, tableLock, client>>

RulesNext ==
    \/ \E p \in Clients : CreateLock(p)
    \/ \E p \in Clients : CreateCount(p)
    \/ \E p \in Clients : CreateInsert(p)
    \/ \E p \in Clients : CreateRollback(p)
    \/ \E p \in Clients, r \in Rules, f \in SUBSET {"active", "threshold"} :
         PatchRead(p, r, f)
    \/ \E p \in Clients : PatchWrite(p)
    \/ \E p \in Clients, r \in Rules : DeleteAlertRule(p, r)

RulesSpec == RulesInit /\ [][RulesNext]_ruleVars

-----------------------------------------------------------------------------
\* However many clients create rules at once, the table never holds more than
\* maxAlertRules (store.go:564-591).
RuleLimit == Cardinality(present) <= MaxAlertRules

\* The table lock is held by a client inside its transaction and by no other,
\* so no request that failed leaves the table locked (store.go:565-573).
LockHasOwner ==
    \A p \in Clients : client[p].pc \in {"count", "insert"} <=> tableLock = p

=============================================================================
