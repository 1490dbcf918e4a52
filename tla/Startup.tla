------------------------------- MODULE Startup -------------------------------
(***************************************************************************)
(* cmd/tuma/main.go from the start of a process to the point where it      *)
(* serves: migrations and the encryption of legacy payloads in the API,    *)
(* bootstrapAdmin in the API and in every worker, and the dial of Temporal.*)
(* A process that exits is started again (restart: unless-stopped).        *)
(*                                                                         *)
(* Pinned and EmailOf are the environment of the containers: whether       *)
(* TUMA_ADMIN_PASSWORD is set, and TUMA_ADMIN_EMAIL.  A password that a    *)
(* process generates is named by the process.                              *)
(***************************************************************************)
EXTENDS Integers

CONSTANTS
    Api,            \* the API process
    Workers,        \* the worker processes
    Emails, EmailOf,
    Pinned,         \* processes that have TUMA_ADMIN_PASSWORD
    Pin,            \* a password the operator knows: pinned, or from before
    Legacy,         \* events stored before payloads were encrypted
    MaxFailures     \* bound: kills and failed statements on the way

Procs == {Api} \cup Workers

ASSUME StartupAssumption ==
    /\ Api \notin Workers
    /\ EmailOf \in [Procs -> Emails]
    /\ Pinned \subseteq Procs
    /\ Pin \notin Procs
    /\ MaxFailures \in Nat

VARIABLES
    pc,             \* where each process stands in main
    schema,         \* none, that of an older release, or the current one
    dirty,          \* schema_migrations.dirty: a migration was begun and not ended
    users,          \* table users: email and password
    printed,        \* history: what TUMA FIRST BOOT has shown, and who did
    events,         \* the legacy rows: times sealed, and payload_encrypted
    todo,           \* rows that the SELECT of the backfill returned
    failures,
    unshown         \* history: passwords whose process was killed, or was told
                    \* that its INSERT failed, before it could show them

vars == <<pc, schema, dirty, users, printed, events, todo, failures, unshown>>

Sealed == [seals |-> 1, encrypted |-> TRUE]

User == [email: Emails, password: Procs \cup {Pin}]

\* Every variable keeps its type; a payload is sealed at most once.
TypeOK ==
    /\ pc \in [Procs -> {"start", "apply", "clean", "select", "seal", "count",
                         "create", "print", "dial", "serve"}]
    /\ schema \in {"none", "old", "current"}
    /\ dirty \in BOOLEAN
    /\ users \subseteq User
    /\ printed \subseteq User
    /\ events \in [Legacy -> [seals: {0, 1}, encrypted: BOOLEAN]]
    /\ todo \subseteq Legacy
    /\ failures \in 0..MaxFailures
    /\ unshown \subseteq Procs

\* An empty database, or that of an older release, with plain payloads (in
\* the empty one the legacy rows stand for rows that are not there).
Init ==
    /\ pc = [p \in Procs |-> "start"]
    /\ \/ schema = "none" /\ users = {} /\ events = [e \in Legacy |-> Sealed]
       \/ /\ schema = "old"
          /\ users = {[email |-> EmailOf[Api], password |-> Pin]}
          /\ events = [e \in Legacy |-> [seals |-> 0, encrypted |-> FALSE]]
    /\ dirty = FALSE
    /\ printed = {}
    /\ todo = {}
    /\ failures = 0
    /\ unshown = {}

Goto(p, there) == pc' = [pc EXCEPT ![p] = there]
Exit(p) == Goto(p, "start")

-----------------------------------------------------------------------------
(* main, the API only *)

\* runMigrations: m.Up takes one migration after the other (here the first, that
\* creates the tables, and all later ones).  It marks the version dirty, applies
\* the file and marks the version clean.  When it finds a dirty version it
\* returns ErrDirty and the process exits: it never leaves "start".
MigrateMark ==
    /\ pc[Api] = "start" /\ ~ dirty /\ schema # "current"
    /\ dirty' = TRUE
    /\ Goto(Api, "apply")
    /\ UNCHANGED <<schema, users, printed, events, todo, failures, unshown>>

MigrateApply ==
    /\ pc[Api] = "apply"
    /\ schema' = IF schema = "none" THEN "old" ELSE "current"
    /\ Goto(Api, "clean")
    /\ UNCHANGED <<dirty, users, printed, events, todo, failures, unshown>>

MigrateClean ==
    /\ pc[Api] = "clean"
    /\ dirty' = FALSE
    /\ Goto(Api, "start")
    /\ UNCHANGED <<schema, users, printed, events, todo, failures, unshown>>

\* No migration is left (ErrNoChange is no error).
MigrateDone ==
    /\ pc[Api] = "start" /\ ~ dirty /\ schema = "current"
    /\ Goto(Api, "select")
    /\ UNCHANGED <<schema, dirty, users, printed, events, todo, failures, unshown>>

\* BackfillPayloadEncryption: one SELECT, then one UPDATE for each row.
BackfillSelect ==
    /\ pc[Api] = "select"
    /\ todo' = {e \in Legacy : ~ events[e].encrypted}
    /\ Goto(Api, "seal")
    /\ UNCHANGED <<schema, dirty, users, printed, events, failures, unshown>>

\* mutant: the UPDATE forgets payload_encrypted
BackfillWithoutFlag(e) ==
    /\ pc[Api] = "seal" /\ e \in todo
    /\ events' = [events EXCEPT ![e].seals = @ + 1]
    /\ todo' = todo \ {e}
    /\ UNCHANGED <<pc, schema, dirty, users, printed, failures, unshown>>

BackfillUpdate(e) ==
    /\ pc[Api] = "seal" /\ e \in todo
    /\ events' = [events EXCEPT ![e] = [seals |-> @.seals + 1, encrypted |-> TRUE]]
    /\ todo' = todo \ {e}
    /\ UNCHANGED <<pc, schema, dirty, users, printed, failures, unshown>>

BackfillDone ==
    /\ pc[Api] = "seal" /\ todo = {}
    /\ Goto(Api, "count")
    /\ UNCHANGED <<schema, dirty, users, printed, events, todo, failures, unshown>>

WorkerStart(p) ==
    /\ p # Api /\ pc[p] = "start"
    /\ Goto(p, "count")
    /\ UNCHANGED <<schema, dirty, users, printed, events, todo, failures, unshown>>

-----------------------------------------------------------------------------
(* bootstrapAdmin *)

\* mutant: an error of CountUsers counts as users that exist
CountUsersErrorIgnored(p) ==
    /\ pc[p] = "count"
    /\ IF schema # "none" /\ users = {} THEN Goto(p, "create") ELSE Goto(p, "dial")
    /\ UNCHANGED <<schema, dirty, users, printed, events, todo, failures, unshown>>

\* mutant: the admin is created whatever the count
CountUsersIgnored(p) ==
    /\ pc[p] = "count"
    /\ IF schema # "none" THEN Goto(p, "create") ELSE Exit(p)
    /\ UNCHANGED <<schema, dirty, users, printed, events, todo, failures, unshown>>

\* Without the table the query fails, and the process exits.
CountUsers(p) ==
    /\ pc[p] = "count"
    /\ IF schema = "none" THEN Exit(p)
       ELSE IF users = {} THEN Goto(p, "create") ELSE Goto(p, "dial")
    /\ UNCHANGED <<schema, dirty, users, printed, events, todo, failures, unshown>>

Password(p) == IF p \in Pinned THEN Pin ELSE p
Admin(p) == [email |-> EmailOf[p], password |-> Password(p)]
EmailTaken(p) == \E u \in users : u.email = EmailOf[p]

AfterCreateQuiet(p) == "dial"       \* mutant: the password is not shown

AfterCreate(p) == IF p \in Pinned THEN "dial" ELSE "print"

\* users.email is UNIQUE: the process that comes second exits.
CreateUser(p) ==
    /\ pc[p] = "create"
    /\ IF EmailTaken(p) THEN Exit(p) /\ UNCHANGED users
       ELSE Goto(p, AfterCreate(p)) /\ users' = users \cup {Admin(p)}
    /\ UNCHANGED <<schema, dirty, printed, events, todo, failures, unshown>>

\* The INSERT is committed, but CreateUser returns an error (the connection was
\* lost): the process exits before it gets to show the password.
CreateUserError(p) ==
    /\ failures < MaxFailures
    /\ pc[p] = "create" /\ ~ EmailTaken(p)
    /\ users' = users \cup {Admin(p)}
    /\ failures' = failures + 1
    /\ Exit(p)
    /\ unshown' = unshown \cup ({p} \ Pinned)
    /\ UNCHANGED <<schema, dirty, printed, events, todo>>

PrintPassword(p) ==
    /\ pc[p] = "print"
    /\ printed' = printed \cup {Admin(p)}
    /\ Goto(p, "dial")
    /\ UNCHANGED <<schema, dirty, users, events, todo, failures, unshown>>

-----------------------------------------------------------------------------
\* dialTemporal retries for three minutes; runAPI, runWorker.
Dial(p) ==
    /\ pc[p] = "dial"
    /\ Goto(p, "serve")
    /\ UNCHANGED <<schema, dirty, users, printed, events, todo, failures, unshown>>

DialFails(p) ==
    /\ pc[p] = "dial"
    /\ Exit(p)
    /\ UNCHANGED <<schema, dirty, users, printed, events, todo, failures, unshown>>

\* The process is killed, or a statement fails: every error ends main.
Crash(p) ==
    /\ failures < MaxFailures
    /\ pc[p] # "start"
    /\ failures' = failures + 1
    /\ Exit(p)
    /\ unshown' = IF pc[p] = "print" THEN unshown \cup {p} ELSE unshown
    /\ UNCHANGED <<schema, dirty, users, printed, events, todo>>

Migrate == MigrateMark \/ MigrateApply \/ MigrateClean \/ MigrateDone

Step(p) ==
    \/ p = Api /\ (Migrate \/ BackfillSelect \/ BackfillDone
                     \/ \E e \in Legacy : BackfillUpdate(e))
    \/ WorkerStart(p) \/ CountUsers(p) \/ CreateUser(p) \/ PrintPassword(p)

Next ==
    \/ Migrate \/ BackfillSelect \/ BackfillDone
    \/ \E e \in Legacy : BackfillUpdate(e)
    \/ \E p \in Procs : WorkerStart(p)
    \/ \E p \in Procs : CountUsers(p)
    \/ \E p \in Procs : CreateUser(p)
    \/ \E p \in Procs : CreateUserError(p)
    \/ \E p \in Procs : PrintPassword(p)
    \/ \E p \in Procs : Dial(p)
    \/ \E p \in Procs : DialFails(p)
    \/ \E p \in Procs : Crash(p)

Spec == Init /\ [][Next]_vars

\* A process goes on and is restarted; Temporal does not refuse every dial.
FairSpec == Spec /\ \A p \in Procs : WF_vars(Step(p)) /\ SF_vars(Dial(p))

-----------------------------------------------------------------------------
\* However often the API is killed between two rows of the backfill, a row
\* opens to what was stored: payload_encrypted tells whether the bytes are
\* sealed, and they are sealed once (event_crypto.go:11-74).
PayloadOpens ==
    \A e \in Legacy : events[e].seals = IF events[e].encrypted THEN 1 ELSE 0

\* A process that serves has found the users table, with a user in it (whose
\* password PasswordKnown is about); the API has the current schema behind it,
\* with no migration cut short, and no plain payload left (main.go:52-90).  A
\* worker may serve with the schema of the older release.
ServesReady ==
    \A p \in Procs : pc[p] = "serve" =>
        /\ schema # "none" /\ users # {}
        /\ p = Api => /\ schema = "current" /\ ~ dirty
                      /\ \A e \in Legacy : events[e].encrypted

\* The API died in the middle of a migration: m.Up fails at each start, until
\* somebody repairs schema_migrations by hand.
CutShort == dirty /\ pc[Api] = "start"

\* Every process ends up serving for good: losing the race for the admin,
\* starting before the migrations, or being killed or failing anywhere else
\* costs a restart and no more.  A migration cut short costs the API, and costs
\* the workers only when it was the one that creates the tables
\* (main.go:51-58, 218-229).
AllServe ==
    <>[](\A p \in Procs :
            pc[p] = "serve" \/ (CutShort /\ (p = Api \/ schema = "none")))

\* API and workers race to create the admin (main.go:231-263).  Nobody is
\* misled: a password that was shown is the password of a user.  And nobody is
\* locked out: the password of every user is the operator's or was shown,
\* whichever process won, unless that process was killed between CreateUser
\* and its log line, or was told that an INSERT failed that was committed.
PasswordKnown ==
    /\ printed \subseteq users
    /\ \A u \in users :
          \/ u.password = Pin \/ u \in printed \/ u.password \in unshown
          \/ \E p \in Procs : pc[p] = "print" /\ u = Admin(p)

=============================================================================
