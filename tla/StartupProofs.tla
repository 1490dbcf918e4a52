---------------------------- MODULE StartupProofs ----------------------------
(***************************************************************************)
(* For any number of workers, of kills and of failed statements, whichever *)
(* processes have the pinned password: payloads stay readable, who serves  *)
(* is ready, and no password is lost but by a kill or a false error before *)
(* it is shown.                                                            *)
(***************************************************************************)
EXTENDS Startup, TLAPS

\* What the API has behind it at each point of main.
ApiProgress ==
    /\ pc[Api] \notin {"start", "apply", "clean"} => schema = "current" /\ ~ dirty
    /\ pc[Api] = "seal" => todo = {e \in Legacy : ~ events[e].encrypted}
    /\ pc[Api] \notin {"start", "apply", "clean", "select", "seal"} =>
         \A e \in Legacy : events[e].encrypted

\* What bootstrapAdmin has left behind in any process.
AdminProgress ==
    \A p \in Procs :
        /\ pc[p] \in {"create", "print", "dial", "serve"} => schema # "none"
        /\ pc[p] \in {"dial", "serve"} => users # {}
        /\ pc[p] = "print" => p \notin Pinned /\ Admin(p) \in users

StartupInv == TypeOK /\ PayloadOpens /\ ApiProgress /\ AdminProgress /\ PasswordKnown

\* The row a process would insert has its type.
LEMMA AdminIsUser == ASSUME NEW p \in Procs PROVE Admin(p) \in User
BY StartupAssumption DEF Admin, User, Password

\* The API is one of the processes.
LEMMA ApiIsProc == Api \in Procs
BY DEF Procs

\* A new database or an old one, and nothing shown.
LEMMA StartupInit == Init => StartupInv
<1> SUFFICES ASSUME Init PROVE StartupInv
    OBVIOUS
<1>1. TypeOK
    <2>1. users \subseteq User
        BY StartupAssumption, ApiIsProc DEF Init, User
    <2>2. events \in [Legacy -> [seals: {0, 1}, encrypted: BOOLEAN]]
        <3>1. /\ Sealed \in [seals: {0, 1}, encrypted: BOOLEAN]
              /\ [seals |-> 0, encrypted |-> FALSE] \in [seals: {0, 1}, encrypted: BOOLEAN]
            BY DEF Sealed
        <3>2. \/ events = [e \in Legacy |-> Sealed]
              \/ events = [e \in Legacy |-> [seals |-> 0, encrypted |-> FALSE]]
            BY DEF Init
        <3> QED
            BY <3>1, <3>2
    <2>3. failures \in 0..MaxFailures
        BY StartupAssumption DEF Init
    <2> QED
        BY <2>1, <2>2, <2>3 DEF Init, TypeOK
<1>2. PayloadOpens
    BY DEF Init, PayloadOpens, Sealed
<1>3. ApiProgress /\ AdminProgress
    BY ApiIsProc DEF Init, ApiProgress, AdminProgress
<1>4. PasswordKnown
    BY DEF Init, PasswordKnown
<1> QED
    BY <1>1, <1>2, <1>3, <1>4 DEF StartupInv

\* Migrations and the backfill, which only the API runs.
LEMMA ApiStep ==
    ASSUME StartupInv,
           Migrate \/ BackfillSelect \/ BackfillDone \/ \E e \in Legacy : BackfillUpdate(e)
    PROVE  StartupInv'
<1> USE ApiIsProc DEF StartupInv
<1>1. AdminProgress' /\ PasswordKnown'
    <2>1. UNCHANGED <<users, printed, unshown>> /\ (schema' # schema => schema' # "none")
        BY DEF Migrate, MigrateMark, MigrateApply, MigrateClean, MigrateDone, BackfillSelect, BackfillDone, BackfillUpdate
    <2>2. \A p \in Procs : pc[p] = "print" <=> pc'[p] = "print"
        BY DEF Migrate, MigrateMark, MigrateApply, MigrateClean, MigrateDone, BackfillSelect, BackfillDone, BackfillUpdate, Goto, TypeOK
    <2>3. \A p \in Procs : pc'[p] \in {"create", "print", "dial", "serve"} => pc'[p] = pc[p]
        BY DEF Migrate, MigrateMark, MigrateApply, MigrateClean, MigrateDone, BackfillSelect, BackfillDone, BackfillUpdate, Goto, TypeOK
    <2> QED
        BY <2>1, <2>2, <2>3 DEF AdminProgress, PasswordKnown, Admin, Password
<1>2. CASE Migrate \/ BackfillSelect \/ BackfillDone
    <2>1. TypeOK'
        BY <1>2 DEF Migrate, MigrateMark, MigrateApply, MigrateClean, MigrateDone,
                    BackfillSelect, BackfillDone, Goto, TypeOK
    <2>2. PayloadOpens'
        BY <1>2 DEF Migrate, MigrateMark, MigrateApply, MigrateClean, MigrateDone,
                    BackfillSelect, BackfillDone, PayloadOpens
    <2>3. ApiProgress'
        BY <1>2 DEF Migrate, MigrateMark, MigrateApply, MigrateClean, MigrateDone,
                    BackfillSelect, BackfillDone, Goto, TypeOK, ApiProgress
    <2> QED BY <1>1, <2>1, <2>2, <2>3
<1>3. ASSUME NEW e \in Legacy, BackfillUpdate(e) PROVE StartupInv'
    <2>1. events[e].seals = 0
        BY <1>3 DEF BackfillUpdate, ApiProgress, PayloadOpens
    <2>2. TypeOK'
        BY <1>3, <2>1 DEF BackfillUpdate, TypeOK
    <2>3. PayloadOpens'
        BY <1>3, <2>1 DEF BackfillUpdate, TypeOK, PayloadOpens
    <2>4. ApiProgress'
        BY <1>3 DEF BackfillUpdate, TypeOK, ApiProgress
    <2> QED BY <1>1, <2>2, <2>3, <2>4
<1> QED
    BY <1>2, <1>3

\* The steps that API and workers have in common but for the creation.
LEMMA ProcStep ==
    ASSUME StartupInv, NEW p \in Procs,
           \/ WorkerStart(p) \/ CountUsers(p) \/ PrintPassword(p)
           \/ Dial(p) \/ DialFails(p) \/ Crash(p)
    PROVE  StartupInv'
<1> USE ApiIsProc DEF StartupInv, Goto, Exit
<1>1. UNCHANGED <<schema, dirty, users, events, todo>>
    BY DEF WorkerStart, CountUsers, PrintPassword, Dial, DialFails, Crash
<1>2. TypeOK'
    <2>1. CASE PrintPassword(p)
        BY <2>1, AdminIsUser DEF PrintPassword, TypeOK
    <2>2. CASE Crash(p)
        BY <2>2, StartupAssumption DEF Crash, TypeOK
    <2>3. CASE WorkerStart(p) \/ CountUsers(p) \/ Dial(p) \/ DialFails(p)
        BY <2>3 DEF WorkerStart, CountUsers, Dial, DialFails, TypeOK
    <2> QED
        BY <2>1, <2>2, <2>3
<1>3. PayloadOpens'
    BY <1>1 DEF PayloadOpens
<1>4. /\ pc'[Api] = "seal" => pc[Api] = "seal"
      /\ pc[Api] = "start" => pc'[Api] = "start"
      /\ pc[Api] \in {"apply", "clean", "select", "seal"} => pc'[Api] \in {"start", pc[Api]}
    BY DEF WorkerStart, CountUsers, PrintPassword, Dial, DialFails, Crash, TypeOK
<1>5. ApiProgress'
    BY <1>1, <1>4 DEF ApiProgress
<1>6. AdminProgress'
    BY <1>1 DEF WorkerStart, CountUsers, PrintPassword, Dial, DialFails, Crash,
                TypeOK, AdminProgress, Admin, Password
<1>7. PasswordKnown'
    <2>1. CASE PrintPassword(p)
        <3>1. printed' = printed \cup {Admin(p)} /\ Admin(p) \in users /\ unshown' = unshown
            BY <2>1 DEF PrintPassword, AdminProgress
        <3>2. \A q \in Procs : pc[q] = "print" => pc'[q] = "print" \/ q = p
            BY <2>1 DEF PrintPassword, TypeOK
        <3> QED
            BY <1>1, <3>1, <3>2 DEF PasswordKnown, Admin, Password
    <2>2. CASE Crash(p)
        <3>1. printed' = printed /\ unshown \subseteq unshown'
            BY <2>2 DEF Crash
        <3>2. \A q \in Procs : pc[q] = "print" =>
                 pc'[q] = "print" \/ (Admin(q).password \in unshown')
            BY <2>2 DEF Crash, TypeOK, AdminProgress, Admin, Password
        <3> QED
            BY <1>1, <3>1, <3>2 DEF PasswordKnown, Admin, Password
    <2>3. CASE WorkerStart(p) \/ CountUsers(p) \/ Dial(p) \/ DialFails(p)
        <3>1. UNCHANGED <<printed, unshown>>
            BY <2>3 DEF WorkerStart, CountUsers, Dial, DialFails
        <3>2. \A q \in Procs : pc[q] = "print" => pc'[q] = "print"
            BY <2>3 DEF WorkerStart, CountUsers, Dial, DialFails, TypeOK
        <3> QED
            BY <1>1, <3>1, <3>2 DEF PasswordKnown, Admin, Password
    <2> QED BY <2>1, <2>2, <2>3
<1> QED
    BY <1>2, <1>3, <1>5, <1>6, <1>7

\* The INSERT of the admin, which one process wins for each address, whether or
\* not the process learns of it.
LEMMA CreateStep ==
    ASSUME StartupInv, NEW p \in Procs, CreateUser(p) \/ CreateUserError(p)
    PROVE  StartupInv'
<1> USE ApiIsProc DEF StartupInv, Goto, Exit
<1>1. UNCHANGED <<schema, dirty, printed, events, todo>> /\ pc[p] = "create"
    BY DEF CreateUser, CreateUserError
<1>2. users' \in {users, users \cup {Admin(p)}} /\ unshown \subseteq unshown'
    BY DEF CreateUser, CreateUserError
<1>3. TypeOK'
    <2>1. users' \subseteq User
        BY AdminIsUser, <1>2 DEF TypeOK
    <2>2. CASE CreateUser(p)
        BY <1>1, <2>1, <2>2 DEF CreateUser, AfterCreate, TypeOK
    <2>3. CASE CreateUserError(p)
        BY <1>1, <2>1, <2>3, StartupAssumption DEF CreateUserError, TypeOK
    <2> QED BY <2>2, <2>3
<1>4. PayloadOpens' /\ ApiProgress'
    <2>1. /\ pc'[Api] \notin {"start", pc[Api]} => pc[Api] = "create"
          /\ pc'[Api] = "seal" => pc[Api] = "seal"
        BY DEF CreateUser, CreateUserError, AfterCreate, TypeOK
    <2> QED BY <1>1, <2>1 DEF PayloadOpens, ApiProgress
<1>5. AdminProgress'
    BY <1>1, <1>2 DEF CreateUser, CreateUserError, AfterCreate, TypeOK, AdminProgress,
                      Admin, Password
<1>6. PasswordKnown'
    <2>1. \A q \in Procs : pc[q] = "print" => pc'[q] = "print"
        BY DEF CreateUser, CreateUserError, AfterCreate, TypeOK
    <2>2. users' # users =>
             Admin(p).password = Pin \/ pc'[p] = "print" \/ Admin(p).password \in unshown'
        BY <1>1 DEF CreateUser, CreateUserError, AfterCreate, TypeOK, Admin, Password
    <2> QED
        BY <1>1, <1>2, <2>1, <2>2 DEF PasswordKnown, Admin, Password
<1> QED
    BY <1>3, <1>4, <1>5, <1>6

\* Each step of main keeps the invariant, and so does each kill.
LEMMA StartupStep == StartupInv /\ [Next]_vars => StartupInv'
<1> SUFFICES ASSUME StartupInv, [Next]_vars PROVE StartupInv'
    OBVIOUS
<1>1. CASE UNCHANGED vars
    BY <1>1 DEF vars, StartupInv, TypeOK, PayloadOpens, ApiProgress, AdminProgress,
                PasswordKnown, Admin, Password
<1>2. CASE Next
    BY <1>2, ApiStep, ProcStep, CreateStep DEF Next
<1> QED
    BY <1>1, <1>2

\* The points of main imply what is behind them (main.go:52-90, 231-263), in
\* every process and after any number of kills and failed statements.
THEOREM StartupInvariance == Spec => []StartupInv
BY StartupInit, StartupStep, PTL DEF Spec

\* However often the API is killed between two rows, payload_encrypted tells
\* the truth and no payload is sealed twice (event_crypto.go:11-74).
THEOREM BackfillIsSafe == Spec => []PayloadOpens
<1>1. StartupInv => PayloadOpens
    BY DEF StartupInv
<1> QED
    BY <1>1, StartupInvariance, PTL

\* A process gets to serve only with a user in the table, and the API only with
\* the current schema, no migration cut short and every payload sealed
\* (main.go:52-90).
THEOREM ServingIsReady == Spec => []ServesReady
<1>1. StartupInv => ServesReady
    BY DEF StartupInv, ApiProgress, AdminProgress, ServesReady
<1> QED
    BY <1>1, StartupInvariance, PTL

\* Whichever processes race for the admin and whichever have the pinned
\* password, a password that was shown works and one that was not shown was
\* kept from it by a kill or by an error for an INSERT that was committed
\* (main.go:231-263).
THEOREM NobodyLockedOut == Spec => []PasswordKnown
<1>1. StartupInv => PasswordKnown
    BY DEF StartupInv
<1> QED
    BY <1>1, StartupInvariance, PTL

=============================================================================
