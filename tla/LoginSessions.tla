---------------------------- MODULE LoginSessions ----------------------------
(***************************************************************************)
(* Console logins: the table sessions, the cookie in the operator's        *)
(* browser, and what auth accepts.  A request carries the cookie of the    *)
(* time it was sent.  Rows are never removed but by logout.                *)
(***************************************************************************)
EXTENDS Integers

CONSTANTS
    Logins,         \* session ids, each drawn once
    SessionTTL      \* in ticks

ASSUME LoginAssumption == SessionTTL \in Nat \ {0}

VARIABLES
    session,        \* drawn: CreateSession has used the id; row: it is in the
                    \* table; left: ticks until expires_at
    cookie,         \* the ids in browsers
    loggedOut       \* history: ids whose logout has deleted the row

loginVars == <<session, cookie, loggedOut>>

LoginTypeOK ==
    /\ session \in [Logins -> [drawn: BOOLEAN, row: BOOLEAN, left: 0..SessionTTL]]
    /\ cookie \subseteq Logins
    /\ loggedOut \subseteq Logins

LoginInit ==
    /\ session = [l \in Logins |-> [drawn |-> FALSE, row |-> FALSE, left |-> 0]]
    /\ cookie = {} /\ loggedOut = {}

\* The credentials are right.  If CreateSession reports an error after its
\* commit the row is there and nobody has the cookie.
Login(l) ==
    /\ ~ session[l].drawn
    /\ session' = [session EXCEPT ![l] = [drawn |-> TRUE, row |-> TRUE, left |-> SessionTTL]]
    /\ cookie' \in {cookie, cookie \cup {l}}
    /\ UNCHANGED loggedOut

\* mutant: only the cookie is cleared
LogoutCookie(l) ==
    /\ l \in cookie
    /\ cookie' = cookie \ {l}
    /\ loggedOut' = loggedOut \cup {l}
    /\ UNCHANGED session

\* DeleteSession may fail; its error is ignored and the cookie is cleared.
Logout(l) ==
    /\ l \in cookie
    /\ cookie' = cookie \ {l}
    /\ \/ /\ session' = [session EXCEPT ![l].row = FALSE]
          /\ loggedOut' = loggedOut \cup {l}
       \/ UNCHANGED <<session, loggedOut>>

\* mutant: GetSession finds expired rows too
GetSessionExpired(l) == session[l].row

GetSession(l) == session[l].row /\ session[l].left > 0

\* Time passes; a browser drops an expired cookie.
SessionTick ==
    /\ session' = [l \in Logins |->
                     [session[l] EXCEPT !.left = IF @ > 0 THEN @ - 1 ELSE 0]]
    /\ session' # session
    /\ cookie' = {l \in cookie : session'[l].left > 0}
    /\ UNCHANGED loggedOut

=============================================================================
