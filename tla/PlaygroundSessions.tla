------------------------- MODULE PlaygroundSessions -------------------------
(***************************************************************************)
(* The table playground_sessions and what changes it: playgroundBootstrap, *)
(* which counts the sessions, evicts one at the limit and creates one, in  *)
(* three statements that no transaction holds together; every handler that *)
(* touches last_seen_at; and the garbage collector of playgroundGC.        *)
(* Bootstraps of one address share a bucket of the rate limiter.           *)
(*                                                                         *)
(* The order of last_seen_at is the relation older.  An eviction is a      *)
(* DELETE of the rows that its sub-select has chosen; under READ COMMITTED *)
(* others change the table between the two, so it takes two steps.  The    *)
(* connection that is created with a session outlives it.                  *)
(***************************************************************************)
EXTENDS RateLimiter, FiniteSets

CONSTANTS
    Sessions,       \* UUIDs of sessions
    Visitors,       \* browsers of one address, each with a cookie and one
                    \* request at a time
    Collector,      \* the goroutine of playgroundGC
    MaxSessions,    \* TUMA_PLAYGROUND_MAX_SESSIONS
    NoSession,
    MaxSlips        \* bound: counts of bootstraps that fail, and evictions
                    \* of theirs that remove nothing

ASSUME SessionsAssumption ==
    /\ MaxSessions \in Nat \ {0}
    /\ IsFiniteSet(Visitors) /\ Visitors # {}
    /\ Collector \notin Visitors
    /\ NoSession \notin Sessions
    /\ MaxSlips \in Nat

VARIABLES
    rows,           \* the sessions in the table
    older,          \* pairs of rows, the first seen less recently
    drawn,          \* ids drawn so far; their connections exist
    cookie,         \* the session in each visitor's cookie
    boot,           \* where each visitor's bootstrap stands
    gc,             \* where the collector stands
    excess,         \* the number of rows the collector has decided to evict
    doomed,         \* the rows that each DELETE under way has chosen
    slips           \* history: counts of bootstraps that have failed, and
                    \* evictions of theirs that have removed nothing

table == <<rows, older>>
vars == <<table, drawn, cookie, boot, gc, excess, doomed, slips, limiterVars>>

\* Every variable keeps its type, and the rows are in one order.
TypeOK ==
    /\ drawn \subseteq Sessions
    /\ rows \subseteq drawn
    /\ older \subseteq rows \X rows
    /\ \A s, t \in rows : s # t => (<<s, t>> \in older <=> <<t, s>> \notin older)
    /\ cookie \in [Visitors -> drawn \cup {NoSession}]
    /\ boot \in [Visitors -> {"idle", "count", "evict", "delete", "create"}]
    /\ gc \in {"idle", "count", "evict", "delete"}
    /\ excess \in Nat
    /\ doomed \in [Visitors \cup {Collector} -> SUBSET drawn]
    /\ slips \in 0 .. MaxSlips
    /\ LimiterTypeOK

Init ==
    /\ rows = {} /\ older = {}
    /\ drawn = {}
    /\ cookie = [v \in Visitors |-> NoSession]
    /\ boot = [v \in Visitors |-> "idle"]
    /\ gc = "idle"
    /\ excess = 0
    /\ doomed = [g \in Visitors \cup {Collector} |-> {}]
    /\ slips = 0
    /\ LimiterInit

Valid(v) == cookie[v] \in rows

Goto(v, there) == boot' = [boot EXCEPT ![v] = there]

\* Ids are only compared with each other: any unused one will do.
NewID == CHOOSE s \in Sessions : s \notin drawn

\* Row s becomes the one seen last.
Youngest(s) == (older \ ({s} \X rows)) \cup ((rows \ {s}) \X {s})

Remove(S) ==
    /\ rows' = rows \ S
    /\ older' = older \cap (rows' \X rows')

\* The rows of S are the oldest ones of the table.
Oldest(S) == \A s \in S, t \in rows \ S : <<s, t>> \in older

-----------------------------------------------------------------------------
(* EvictOldestPlaygroundSessions(n) of evictor g *)

\* SELECT id ... ORDER BY last_seen_at ASC LIMIT n.
ChooseOldest(g, n) ==
    \E S \in SUBSET rows :
        /\ Oldest(S) /\ Cardinality(S) = AtMost(n, Cardinality(rows))
        /\ doomed' = [doomed EXCEPT ![g] = S]

\* DELETE ... WHERE id IN (...): a chosen row that somebody else has deleted
\* is skipped, one that was touched meanwhile is not.
DeleteChosen(g) ==
    /\ Remove(doomed[g])
    /\ doomed' = [doomed EXCEPT ![g] = {}]

-----------------------------------------------------------------------------
\* TouchPlaygroundSession, SetPlaygroundFailDestination: status, stream,
\* simulate, break and fix.
Touch(v) ==
    /\ boot[v] = "idle"
    /\ Valid(v)
    /\ older' = Youngest(cookie[v])
    /\ UNCHANGED <<rows, drawn, cookie, boot, gc, excess, doomed, slips, limiterVars>>

\* The cookie expires, or a new browser takes the place of the old one.
LoseCookie(v) ==
    /\ boot[v] = "idle"
    /\ cookie[v] # NoSession
    /\ cookie' = [cookie EXCEPT ![v] = NoSession]
    /\ UNCHANGED <<table, drawn, boot, gc, excess, doomed, slips, limiterVars>>

-----------------------------------------------------------------------------
(* playgroundBootstrap *)

\* The bucket comes first, whatever the cookie is worth.
RateLimited(v) ==
    /\ boot[v] = "idle"
    /\ Refuse
    /\ UNCHANGED <<table, drawn, cookie, boot, gc, excess, doomed, slips>>

\* A valid cookie is touched.  Errors are ignored: without the connection the
\* visitor gets another session.
Return(v) ==
    /\ boot[v] = "idle"
    /\ allow
    /\ Valid(v)
    /\ older' \in {older, Youngest(cookie[v])}
    /\ Goto(v, "idle") \/ Goto(v, "count")
    /\ UNCHANGED <<rows, drawn, cookie, gc, excess, doomed, slips>>

Bootstrap(v) ==
    /\ boot[v] = "idle"
    /\ allow
    /\ ~ Valid(v)
    /\ Goto(v, "count")
    /\ UNCHANGED <<table, drawn, cookie, gc, excess, doomed, slips>>

Slip == slips < MaxSlips /\ slips' = slips + 1

\* mutant: the limit is checked with > instead of >=
CountTooLate(v) ==
    /\ boot[v] = "count"
    /\ Goto(v, IF Cardinality(rows) > MaxSessions THEN "evict" ELSE "create")
    /\ UNCHANGED <<table, drawn, cookie, gc, excess, doomed, slips, limiterVars>>

\* An error of the count is taken for a table that has room.
CountPlaygroundSessions(v) ==
    /\ boot[v] = "count"
    /\ \/ /\ Goto(v, IF Cardinality(rows) >= MaxSessions THEN "evict" ELSE "create")
          /\ UNCHANGED slips
       \/ Slip /\ Goto(v, "create")
    /\ UNCHANGED <<table, drawn, cookie, gc, excess, doomed, limiterVars>>

EvictBegin(v) ==
    /\ boot[v] = "evict"
    /\ ChooseOldest(v, 1)
    /\ Goto(v, "delete")
    /\ UNCHANGED <<table, drawn, cookie, gc, excess, slips, limiterVars>>

\* Neither the error of the eviction nor the number of its rows is looked at.
EvictEnd(v) ==
    /\ boot[v] = "delete"
    /\ \/ /\ DeleteChosen(v)
          /\ IF doomed[v] \cap rows = {} THEN Slip ELSE UNCHANGED slips
       \/ Slip /\ doomed' = [doomed EXCEPT ![v] = {}] /\ UNCHANGED table
    /\ Goto(v, "create")
    /\ UNCHANGED <<drawn, cookie, gc, excess, limiterVars>>

\* If the commit reports an error the session is there and no browser has it.
CreatePlaygroundSession(v) ==
    /\ boot[v] = "create"
    /\ drawn # Sessions
    /\ rows' = rows \cup {NewID}
    /\ older' = older \cup (rows \X {NewID})
    /\ drawn' = drawn \cup {NewID}
    /\ cookie' \in {cookie, [cookie EXCEPT ![v] = NewID]}
    /\ Goto(v, "idle")
    /\ UNCHANGED <<gc, excess, doomed, slips, limiterVars>>

\* The transaction fails.  Also how a bootstrap ends that finds no id left.
CreateFails(v) ==
    /\ boot[v] = "create"
    /\ Goto(v, "idle")
    /\ UNCHANGED <<table, drawn, cookie, gc, excess, doomed, slips, limiterVars>>

-----------------------------------------------------------------------------
(* playgroundGC *)

\* DeletePlaygroundSessionsOlderThan: the rows that were idle for too long.
DeleteIdle(S) ==
    /\ gc = "idle"
    /\ Oldest(S)
    /\ Remove(S)
    /\ gc' = "count"
    /\ UNCHANGED <<drawn, cookie, boot, excess, doomed, slips, limiterVars>>

\* mutant: the collector only looks at idle sessions
CountNothing ==
    /\ gc = "count"
    /\ gc' = "idle"
    /\ UNCHANGED <<table, drawn, cookie, boot, excess, doomed, slips, limiterVars>>

CountExcess ==
    /\ gc = "count"
    /\ IF Cardinality(rows) > MaxSessions
       THEN gc' = "evict" /\ excess' = Cardinality(rows) - MaxSessions
       ELSE gc' = "idle" /\ UNCHANGED excess
    /\ UNCHANGED <<table, drawn, cookie, boot, doomed, slips, limiterVars>>

\* The excess may be out of date by now.
ExcessBegin ==
    /\ gc = "evict"
    /\ ChooseOldest(Collector, excess)
    /\ gc' = "delete"
    /\ excess' = 0
    /\ UNCHANGED <<table, drawn, cookie, boot, slips, limiterVars>>

ExcessEnd ==
    /\ gc = "delete"
    /\ DeleteChosen(Collector)
    /\ gc' = "idle"
    /\ UNCHANGED <<drawn, cookie, boot, excess, slips, limiterVars>>

\* One of the statements fails; the collector waits for its next tick.
CollectFails ==
    /\ gc # "idle"
    /\ gc' = "idle"
    /\ excess' = 0
    /\ doomed' = [doomed EXCEPT ![Collector] = {}]
    /\ UNCHANGED <<table, drawn, cookie, boot, slips, limiterVars>>

\* Time passes for the rate limiter.
Tick ==
    /\ LimiterTick
    /\ UNCHANGED <<table, drawn, cookie, boot, gc, excess, doomed, slips>>

Handler(v) ==
    \/ CountPlaygroundSessions(v) \/ EvictBegin(v) \/ EvictEnd(v)
    \/ CreatePlaygroundSession(v) \/ CreateFails(v)

Next ==
    \/ \E v \in Visitors : Touch(v)
    \/ \E v \in Visitors : LoseCookie(v)
    \/ \E v \in Visitors : RateLimited(v)
    \/ \E v \in Visitors : Return(v)
    \/ \E v \in Visitors : Bootstrap(v)
    \/ \E v \in Visitors : CountPlaygroundSessions(v)
    \/ \E v \in Visitors : EvictBegin(v)
    \/ \E v \in Visitors : EvictEnd(v)
    \/ \E v \in Visitors : CreatePlaygroundSession(v)
    \/ \E v \in Visitors : CreateFails(v)
    \/ \E S \in SUBSET rows : DeleteIdle(S)
    \/ CountExcess
    \/ ExcessBegin
    \/ ExcessEnd
    \/ CollectFails
    \/ Tick

Spec == Init /\ [][Next]_vars

\* The ticker of the collector fires, a handler finishes, and the database
\* does not refuse the collector's statements for ever.
FairSpec ==
    /\ Spec
    /\ \A v \in Visitors : WF_vars(Handler(v))
    /\ WF_vars(\E S \in SUBSET rows : DeleteIdle(S))
    /\ SF_vars(CountExcess)
    /\ SF_vars(ExcessBegin)
    /\ SF_vars(ExcessEnd)

-----------------------------------------------------------------------------
Creating == {v \in Visitors : boot[v] = "create"}

\* The limit is not exact.  Bootstraps that count at once exceed it by less
\* than their number, and what comes on top is accounted for: one row for each
\* count that failed, which the handler takes for room, and for each eviction
\* that failed or found its row deleted by a concurrent one.  A session that
\* is about to be created counts as one (playground.go:108-123, storage
\* playground.go:104-111).
SessionBound ==
    Cardinality(rows) + Cardinality(Creating)
        <= MaxSessions + Cardinality(Visitors) - 1 + slips

\* Whatever races and errors came before, the collector brings the table
\* back to the limit once no session is created (playground.go:408-434).
LimitRestored == <>[](Cardinality(rows) <= MaxSessions)

=============================================================================
