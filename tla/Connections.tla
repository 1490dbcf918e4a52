----------------------------- MODULE Connections -----------------------------
(***************************************************************************)
(* One row of the table connections, the API's cache of it                 *)
(* (getCachedConnection), and the handlers that change it: PATCH, which    *)
(* reads the row in one statement, writes the fields that are no secret    *)
(* back in another and the secret in a third; and the playground's         *)
(* simulate, which changes the source type and then posts events to the    *)
(* connection itself.  Both write the row first and delete the cache entry *)
(* afterwards.                                                             *)
(*                                                                         *)
(* A handler is used once, and a value it writes is named after it, so     *)
(* that a value tells who wrote it.  Of the fields of a PATCH two are kept,*)
(* dest and policy: one that it sets and one that it writes back.  A load  *)
(* of the cache reads the row in one step and stores it in a later one.    *)
(* Time passes in ticks; that a load takes at most MaxLoad of them is an   *)
(* assumption on the database.                                             *)
(***************************************************************************)
EXTENDS Adapters, FiniteSets

CONSTANTS
    Requests,       \* goroutines that serve webhooks of the connection
    Patchers,       \* goroutines that serve a PATCH
    Patches,        \* what they are asked: the fields set, and a secret?
    Simulators,     \* goroutines that serve a simulate
    Providers,      \* what they are asked to simulate
    Counts,         \* numbers of events they are asked for
    Created,        \* the values the row was created with
    TTL,            \* 30 s, in ticks
    MaxHandlers,    \* bound: PATCH and simulate handlers that are started
    MaxLoad         \* assumed bound on the time between read and store

Fields == {"dest", "policy"}

ASSUME ConnectionsAssumption ==
    /\ TTL \in Nat \ {0} /\ MaxLoad \in Nat /\ Counts \subseteq 1..5
    /\ MaxHandlers \in Nat
    /\ Patches \subseteq [sets: SUBSET Fields, secret: BOOLEAN]
    /\ Providers \subseteq SourceTypes
    /\ Created \notin Patchers
    /\ None \notin Patchers \cup {Created}
    /\ None \notin [sim: Simulators, event: 0..5]

Authors == Patchers \cup {Created}
Stored == [dest: Authors, policy: Authors, secret: Authors, source: SourceTypes]
Callers == Requests \cup Simulators
Window == TTL + MaxLoad

VARIABLES
    row,            \* dest, policy, secret and source (the type) as stored
    entry,          \* the cache entry and the ticks it has left
    load,           \* the load in progress of each caller of the cache
    patch,          \* the PATCH handlers: where they are, what they have read
    sim,            \* the simulate handlers
    since,          \* history: ticks since a change was last finished
    raced,          \* history: that change left the entry, or a load was in
                    \* progress when it deleted it
    wanted,         \* history: what a handler last asked each field to be
    missed,         \* history: fields of which a PATCH in progress holds an
                    \* older value than wanted
    disturbed       \* history: simulates that met another change, or an error

cacheVars == <<entry, load>>
history == <<since, raced, wanted, missed, disturbed>>
vars == <<row, cacheVars, patch, sim, history>>

Key(r) == [secret |-> r.secret, source |-> r.source]
Keys == [secret: Authors, source: SourceTypes]

\* Stand for no entry, no load.
NoKey == [secret |-> Created, source |-> "stripe"]
NoEntry == [key |-> NoKey, left |-> 0]
NoLoad == [on |-> FALSE, key |-> NoKey, age |-> 0]

Patch == [pc: {"idle", "read", "written", "secret", "done"}, sets: SUBSET Fields,
          secret: BOOLEAN, dest: Authors, policy: Authors]

NoPatch(pc) == [pc |-> pc, sets |-> {}, secret |-> FALSE,
                dest |-> Created, policy |-> Created]

Sim == [pc: {"idle", "read", "switched", "send", "ok", "error"},
        provider: SourceTypes, secret: Authors, left: 0..5, arrived: BOOLEAN]

\* Every variable keeps its type, and nothing is cached for longer than the TTL.
TypeOK ==
    /\ row \in Stored
    /\ entry \in [key: Keys, left: 0..TTL]
    /\ load \in [Callers -> [on: BOOLEAN, key: Keys, age: 0..MaxLoad]]
    /\ patch \in [Patchers -> Patch]
    /\ sim \in [Simulators -> Sim]
    /\ since \in 0..(Window + 1)
    /\ raced \in BOOLEAN
    /\ wanted \in Stored
    /\ missed \subseteq Fields
    /\ disturbed \subseteq Simulators

\* The row as CreatePlaygroundSession has inserted it.
NewRow == [dest |-> Created, policy |-> Created, secret |-> Created, source |-> "stripe"]

Init ==
    /\ row = NewRow
    /\ entry = NoEntry
    /\ load = [q \in Callers |-> NoLoad]
    /\ patch = [p \in Patchers |-> NoPatch("idle")]
    /\ sim = [s \in Simulators |-> [pc |-> "idle", provider |-> "stripe",
                                    secret |-> Created, left |-> 0, arrived |-> TRUE]]
    /\ since = 0 /\ raced = FALSE
    /\ wanted = row /\ missed = {} /\ disturbed = {}

Loading == \E q \in Callers : load[q].on

\* Some caller will use, or has just read, a key that was replaced.
Outdated ==
    \/ entry.left > 0 /\ entry.key # Key(row)
    \/ \E q \in Callers : load[q].on /\ load[q].key # Key(row)

Simulating == {s \in Simulators : sim[s].pc \in {"read", "switched", "send"}}

MayStart ==
    Cardinality({p \in Patchers : patch[p].pc # "idle"})
      + Cardinality({s \in Simulators : sim[s].pc # "idle"}) < MaxHandlers

PatchGoes(p, pc) == patch' = [patch EXCEPT ![p].pc = pc]
PatchEnds(p) == patch' = [patch EXCEPT ![p] = NoPatch("done")]
SimGoes(s, pc) == sim' = [sim EXCEPT ![s].pc = pc]
SimEnds(s, pc) ==
    sim' = [sim EXCEPT ![s].pc = pc, ![s].secret = Created, ![s].left = 0]

\* A change of the secret or the type is over: the entry was deleted, or the
\* handler has given up before it could.
Finished(left) == since' = 0 /\ raced' = left

-----------------------------------------------------------------------------
(* getCachedConnection and what ingest does with the answer *)

Calls(q) ==
    /\ ~ load[q].on
    /\ q \in Simulators => sim[q].pc = "send" /\ sim[q].provider \in Simulated

\* ingest accepts the event and stores it under the id it was sent with.
Arrives(s, key) ==
    LET id == [sim |-> s, event |-> sim[s].left]
        req == buildSignedRequest(sim[s].provider, sim[s].secret, id)
    IN  /\ Verify(key.source, req, key.secret)
        /\ ExtractEventID(key.source, req) = Named(id)

\* One event of SendEvents has its answer.
Answered(s, a) ==
    sim' = [sim EXCEPT ![s].arrived = @ /\ a, ![s].left = @ - 1,
              ![s].pc = IF sim[s].left = 1 THEN "ok" ELSE "send",
              ![s].secret = IF sim[s].left = 1 THEN Created ELSE @]

Serve(q, key) ==
    \/ q \in Requests /\ UNCHANGED sim
    \/ q \in Simulators /\ Answered(q, Arrives(q, key))

Hit(q) ==
    /\ Calls(q)
    /\ entry.left > 0
    /\ Serve(q, entry.key)
    /\ UNCHANGED <<row, entry, load, patch, history>>

\* No entry, or an expired one: GetConnectionByInboundPath.
Miss(q) ==
    /\ Calls(q)
    /\ entry.left = 0
    /\ load' = [load EXCEPT ![q] = [on |-> TRUE, key |-> Key(row), age |-> 0]]
    /\ UNCHANGED <<row, entry, patch, sim, history>>

\* mutant: the entry expires a load later than it should
StoreLonger(q) ==
    /\ load[q].on
    /\ entry' = [key |-> load[q].key, left |-> TTL + load[q].age]
    /\ load' = [load EXCEPT ![q] = NoLoad]
    /\ Serve(q, load[q].key)
    /\ UNCHANGED <<row, patch, history>>

Store(q) ==
    /\ load[q].on
    /\ entry' = [key |-> load[q].key, left |-> TTL]
    /\ load' = [load EXCEPT ![q] = NoLoad]
    /\ Serve(q, load[q].key)
    /\ UNCHANGED <<row, patch, history>>

\* The query or the decryption fails: 404, and nothing is stored.
LoadFails(q) ==
    /\ load[q].on
    /\ load' = [load EXCEPT ![q] = NoLoad]
    /\ \/ q \in Requests /\ UNCHANGED <<sim, disturbed>>
       \/ /\ q \in Simulators /\ Answered(q, FALSE)
          /\ disturbed' = disturbed \cup {q}
    /\ UNCHANGED <<row, entry, patch, since, raced, wanted, missed>>

-----------------------------------------------------------------------------
(* patchConnection *)

GetConnection(p, asked) ==
    /\ patch[p].pc = "idle" /\ MayStart
    /\ patch' = [patch EXCEPT ![p] = 
                   [pc |-> "read", sets |-> asked.sets, secret |-> asked.secret,
                    dest |-> row.dest, policy |-> row.policy]]
    /\ UNCHANGED <<row, cacheVars, sim, history>>

\* mutant: a field that is not in the request is reset
UpdatedBlank(p, f) == IF f \in patch[p].sets THEN p ELSE Created

Updated(p, f) == IF f \in patch[p].sets THEN p ELSE patch[p][f]

\* UpdateConnection writes every field it has read.  If it reports an error
\* the answer is 404, whether or not the UPDATE was committed.
UpdateConnection(p) ==
    /\ patch[p].pc = "read"
    /\ row' = [row EXCEPT !.dest = Updated(p, "dest"), !.policy = Updated(p, "policy")]
    /\ wanted' = [f \in DOMAIN wanted |-> IF f \in patch[p].sets THEN p ELSE wanted[f]]
    /\ missed' = {f \in Fields :
                    IF f \in patch[p].sets
                    THEN \E o \in Patchers \ {p} : patch[o].pc = "read"
                    ELSE f \in missed}
    /\ PatchGoes(p, "written") \/ PatchEnds(p)
    /\ UNCHANGED <<cacheVars, sim, since, raced, disturbed>>

\* A statement fails, or the new secret is empty: what was written stays.
PatchRefused(p) ==
    /\ \/ patch[p].pc = "read"
       \/ patch[p].pc = "written" /\ patch[p].secret
    /\ PatchEnds(p)
    /\ UNCHANGED <<row, cacheVars, sim, history>>

\* It runs under the request's context: an error it reports after the commit
\* makes the handler answer 500 and leave the cache entry.
UpdateConnectionSecret(p) ==
    /\ patch[p].pc = "written" /\ patch[p].secret
    /\ row' = [row EXCEPT !.secret = p]
    /\ wanted' = [wanted EXCEPT !.secret = p]
    /\ disturbed' = disturbed \cup Simulating
    /\ \/ PatchGoes(p, "secret") /\ UNCHANGED <<since, raced>>
       \/ PatchEnds(p) /\ Finished(TRUE)
    /\ UNCHANGED <<cacheVars, sim, missed>>

\* mutant: the handler forgets the cache
NoDelete(p) ==
    /\ patch[p].pc = "secret"
    /\ Finished(Loading)
    /\ PatchEnds(p)
    /\ UNCHANGED <<row, cacheVars, sim, wanted, missed, disturbed>>

\* connCache.Delete, after which the handler answers.
DeleteEntry(p) ==
    /\ \/ patch[p].pc = "secret" /\ Finished(Loading)
       \/ /\ patch[p].pc = "written" /\ ~ patch[p].secret
          /\ UNCHANGED <<since, raced>>
    /\ entry' = NoEntry
    /\ PatchEnds(p)
    /\ UNCHANGED <<row, load, sim, wanted, missed, disturbed>>

-----------------------------------------------------------------------------
(* playgroundSimulate, behind its rate limit and session lookup *)

SimRead(s, provider, count) ==
    /\ sim[s].pc = "idle" /\ MayStart
    /\ sim' = [sim EXCEPT ![s] =
                 [pc |-> IF row.source = provider THEN "send" ELSE "read",
                  provider |-> provider, secret |-> row.secret, left |-> count,
                  arrived |-> TRUE]]
    /\ disturbed' = IF Outdated THEN disturbed \cup {s} ELSE disturbed
    /\ UNCHANGED <<row, cacheVars, patch, since, raced, wanted, missed>>

\* An error that is reported after the commit leaves the cache entry.
UpdateConnectionSourceType(s) ==
    /\ sim[s].pc = "read"
    /\ row' = [row EXCEPT !.source = sim[s].provider]
    /\ wanted' = [wanted EXCEPT !.source = sim[s].provider]
    /\ disturbed' = disturbed \cup (Simulating \ {s}) \cup {x \in {s} : Loading}
    /\ \/ SimGoes(s, "switched") /\ UNCHANGED <<since, raced>>
       \/ SimEnds(s, "error") /\ Finished(TRUE)
    /\ UNCHANGED <<cacheVars, patch, missed>>

\* mutant: the new type is not made known to the cache
SimKeepsEntry(s) ==
    /\ sim[s].pc = "switched"
    /\ SimGoes(s, "send")
    /\ Finished(Loading)
    /\ UNCHANGED <<row, cacheVars, patch, wanted, missed, disturbed>>

SimDeleteEntry(s) ==
    /\ sim[s].pc = "switched"
    /\ entry' = NoEntry
    /\ SimGoes(s, "send")
    /\ Finished(Loading)
    /\ UNCHANGED <<row, load, patch, wanted, missed, disturbed>>

\* mutant: a provider that cannot be simulated is skipped
SimulateSkips(s) ==
    /\ sim[s].pc = "send" /\ ~ load[s].on
    /\ SimEnds(s, "ok")
    /\ UNCHANGED <<row, cacheVars, patch, history>>

\* The UPDATE or the decryption fails, buildSignedRequest knows no such
\* provider, or the POST fails.  A type that was changed stays changed.
SimulateFails(s) ==
    /\ sim[s].pc \in {"read", "send"} /\ ~ load[s].on
    /\ SimEnds(s, "error")
    /\ UNCHANGED <<row, cacheVars, patch, history>>

-----------------------------------------------------------------------------
\* One tick of time.
Tick ==
    /\ \A q \in Callers : load[q].on => load[q].age < MaxLoad
    /\ load' = [q \in Callers |->
                  IF load[q].on THEN [load[q] EXCEPT !.age = @ + 1] ELSE load[q]]
    /\ entry' = IF entry.left > 1 THEN [entry EXCEPT !.left = @ - 1] ELSE NoEntry
    /\ since' = IF since <= Window THEN since + 1 ELSE since
    /\ UNCHANGED <<row, patch, sim, raced, wanted, missed, disturbed>>

Next ==
    \/ \E q \in Callers : Hit(q)
    \/ \E q \in Callers : Miss(q)
    \/ \E q \in Callers : Store(q)
    \/ \E q \in Callers : LoadFails(q)
    \/ \E p \in Patchers, asked \in Patches : GetConnection(p, asked)
    \/ \E p \in Patchers : UpdateConnection(p)
    \/ \E p \in Patchers : PatchRefused(p)
    \/ \E p \in Patchers : UpdateConnectionSecret(p)
    \/ \E p \in Patchers : DeleteEntry(p)
    \/ \E s \in Simulators, provider \in Providers, count \in Counts :
         SimRead(s, provider, count)
    \/ \E s \in Simulators : UpdateConnectionSourceType(s)
    \/ \E s \in Simulators : SimDeleteEntry(s)
    \/ \E s \in Simulators : SimulateFails(s)
    \/ Tick

Spec == Init /\ [][Next]_vars

-----------------------------------------------------------------------------
Settled ==
    /\ \A p \in Patchers : patch[p].pc # "secret"
    /\ \A s \in Simulators : sim[s].pc # "switched"

StaleEntry == entry.left > 0 /\ entry.key # Key(row)

\* The Delete of handlers.go:263 and playground.go:282 has its effect at once
\* unless it was raced: a usable entry that is out of date was stored by a
\* load that was in progress when the last change was finished, or the last
\* change reported an error on its way to the Delete.
StaleOnlyByRace == Settled /\ StaleEntry => raced

\* The races of server.go:116-125 heal: once every change is finished, an out
\* of date entry expires within the TTL plus the time of one load, and a load
\* that has read an older row began before the change was finished.  A
\* webhook that arrives later than that is verified with the current secret
\* and by the adapter of the current type, whatever came before.
StaleExpires ==
    Settled =>
        /\ StaleEntry => since + entry.left <= Window
        /\ \A q \in Callers : load[q].on /\ load[q].key # Key(row) => since <= load[q].age

\* UpdateConnection (store.go:192-222) undoes what another PATCH has set only
\* when it has read the row before that PATCH wrote it and writes it after;
\* it never undoes a change of the secret or of the source type.
LostOnlyByOverlap ==
    \A f \in DOMAIN row : row[f] # wanted[f] => f \in missed

\* The simulator and the adapters agree (simulate.go:72-171,
\* adapters.go:38-161): every event of a simulate is accepted and stored under
\* the id the visitor is shown, unless the secret or the type changed
\* meanwhile, a webhook was loading the old type when the simulate changed
\* it, the cache entry was out of date when it began, or a statement failed.
SimulatedArrives ==
    \A s \in Simulators \ disturbed : sim[s].arrived

\* A simulate changes the type before it finds out that it cannot simulate
\* the provider (playground.go:276-297), but then it never answers 200: a
\* connection of a type without simulator was left by a simulate that is
\* still running or has reported an error.
StrandedTypeReported ==
    row.source \notin Simulated =>
        \E s \in Simulators : /\ sim[s].provider = row.source
                              /\ sim[s].pc \in {"switched", "send", "error"}

=============================================================================
