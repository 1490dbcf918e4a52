-------------------------- MODULE ConnectionsProofs --------------------------
(***************************************************************************)
(* The connection row, its cache and the handlers that change it, for any  *)
(* number of webhooks, PATCHes and simulates: an out of date cache entry   *)
(* is the work of a race and expires, a PATCH is undone only by one that   *)
(* overlaps it, and a simulate that nothing disturbs arrives.              *)
(***************************************************************************)
EXTENDS Connections, TLAPS

-----------------------------------------------------------------------------
(* Types *)

Load == [on: BOOLEAN, key: Keys, age: 0..MaxLoad]

\* A simulate that still has something to do has events left, and while it
\* waits for the cache it is sending events of a provider it can simulate.
RunOK ==
    \A s \in Simulators :
        /\ sim[s].pc \in {"read", "switched", "send"} => sim[s].left > 0
        /\ load[s].on => sim[s].pc = "send" /\ sim[s].provider \in Simulated

TypeInv == TypeOK /\ RunOK

\* Only handler p of the PATCHes, or s of the simulates, has moved.
OnlyPatch(p) == \A o \in Patchers \ {p} : patch'[o] = patch[o]
OnlySim(s) == \A o \in Simulators \ {s} : sim'[o] = sim[o]

\* What the steps of a PATCH do to its local variables.
LEMMA PatchEffect ==
    ASSUME patch \in [Patchers -> Patch], NEW p \in Patchers
    PROVE  /\ \A pc \in {"written", "secret"} : PatchGoes(p, pc) =>
                /\ patch' \in [Patchers -> Patch] /\ OnlyPatch(p) /\ patch'[p].pc = pc
           /\ PatchEnds(p) =>
                /\ patch' \in [Patchers -> Patch] /\ OnlyPatch(p) /\ patch'[p].pc = "done"
<1>1. ASSUME NEW pc \in {"written", "secret"}, PatchGoes(p, pc)
      PROVE  patch' \in [Patchers -> Patch] /\ OnlyPatch(p) /\ patch'[p].pc = pc
    <2>1. [patch[p] EXCEPT !.pc = pc] \in Patch /\ [patch[p] EXCEPT !.pc = pc].pc = pc
        BY DEF Patch
    <2> QED
        BY <1>1, <2>1 DEF PatchGoes, OnlyPatch
<1>2. ASSUME PatchEnds(p)
      PROVE  patch' \in [Patchers -> Patch] /\ OnlyPatch(p) /\ patch'[p].pc = "done"
    <2>1. NoPatch("done") \in Patch /\ NoPatch("done").pc = "done"
        BY DEF NoPatch, Patch, Authors
    <2> QED
        BY <1>2, <2>1 DEF PatchEnds, OnlyPatch
<1> QED
    BY <1>1, <1>2

\* What the steps of a simulate do to its local variables.
LEMMA SimEffect ==
    ASSUME sim \in [Simulators -> Sim], NEW s \in Simulators
    PROVE  /\ \A pc \in {"switched", "send"} : SimGoes(s, pc) =>
                /\ sim' \in [Simulators -> Sim] /\ OnlySim(s) /\ sim'[s].pc = pc
                /\ sim'[s].provider = sim[s].provider /\ sim'[s].left = sim[s].left
                /\ sim'[s].secret = sim[s].secret /\ sim'[s].arrived = sim[s].arrived
           /\ SimEnds(s, "error") =>
                /\ sim' \in [Simulators -> Sim] /\ OnlySim(s) /\ sim'[s].pc = "error"
                /\ sim'[s].provider = sim[s].provider /\ sim'[s].arrived = sim[s].arrived
<1>1. ASSUME NEW pc \in {"switched", "send"}, SimGoes(s, pc)
      PROVE  /\ sim' \in [Simulators -> Sim] /\ OnlySim(s) /\ sim'[s].pc = pc
             /\ sim'[s].provider = sim[s].provider /\ sim'[s].left = sim[s].left
             /\ sim'[s].secret = sim[s].secret /\ sim'[s].arrived = sim[s].arrived
    <2>1. [sim[s] EXCEPT !.pc = pc] \in Sim
        BY DEF Sim
    <2>2. sim'[s] = [sim[s] EXCEPT !.pc = pc] /\ OnlySim(s)
        BY <1>1 DEF SimGoes, OnlySim
    <2>3. sim' \in [Simulators -> Sim]
        BY <1>1, <2>1 DEF SimGoes
    <2> QED
        BY <2>2, <2>3 DEF Sim
<1>2. ASSUME SimEnds(s, "error")
      PROVE  /\ sim' \in [Simulators -> Sim] /\ OnlySim(s) /\ sim'[s].pc = "error"
             /\ sim'[s].provider = sim[s].provider /\ sim'[s].arrived = sim[s].arrived
    <2>1. [sim[s] EXCEPT !.pc = "error", !.secret = Created, !.left = 0] \in Sim
        <3>1. sim[s] \in Sim /\ Created \in Authors
            BY DEF Authors
        <3>2. ASSUME NEW n \in 0..5, NEW c \in Authors
              PROVE  [sim[s] EXCEPT !.pc = "error", !.secret = c, !.left = n] \in Sim
            BY <3>1 DEF Sim
        <3>3. 0 \in 0..5
            OBVIOUS
        <3> QED
            BY <3>1, <3>2, <3>3, Zenon
    <2>2. sim'[s] = [sim[s] EXCEPT !.pc = "error", !.secret = Created, !.left = 0] /\ OnlySim(s)
        BY <1>2 DEF SimEnds, OnlySim
    <2>3. sim' \in [Simulators -> Sim]
        BY <1>2, <2>1 DEF SimEnds
    <2> QED
        BY <2>2, <2>3 DEF Sim
<1> QED
    BY <1>1, <1>2

\* One answer: the simulate goes on with one event less, or is over.
LEMMA AnsweredEffect ==
    ASSUME sim \in [Simulators -> Sim], NEW s \in Simulators, NEW a \in BOOLEAN,
           sim[s].left > 0, Answered(s, a)
    PROVE  /\ sim' \in [Simulators -> Sim] /\ OnlySim(s)
           /\ sim'[s].provider = sim[s].provider /\ sim'[s].pc \in {"send", "ok"}
           /\ sim'[s].pc = "send" => sim'[s].left > 0 /\ sim'[s].secret = sim[s].secret
           /\ sim'[s].arrived = (sim[s].arrived /\ a)
<1>1. sim[s] \in Sim /\ sim[s].left \in 1..5 /\ sim[s].arrived \in BOOLEAN
      /\ sim[s].secret \in Authors
    BY DEF Sim
<1> DEFINE pc == IF sim[s].left = 1 THEN "ok" ELSE "send"
           secret == IF sim[s].left = 1 THEN Created ELSE sim[s].secret
           arrived == sim[s].arrived /\ a
           left == sim[s].left - 1
           new == [sim[s] EXCEPT !.arrived = arrived, !.left = left,
                                 !.pc = pc, !.secret = secret]
<1>2. sim' = [sim EXCEPT ![s] = new]
    BY DEF Answered
<1>3. /\ pc \in {"ok", "send"} /\ secret \in Authors /\ arrived \in BOOLEAN
      /\ left \in 0..5
      /\ pc = "send" => left > 0 /\ secret = sim[s].secret
    BY <1>1 DEF Authors
<1> HIDE DEF pc, secret, left
<1>4. /\ new \in Sim /\ new.pc = pc /\ new.left = left
      /\ new.secret = secret /\ new.provider = sim[s].provider /\ new.arrived = arrived
    <2> HIDE DEF arrived
    <2> QED
        BY <1>1, <1>3 DEF Sim
<1> HIDE DEF new
<1>5. sim' \in [Simulators -> Sim] /\ sim'[s] = new /\ OnlySim(s)
    BY <1>2, <1>4 DEF OnlySim
<1> QED
    BY <1>3, <1>4, <1>5

\* The answer a caller has from the cache.
LEMMA ServeEffect ==
    ASSUME TypeInv, NEW q \in Callers, NEW key, Serve(q, key),
           q \in Simulators => sim[q].pc = "send"
    PROVE  /\ sim' \in [Simulators -> Sim]
           /\ \/ sim' = sim
              \/ /\ q \in Simulators /\ OnlySim(q)
                 /\ sim'[q].provider = sim[q].provider /\ sim'[q].pc \in {"send", "ok"}
                 /\ sim'[q].pc = "send" => sim'[q].left > 0 /\ sim'[q].secret = sim[q].secret
                 /\ sim'[q].arrived = (sim[q].arrived /\ Arrives(q, key))
<1>1. sim \in [Simulators -> Sim] /\ (q \in Simulators => sim[q].left > 0)
    BY DEF TypeInv, TypeOK, RunOK
<1>2. Arrives(q, key) \in BOOLEAN
    BY DEF Arrives
<1> QED
    BY <1>1, <1>2, AnsweredEffect DEF Serve

\* What the cache keeps of a row is a key.
LEMMA KeyType ==
    ASSUME row \in Stored
    PROVE  Key(row) \in Keys
BY DEF Stored, Key, Keys

\* The blank entry and the blank load have their types.
LEMMA NoneType ==
    /\ NoEntry \in [key: Keys, left: 0..TTL] /\ NoEntry.left = 0
    /\ NoLoad \in Load /\ ~ NoLoad.on
BY ConnectionsAssumption DEF NoEntry, NoLoad, NoKey, Keys, Load, Authors, SourceTypes

\* One row, an empty cache and idle handlers.
LEMMA TypeInit == Init => TypeInv
<1> SUFFICES ASSUME Init PROVE TypeInv
    OBVIOUS
<1>1. row \in Stored /\ wanted \in Stored
    BY DEF Init, NewRow, Stored, Authors, SourceTypes
<1>2. load \in [Callers -> Load] /\ \A q \in Callers : ~ load[q].on
    BY NoneType DEF Init
<1>3. patch \in [Patchers -> Patch]
    BY DEF Init, NoPatch, Patch, Authors
<1>4. sim \in [Simulators -> Sim] /\ \A s \in Simulators : sim[s].pc = "idle"
    BY DEF Init, Sim, Authors, SourceTypes
<1>5. since \in 0..(Window + 1)
    BY ConnectionsAssumption DEF Init, Window
<1>6. entry \in [key: Keys, left: 0..TTL]
    BY NoneType DEF Init
<1>7. TypeOK
    BY <1>1, <1>2, <1>3, <1>4, <1>5, <1>6 DEF Init, TypeOK, Load
<1>8. RunOK
    BY <1>2, <1>4 DEF RunOK, Callers
<1> QED
    BY <1>7, <1>8 DEF TypeInv

\* A simulate that has moved keeps RunOK if it has events left or has nothing
\* more to do, and its load is over.
LEMMA RunFromStep ==
    ASSUME RunOK, NEW s \in Simulators, OnlySim(s),
           \A o \in Simulators \ {s} : load'[o].on => load[o].on,
           sim'[s].pc \in {"read", "switched", "send"} => sim'[s].left > 0,
           ~ load'[s].on
    PROVE  RunOK'
<1> SUFFICES ASSUME NEW o \in Simulators
             PROVE  /\ sim'[o].pc \in {"read", "switched", "send"} => sim'[o].left > 0
                    /\ load'[o].on => sim'[o].pc = "send" /\ sim'[o].provider \in Simulated
    BY DEF RunOK
<1>1. CASE o = s
    BY <1>1
<1>2. CASE o # s
    BY <1>2 DEF RunOK, OnlySim
<1> QED
    BY <1>1, <1>2

\* The cache as its callers use it.
LEMMA CacheType ==
    ASSUME TypeInv, NEW q \in Callers, Hit(q) \/ Miss(q) \/ Store(q) \/ LoadFails(q)
    PROVE  TypeInv'
<1>t. /\ TypeOK /\ RunOK /\ sim \in [Simulators -> Sim] /\ load \in [Callers -> Load]
      /\ entry \in [key: Keys, left: 0..TTL] /\ Key(row) \in Keys
      /\ Simulators \subseteq Callers
    BY KeyType DEF TypeInv, TypeOK, Load, Callers
<1>s. q \in Simulators => sim[q].pc = "send" /\ sim[q].left > 0
    BY <1>t DEF Hit, Miss, Store, LoadFails, Calls, RunOK
<1>e. ASSUME load' = [load EXCEPT ![q] = NoLoad]
      PROVE  /\ load' \in [Callers -> Load] /\ ~ load'[q].on
             /\ \A o \in Callers \ {q} : load'[o] = load[o]
    BY <1>e, <1>t, NoneType
<1>1. CASE Hit(q)
    <2>1. sim' \in [Simulators -> Sim] /\ RunOK'
        <3>1. Serve(q, entry.key) /\ UNCHANGED load /\ ~ load[q].on
            BY <1>1 DEF Hit, Calls
        <3> QED
            BY <1>t, <1>s, <3>1, ServeEffect, RunFromStep DEF RunOK
    <2> QED
        BY <1>1, <1>t, <2>1 DEF Hit, TypeInv, TypeOK, history
<1>2. CASE Miss(q)
    <2>1. [on |-> TRUE, key |-> Key(row), age |-> 0] \in Load
        BY <1>t, ConnectionsAssumption DEF Load
    <2>2. load' = [load EXCEPT ![q] = [on |-> TRUE, key |-> Key(row), age |-> 0]]
        BY <1>2 DEF Miss
    <2>3. load' \in [Callers -> Load] /\ \A o \in Callers \ {q} : load'[o] = load[o]
        BY <1>t, <2>1, <2>2
    <2>4. q \in Simulators => sim[q].pc = "send" /\ sim[q].provider \in Simulated
        BY <1>2 DEF Miss, Calls
    <2>5. RunOK'
        BY <1>2, <1>t, <2>3, <2>4 DEF Miss, RunOK
    <2> QED
        BY <1>2, <1>t, <2>3, <2>5 DEF Miss, TypeInv, TypeOK, history, Load
<1>3. CASE Store(q)
    <2>1. entry' \in [key: Keys, left: 0..TTL]
        BY <1>3, <1>t, ConnectionsAssumption DEF Store, Load
    <2>2. /\ load' \in [Callers -> Load] /\ ~ load'[q].on
          /\ \A o \in Callers \ {q} : load'[o] = load[o]
        BY <1>3, <1>e DEF Store
    <2>3. Serve(q, load[q].key)
        BY <1>3 DEF Store
    <2>4. sim' \in [Simulators -> Sim] /\ RunOK'
        <3>1. CASE sim' = sim
            BY <1>t, <2>2, <3>1 DEF RunOK
        <3>2. CASE sim' # sim
            BY <1>t, <1>s, <2>2, <2>3, <3>2, ServeEffect, RunFromStep
        <3> QED
            BY <1>t, <3>1, <3>2
    <2> QED
        BY <1>3, <1>t, <2>1, <2>2, <2>4 DEF Store, TypeInv, TypeOK, history, Load
<1>4. CASE LoadFails(q)
    <2>1. /\ load' \in [Callers -> Load] /\ ~ load'[q].on
          /\ \A o \in Callers \ {q} : load'[o] = load[o]
        BY <1>4, <1>e DEF LoadFails
    <2>2. sim' \in [Simulators -> Sim] /\ RunOK' /\ disturbed' \subseteq Simulators
        <3>1. CASE UNCHANGED <<sim, disturbed>>
            BY <1>t, <2>1, <3>1 DEF RunOK, TypeOK
        <3>2. CASE q \in Simulators /\ Answered(q, FALSE) /\ disturbed' = disturbed \cup {q}
            BY <1>t, <1>s, <2>1, <3>2, AnsweredEffect, RunFromStep DEF TypeOK
        <3> QED
            BY <1>4, <3>1, <3>2 DEF LoadFails
    <2> QED
        BY <1>4, <1>t, <2>1, <2>2 DEF LoadFails, TypeInv, TypeOK, Load
<1> QED
    BY <1>1, <1>2, <1>3, <1>4

\* A PATCH that has read holds values of fields.
LEMMA UpdatedType ==
    ASSUME TypeOK, NEW p \in Patchers, NEW f \in Fields
    PROVE  Updated(p, f) \in Authors /\ patch[p][f] \in Authors
<1>1. patch[p] \in Patch
    BY DEF TypeOK
<1>2. patch[p][f] \in Authors
    BY <1>1 DEF Patch, Fields
<1> QED
    BY <1>2 DEF Updated, Authors

\* A PATCH handler.
LEMMA PatchType ==
    ASSUME TypeInv, NEW p \in Patchers,
           \/ \E asked \in Patches : GetConnection(p, asked)
           \/ UpdateConnection(p) \/ PatchRefused(p)
           \/ UpdateConnectionSecret(p) \/ DeleteEntry(p)
    PROVE  TypeInv'
<1>t. /\ TypeOK /\ patch \in [Patchers -> Patch] /\ row \in Stored /\ wanted \in Stored
      /\ missed \subseteq Fields /\ disturbed \subseteq Simulators /\ p \in Authors
    BY DEF TypeInv, TypeOK, Authors
<1>w. 0 \in 0..(Window + 1)
    BY ConnectionsAssumption DEF Window
<1>r. UNCHANGED <<sim, load>> => RunOK'
    BY DEF TypeInv, RunOK
<1>1. ASSUME NEW asked \in Patches, GetConnection(p, asked)
      PROVE  TypeInv'
    <2>1. [pc |-> "read", sets |-> asked.sets, secret |-> asked.secret,
           dest |-> row.dest, policy |-> row.policy] \in Patch
        BY <1>t, ConnectionsAssumption DEF Patch, Stored
    <2>2. patch' \in [Patchers -> Patch]
        BY <1>1, <1>t, <2>1 DEF GetConnection
    <2> QED
        BY <1>1, <1>t, <1>r, <2>2 DEF GetConnection, TypeInv, TypeOK, cacheVars, history
<1>2. CASE UpdateConnection(p)
    <2>1. patch' \in [Patchers -> Patch]
        BY <1>2, <1>t, PatchEffect DEF UpdateConnection
    <2>2. row' \in Stored
        <3>1. Updated(p, "dest") \in Authors /\ Updated(p, "policy") \in Authors
            BY <1>t, UpdatedType DEF Fields
        <3> QED
            BY <1>2, <1>t, <3>1 DEF UpdateConnection, Stored
    <2>3. wanted' \in Stored
        <3>1. patch[p].sets \subseteq {"dest", "policy"}
            BY <1>t DEF Patch, Fields
        <3> QED
            BY <1>2, <1>t, <3>1 DEF UpdateConnection, Stored
    <2>4. missed' \subseteq Fields
        BY <1>2 DEF UpdateConnection
    <2> QED
        BY <1>2, <1>t, <1>r, <2>1, <2>2, <2>3, <2>4
           DEF UpdateConnection, TypeInv, TypeOK, cacheVars
<1>3. CASE PatchRefused(p)
    <2>1. patch' \in [Patchers -> Patch]
        BY <1>3, <1>t, PatchEffect DEF PatchRefused
    <2> QED
        BY <1>3, <1>t, <1>r, <2>1 DEF PatchRefused, TypeInv, TypeOK, cacheVars, history
<1>4. CASE UpdateConnectionSecret(p)
    <2>1. patch' \in [Patchers -> Patch]
        BY <1>4, <1>t, PatchEffect DEF UpdateConnectionSecret
    <2>2. row' \in Stored /\ wanted' \in Stored
        BY <1>4, <1>t DEF UpdateConnectionSecret, Stored
    <2>3. disturbed' \subseteq Simulators
        BY <1>4, <1>t DEF UpdateConnectionSecret, Simulating
    <2>4. since' \in 0..(Window + 1) /\ raced' \in BOOLEAN
        BY <1>4, <1>t, <1>w DEF UpdateConnectionSecret, Finished, TypeOK
    <2> QED
        BY <1>4, <1>t, <1>r, <2>1, <2>2, <2>3, <2>4
           DEF UpdateConnectionSecret, TypeInv, TypeOK, cacheVars
<1>5. CASE DeleteEntry(p)
    <2>1. patch' \in [Patchers -> Patch] /\ entry' \in [key: Keys, left: 0..TTL]
        BY <1>5, <1>t, PatchEffect, NoneType DEF DeleteEntry
    <2>2. since' \in 0..(Window + 1) /\ raced' \in BOOLEAN
        BY <1>5, <1>t, <1>w DEF DeleteEntry, Finished, TypeOK, Loading
    <2> QED
        BY <1>5, <1>t, <1>r, <2>1, <2>2 DEF DeleteEntry, TypeInv, TypeOK
<1> QED
    BY <1>1, <1>2, <1>3, <1>4, <1>5

\* A simulate handler.
LEMMA SimType ==
    ASSUME TypeInv, NEW s \in Simulators,
           \/ \E provider \in Providers, count \in Counts : SimRead(s, provider, count)
           \/ UpdateConnectionSourceType(s) \/ SimDeleteEntry(s) \/ SimulateFails(s)
    PROVE  TypeInv'
<1>t. /\ TypeOK /\ RunOK /\ sim \in [Simulators -> Sim] /\ row \in Stored /\ wanted \in Stored
      /\ disturbed \subseteq Simulators /\ s \in Callers
      /\ sim[s].provider \in SourceTypes
    BY DEF TypeInv, TypeOK, Sim, Callers
<1>w. 0 \in 0..(Window + 1)
    BY ConnectionsAssumption DEF Window
<1>1. ASSUME NEW provider \in Providers, NEW count \in Counts, SimRead(s, provider, count)
      PROVE  TypeInv'
    <2> DEFINE new == [pc |-> IF row.source = provider THEN "send" ELSE "read",
                       provider |-> provider, secret |-> row.secret, left |-> count,
                       arrived |-> TRUE]
    <2>1. new \in Sim /\ new.left > 0
        BY <1>t, ConnectionsAssumption DEF Sim, Stored
    <2>2. sim' = [sim EXCEPT ![s] = new] /\ UNCHANGED load /\ sim[s].pc = "idle"
        BY <1>1 DEF SimRead, cacheVars
    <2> HIDE DEF new
    <2>3. sim' \in [Simulators -> Sim] /\ OnlySim(s) /\ sim'[s].left > 0
        BY <1>t, <2>1, <2>2 DEF OnlySim
    <2>4. RunOK'
        BY <1>t, <2>2, <2>3, RunFromStep DEF RunOK
    <2> QED
        BY <1>1, <1>t, <2>3, <2>4 DEF SimRead, TypeInv, TypeOK, cacheVars
<1>2. CASE UpdateConnectionSourceType(s)
    <2>1. /\ sim' \in [Simulators -> Sim] /\ OnlySim(s)
          /\ sim'[s].pc \in {"read", "switched", "send"} => sim'[s].left > 0
        BY <1>2, <1>t, SimEffect DEF UpdateConnectionSourceType, RunOK
    <2>2. RunOK'
        BY <1>2, <1>t, <2>1, RunFromStep DEF UpdateConnectionSourceType, cacheVars, RunOK
    <2>3. row' \in Stored /\ wanted' \in Stored
        BY <1>2, <1>t DEF UpdateConnectionSourceType, Stored
    <2>4. disturbed' \subseteq Simulators
        BY <1>2, <1>t DEF UpdateConnectionSourceType, Simulating
    <2>5. since' \in 0..(Window + 1) /\ raced' \in BOOLEAN
        BY <1>2, <1>t, <1>w DEF UpdateConnectionSourceType, Finished, TypeOK
    <2> QED
        BY <1>2, <1>t, <2>1, <2>2, <2>3, <2>4, <2>5
           DEF UpdateConnectionSourceType, TypeInv, TypeOK, cacheVars
<1>3. CASE SimDeleteEntry(s)
    <2>1. /\ sim' \in [Simulators -> Sim] /\ OnlySim(s) /\ sim'[s].left > 0
          /\ ~ load[s].on /\ UNCHANGED load
        BY <1>3, <1>t, SimEffect DEF SimDeleteEntry, RunOK
    <2>2. RunOK'
        BY <1>t, <2>1, RunFromStep
    <2>3. since' \in 0..(Window + 1) /\ raced' \in BOOLEAN
        BY <1>3, <1>t, <1>w DEF SimDeleteEntry, Finished, Loading
    <2>4. entry' \in [key: Keys, left: 0..TTL]
        BY <1>3, NoneType DEF SimDeleteEntry
    <2> QED
        BY <1>3, <1>t, <2>1, <2>2, <2>3, <2>4 DEF SimDeleteEntry, TypeInv, TypeOK
<1>4. CASE SimulateFails(s)
    <2>1. /\ sim' \in [Simulators -> Sim] /\ OnlySim(s) /\ sim'[s].pc = "error"
          /\ ~ load[s].on /\ UNCHANGED load
        BY <1>4, <1>t, SimEffect DEF SimulateFails, cacheVars
    <2>2. RunOK'
        BY <1>t, <2>1, RunFromStep
    <2> QED
        BY <1>4, <1>t, <2>1, <2>2 DEF SimulateFails, TypeInv, TypeOK, cacheVars, history
<1> QED
    BY <1>1, <1>2, <1>3, <1>4

\* What a tick does to an entry and to a load.
LEMMA TickEffect ==
    ASSUME TypeOK, Tick
    PROVE  /\ entry' \in [key: Keys, left: 0..TTL]
           /\ entry'.left > 0 => entry'.key = entry.key /\ entry'.left = entry.left - 1
           /\ load' \in [Callers -> Load]
           /\ \A q \in Callers : /\ load'[q].on = load[q].on /\ load'[q].key = load[q].key
                                 /\ load[q].on => load'[q].age = load[q].age + 1
           /\ since' = (IF since <= Window THEN since + 1 ELSE since)
           /\ since' \in 0..(Window + 1)
<1>1. /\ entry' \in [key: Keys, left: 0..TTL]
      /\ entry'.left > 0 => entry'.key = entry.key /\ entry'.left = entry.left - 1
    <2>1. CASE entry.left > 1
        BY <2>1, ConnectionsAssumption DEF Tick, TypeOK
    <2>2. CASE ~ entry.left > 1
        BY <2>2, NoneType DEF Tick
    <2> QED
        BY <2>1, <2>2
<1>2. ASSUME NEW q \in Callers
      PROVE  /\ load'[q] \in Load
             /\ load'[q].on = load[q].on /\ load'[q].key = load[q].key
             /\ load[q].on => load'[q].age = load[q].age + 1
    <2>1. load[q] \in Load
        BY DEF TypeOK, Load
    <2>2. CASE load[q].on
        <3>1. load'[q] = [load[q] EXCEPT !.age = load[q].age + 1]
            BY <2>2 DEF Tick
        <3>2. load[q].age + 1 \in 0..MaxLoad
            BY <2>1, <2>2, ConnectionsAssumption DEF Tick, Load
        <3> QED
            BY <2>1, <3>1, <3>2 DEF Load
    <2>3. CASE ~ load[q].on
        <3>1. load'[q] = load[q]
            BY <2>3 DEF Tick
        <3> QED
            BY <2>1, <2>3, <3>1
    <2> QED
        BY <2>2, <2>3
<1>3. load' \in [Callers -> Load]
    BY <1>2 DEF Tick
<1>4. /\ since' = (IF since <= Window THEN since + 1 ELSE since)
      /\ since' \in 0..(Window + 1)
    BY ConnectionsAssumption DEF Tick, TypeOK, Window
<1> QED
    BY <1>1, <1>2, <1>3, <1>4

\* Each step of a handler, and each tick, keeps the types.
LEMMA TypeStep == TypeInv /\ [Next]_vars => TypeInv'
<1> SUFFICES ASSUME TypeInv, [Next]_vars PROVE TypeInv'
    OBVIOUS
<1>1. CASE Tick
    <2>1. TypeOK'
        BY <1>1, TickEffect DEF Tick, TypeInv, TypeOK, Load
    <2>2. RunOK'
        BY <1>1, TickEffect DEF Tick, TypeInv, RunOK, Callers
    <2> QED
        BY <2>1, <2>2 DEF TypeInv
<1>2. CASE UNCHANGED vars
    BY <1>2 DEF vars, cacheVars, history, TypeInv, TypeOK, RunOK
<1> QED
    BY <1>1, <1>2, CacheType, PatchType, SimType DEF Next

\* Every variable keeps its type; nothing is cached for longer than the TTL,
\* whatever the handlers do.
THEOREM TypesKept == Spec => []TypeOK
<1>1. TypeInv => TypeOK
    BY DEF TypeInv
<1> QED
    BY <1>1, TypeInit, TypeStep, PTL DEF Spec

-----------------------------------------------------------------------------
(* The cache: what is out of date after the last change was finished is the
   work of a race, and dates from before that change was finished. *)

CacheOK ==
    Settled =>
        /\ StaleEntry => raced /\ since + entry.left <= Window
        /\ \A q \in Callers : load[q].on /\ load[q].key # Key(row) =>
             raced /\ since <= load[q].age

CacheInv == TypeInv /\ CacheOK

\* An empty cache is never stale.
LEMMA CacheInit == Init => CacheInv
<1> SUFFICES ASSUME Init PROVE CacheInv
    OBVIOUS
<1>1. entry.left = 0 /\ \A q \in Callers : ~ load[q].on
    BY NoneType DEF Init
<1> QED
    BY <1>1, TypeInit DEF CacheInv, CacheOK, StaleEntry

\* The types the argument uses.
LEMMA CacheTypes ==
    ASSUME TypeOK
    PROVE  /\ load \in [Callers -> Load] /\ entry.left \in 0..TTL /\ entry.key \in Keys
           /\ since \in Nat /\ TTL \in Nat /\ MaxLoad \in Nat /\ Window = TTL + MaxLoad
           /\ \A q \in Callers : load[q].age \in 0..MaxLoad
BY ConnectionsAssumption DEF TypeOK, Load, Window

\* A step that leaves the row's key and settles nothing: the cache may lose
\* its entry or a load, and may gain a current load.
LEMMA CacheFromStep ==
    ASSUME CacheOK, Settled' => Settled, Key(row)' = Key(row), UNCHANGED <<since, raced>>,
           entry'.left > 0 => entry' = entry,
           \A q \in Callers : load'[q].on => load'[q] = load[q] \/ load'[q].key = Key(row)
    PROVE  CacheOK'
BY DEF CacheOK, StaleEntry

\* The end of a change settles the cache: nothing is cached, and a load in
\* progress is known to race.
LEMMA CacheFromDelete ==
    ASSUME TypeOK, UNCHANGED <<row, load>>, Finished(Loading), entry' = NoEntry
    PROVE  CacheOK'
<1>1. since' = 0 /\ (raced' <=> Loading) /\ entry'.left = 0
    BY NoneType DEF Finished
<1>2. \A q \in Callers : load'[q].on => raced' /\ since' <= load'[q].age
    BY <1>1, CacheTypes DEF Loading
<1> QED
    BY <1>1, <1>2 DEF CacheOK, StaleEntry

\* So does a change that gave up after its write.
LEMMA CacheFromError ==
    ASSUME TypeOK, UNCHANGED <<entry, load>>, Finished(TRUE)
    PROVE  CacheOK'
BY CacheTypes DEF Finished, CacheOK, StaleEntry

\* An entry that differs from the row was loaded in a race.
LEMMA CacheStep == CacheInv /\ [Next]_vars => CacheInv'
<1> SUFFICES ASSUME CacheInv, [Next]_vars PROVE CacheInv'
    OBVIOUS
<1>t. TypeInv /\ TypeInv' /\ TypeOK /\ RunOK /\ CacheOK
    BY TypeStep DEF CacheInv, TypeInv
<1>f. /\ load \in [Callers -> Load] /\ patch \in [Patchers -> Patch]
      /\ sim \in [Simulators -> Sim] /\ Simulators \subseteq Callers
    BY <1>t DEF TypeOK, Load, Callers
<1> SUFFICES CacheOK'
    BY <1>t DEF CacheInv
<1>s. ASSUME NEW s \in Simulators, OnlySim(s), sim[s].pc # "switched", patch' = patch
      PROVE  Settled' => Settled
    BY <1>s DEF Settled, OnlySim
<1>p. ASSUME NEW p \in Patchers, OnlyPatch(p), patch[p].pc # "secret", sim' = sim
      PROVE  Settled' => Settled
    BY <1>p DEF Settled, OnlyPatch
<1>c. ASSUME NEW q \in Callers, Hit(q) \/ Miss(q) \/ Store(q) \/ LoadFails(q)
      PROVE  (Settled' => Settled) /\ UNCHANGED row
    <2>1. q \in Simulators => sim[q].pc = "send" /\ sim[q].left > 0
        BY <1>c, <1>t, <1>f DEF Hit, Miss, Store, LoadFails, Calls, RunOK
    <2>2. patch' = patch /\ row' = row
        BY <1>c DEF Hit, Miss, Store, LoadFails
    <2>3. sim' = sim \/ (q \in Simulators /\ OnlySim(q))
        <3>1. CASE \E key : Serve(q, key)
            BY <1>t, <2>1, <3>1, ServeEffect
        <3>2. CASE q \in Simulators /\ Answered(q, FALSE)
            BY <1>f, <2>1, <3>2, AnsweredEffect
        <3> QED
            BY <1>c, <3>1, <3>2 DEF Hit, Miss, Store, LoadFails
    <2> QED
        BY <1>s, <2>1, <2>2, <2>3 DEF Settled
<1>1. ASSUME NEW q \in Callers, Hit(q)
      PROVE  CacheOK'
    <2>1. UNCHANGED <<entry, load, since, raced>>
        BY <1>1 DEF Hit, history
    <2> QED
        BY <1>1, <1>c, <1>t, <2>1, CacheFromStep
<1>2. ASSUME NEW q \in Callers, Miss(q)
      PROVE  CacheOK'
    <2>1. UNCHANGED <<entry, since, raced>>
        BY <1>2 DEF Miss, history
    <2>2. \A o \in Callers : load'[o] = load[o] \/ load'[o].key = Key(row)
        BY <1>2, <1>f DEF Miss
    <2> QED
        BY <1>2, <1>c, <1>t, <2>1, <2>2, CacheFromStep
<1>3. ASSUME NEW q \in Callers, Store(q)
      PROVE  CacheOK'
    <2>1. UNCHANGED <<row, since, raced>> /\ load[q].on
          /\ entry'.key = load[q].key /\ entry'.left = TTL
        BY <1>3 DEF Store, history
    <2>2. \A o \in Callers : load'[o].on => load'[o] = load[o]
        BY <1>3, <1>f, NoneType DEF Store
    <2>3. Settled' => Settled
        BY <1>3, <1>c
    <2>4. Settled /\ load[q].key # Key(row) => raced /\ since + TTL <= Window
        BY <1>t, <2>1, CacheTypes DEF CacheOK
    <2> QED
        BY <1>t, <2>1, <2>2, <2>3, <2>4 DEF CacheOK, StaleEntry
<1>4. ASSUME NEW q \in Callers, LoadFails(q)
      PROVE  CacheOK'
    <2>1. UNCHANGED <<entry, since, raced>>
        BY <1>4 DEF LoadFails
    <2>2. \A o \in Callers : load'[o].on => load'[o] = load[o]
        BY <1>4, <1>f, NoneType DEF LoadFails
    <2> QED
        BY <1>4, <1>c, <1>t, <2>1, <2>2, CacheFromStep
<1>5. ASSUME NEW p \in Patchers, NEW asked \in Patches, GetConnection(p, asked)
      PROVE  CacheOK'
    <2>1. OnlyPatch(p) /\ patch[p].pc = "idle" /\ UNCHANGED <<row, entry, load, sim, since, raced>>
        BY <1>5, <1>f DEF GetConnection, OnlyPatch, cacheVars, history
    <2> QED
        BY <1>p, <1>t, <2>1, CacheFromStep
<1>6. ASSUME NEW p \in Patchers, UpdateConnection(p)
      PROVE  CacheOK'
    <2>1. OnlyPatch(p) /\ patch[p].pc = "read" /\ UNCHANGED <<entry, load, sim, since, raced>>
        BY <1>6, <1>f, PatchEffect DEF UpdateConnection, cacheVars
    <2>2. Key(row)' = Key(row)
        BY <1>6, <1>t DEF UpdateConnection, Key, TypeOK, Stored
    <2> QED
        BY <1>p, <1>t, <2>1, <2>2, CacheFromStep
<1>7. ASSUME NEW p \in Patchers, PatchRefused(p)
      PROVE  CacheOK'
    <2>1. OnlyPatch(p) /\ patch[p].pc # "secret" /\ UNCHANGED <<row, entry, load, sim, since, raced>>
        BY <1>7, <1>f, PatchEffect DEF PatchRefused, cacheVars, history
    <2> QED
        BY <1>p, <1>t, <2>1, CacheFromStep
<1>8. ASSUME NEW p \in Patchers, UpdateConnectionSecret(p)
      PROVE  CacheOK'
    <2>1. CASE PatchGoes(p, "secret")
        <3>1. patch'[p].pc = "secret"
            BY <1>f, <2>1, PatchEffect
        <3> QED
            BY <3>1 DEF CacheOK, Settled
    <2>2. CASE Finished(TRUE)
        BY <1>8, <1>t, <2>2, CacheFromError DEF UpdateConnectionSecret, cacheVars
    <2> QED
        BY <1>8, <2>1, <2>2 DEF UpdateConnectionSecret
<1>9. ASSUME NEW p \in Patchers, DeleteEntry(p)
      PROVE  CacheOK'
    <2>1. UNCHANGED <<row, load, sim>> /\ entry' = NoEntry
        BY <1>9 DEF DeleteEntry
    <2>2. CASE Finished(Loading)
        BY <1>t, <2>1, <2>2, CacheFromDelete
    <2>3. CASE patch[p].pc = "written" /\ UNCHANGED <<since, raced>>
        <3>1. OnlyPatch(p) /\ patch[p].pc # "secret" /\ entry'.left = 0
            BY <1>9, <1>f, <2>3, <2>1, PatchEffect, NoneType DEF DeleteEntry
        <3> QED
            BY <1>p, <1>t, <2>1, <2>3, <3>1, CacheFromStep
    <2> QED
        BY <1>9, <2>2, <2>3 DEF DeleteEntry
<1>10. ASSUME NEW s \in Simulators, NEW provider \in Providers, NEW count \in Counts,
              SimRead(s, provider, count)
       PROVE  CacheOK'
    <2>1. OnlySim(s) /\ sim[s].pc = "idle" /\ UNCHANGED <<row, entry, load, patch, since, raced>>
        BY <1>10, <1>f DEF SimRead, OnlySim, cacheVars
    <2> QED
        BY <1>s, <1>t, <2>1, CacheFromStep
<1>11. ASSUME NEW s \in Simulators, UpdateConnectionSourceType(s)
       PROVE  CacheOK'
    <2>1. CASE SimGoes(s, "switched")
        <3>1. sim'[s].pc = "switched"
            BY <1>f, <2>1, SimEffect
        <3> QED
            BY <3>1 DEF CacheOK, Settled
    <2>2. CASE Finished(TRUE)
        BY <1>11, <1>t, <2>2, CacheFromError DEF UpdateConnectionSourceType, cacheVars
    <2> QED
        BY <1>11, <2>1, <2>2 DEF UpdateConnectionSourceType
<1>12. ASSUME NEW s \in Simulators, SimDeleteEntry(s)
       PROVE  CacheOK'
    BY <1>12, <1>t, CacheFromDelete DEF SimDeleteEntry
<1>13. ASSUME NEW s \in Simulators, SimulateFails(s)
       PROVE  CacheOK'
    <2>1. /\ OnlySim(s) /\ sim[s].pc # "switched"
          /\ UNCHANGED <<row, entry, load, patch, since, raced>>
        BY <1>13, <1>f, SimEffect DEF SimulateFails, cacheVars, history
    <2> QED
        BY <1>s, <1>t, <2>1, CacheFromStep
<1>14. ASSUME Tick
       PROVE  CacheOK'
    <2>1. UNCHANGED <<row, patch, sim, raced>>
        BY <1>14 DEF Tick
    <2>2. Settled' => Settled
        BY <2>1 DEF Settled
    <2>3. Settled /\ StaleEntry' => raced' /\ since' + entry'.left <= Window
        BY <1>14, <1>t, <2>1, TickEffect, CacheTypes DEF CacheOK, StaleEntry
    <2>4. ASSUME Settled, NEW q \in Callers, load'[q].on, load'[q].key # Key(row)
          PROVE  raced' /\ since' <= load'[q].age
        <3>1. load[q].on /\ load[q].key # Key(row) /\ load'[q].age = load[q].age + 1
            BY <1>14, <1>t, <2>4, TickEffect
        <3>2. raced /\ since <= load[q].age
            BY <1>t, <2>4, <3>1 DEF CacheOK
        <3> QED
            BY <1>14, <1>t, <2>1, <3>1, <3>2, TickEffect, CacheTypes
    <2> QED
        BY <2>1, <2>2, <2>3, <2>4 DEF CacheOK
<1>15. ASSUME UNCHANGED vars
       PROVE  CacheOK'
    BY <1>15, <1>t DEF vars, cacheVars, history, CacheOK, Settled, StaleEntry
<1> QED
    BY <1>1, <1>2, <1>3, <1>4, <1>5, <1>6, <1>7, <1>8, <1>9, <1>10, <1>11, <1>12, <1>13,
       <1>14, <1>15 DEF Next

\* The Delete works at once unless it was raced, for any number of webhooks,
\* PATCHes and simulates (handlers.go:263, playground.go:282).
THEOREM StalenessNeedsARace == Spec => []StaleOnlyByRace
<1>1. CacheInv => StaleOnlyByRace
    BY DEF CacheInv, CacheOK, StaleOnlyByRace
<1> QED
    BY <1>1, CacheInit, CacheStep, PTL DEF Spec

\* What a race left in the cache is gone after the TTL and the time of one
\* load, for every TTL and every such time (server.go:116-125).
THEOREM StalenessHeals == Spec => []StaleExpires
<1>1. CacheInv => StaleExpires
    BY DEF CacheInv, CacheOK, StaleExpires
<1> QED
    BY <1>1, CacheInit, CacheStep, PTL DEF Spec

-----------------------------------------------------------------------------
(* PATCHes that overlap *)

\* An older value that a PATCH in progress has read, and will write back, is
\* known to be missed.
ReadsKnown ==
    \A p \in Patchers : patch[p].pc = "read" =>
        \A f \in Fields : patch[p][f] # wanted[f] => f \in missed

LostInv == TypeInv /\ ReadsKnown /\ LostOnlyByOverlap

\* Nobody has read and nothing is lost.
LEMMA LostInit == Init => LostInv
<1> SUFFICES ASSUME Init PROVE LostInv
    OBVIOUS
<1>1. ReadsKnown
    BY DEF Init, ReadsKnown, NoPatch
<1>2. LostOnlyByOverlap
    BY DEF Init, LostOnlyByOverlap
<1> QED
    BY <1>1, <1>2, TypeInit DEF LostInv

\* The fields of a row that are no secret and no type are those of a PATCH.
LEMMA RowFields ==
    ASSUME TypeOK
    PROVE  DOMAIN row = Fields \cup {"secret", "source"} /\ DOMAIN wanted = DOMAIN row
BY DEF TypeOK, Stored, Fields

\* A write puts back what it has read, and what it has read is known.
LEMMA LostStep == LostInv /\ [Next]_vars => LostInv'
<1> SUFFICES ASSUME LostInv, [Next]_vars PROVE LostInv'
    OBVIOUS
<1>t. TypeInv /\ TypeInv' /\ TypeOK /\ TypeOK' /\ ReadsKnown /\ LostOnlyByOverlap
    BY TypeStep DEF LostInv, TypeInv
<1>f. patch \in [Patchers -> Patch] /\ row \in Stored /\ wanted \in Stored
    BY <1>t DEF TypeOK
<1>d. /\ DOMAIN row = Fields \cup {"secret", "source"} /\ DOMAIN wanted = DOMAIN row
      /\ DOMAIN row' = DOMAIN row /\ DOMAIN wanted' = DOMAIN row
    BY <1>t, RowFields DEF TypeOK, Stored
<1> SUFFICES ReadsKnown' /\ LostOnlyByOverlap'
    BY <1>t DEF LostInv
<1>1. ASSUME NEW p \in Patchers, NEW asked \in Patches, GetConnection(p, asked)
      PROVE  ReadsKnown' /\ LostOnlyByOverlap'
    <2>1. UNCHANGED <<row, wanted, missed>>
        BY <1>1 DEF GetConnection, history
    <2>2. /\ \A o \in Patchers \ {p} : patch'[o] = patch[o]
          /\ \A f \in Fields : patch'[p][f] = row[f]
        BY <1>1, <1>f DEF GetConnection, Fields
    <2>3. LostOnlyByOverlap'
        BY <1>t, <2>1 DEF LostOnlyByOverlap
    <2>4. ReadsKnown'
        BY <1>t, <1>d, <2>1, <2>2 DEF ReadsKnown, LostOnlyByOverlap
    <2> QED
        BY <2>3, <2>4
<1>2. ASSUME NEW p \in Patchers, UpdateConnection(p)
      PROVE  ReadsKnown' /\ LostOnlyByOverlap'
    <2>1. OnlyPatch(p) /\ patch'[p].pc # "read" /\ patch[p].pc = "read"
        BY <1>2, <1>f, PatchEffect DEF UpdateConnection
    <2>2. patch[p].sets \subseteq Fields
        BY <1>f DEF Patch
    <2>3. \A f \in DOMAIN row : wanted'[f] = IF f \in patch[p].sets THEN p ELSE wanted[f]
        BY <1>2, <1>d DEF UpdateConnection
    <2>4. /\ \A f \in Fields : row'[f] = Updated(p, f)
          /\ \A f \in {"secret", "source"} : row'[f] = row[f]
        BY <1>2, <1>f DEF UpdateConnection, Stored, Fields
    <2>5. \A f \in Fields :
            /\ f \in patch[p].sets => (f \in missed' <=> \E o \in Patchers \ {p} : patch[o].pc = "read")
            /\ f \notin patch[p].sets => (f \in missed' <=> f \in missed)
        BY <1>2 DEF UpdateConnection
    <2>6. ReadsKnown'
        <3> SUFFICES ASSUME NEW o \in Patchers, patch'[o].pc = "read", NEW f \in Fields,
                            patch'[o][f] # wanted'[f]
                     PROVE  f \in missed'
            BY DEF ReadsKnown
        <3>1. o # p /\ patch'[o] = patch[o]
            BY <2>1 DEF OnlyPatch
        <3> QED
            BY <1>t, <1>d, <2>3, <2>5, <3>1 DEF ReadsKnown
    <2>7. LostOnlyByOverlap'
        <3> SUFFICES ASSUME NEW f \in DOMAIN row', row'[f] # wanted'[f]
                     PROVE  f \in missed'
            BY DEF LostOnlyByOverlap
        <3>1. CASE f \in Fields
            BY <1>t, <1>d, <2>1, <2>3, <2>4, <2>5, <3>1 DEF ReadsKnown, Updated
        <3>2. CASE f \notin Fields
            <4>1. row[f] # wanted[f]
                BY <1>d, <2>2, <2>3, <2>4, <3>2
            <4>2. missed \subseteq Fields
                BY <1>t DEF TypeOK
            <4> QED
                BY <1>t, <1>d, <3>2, <4>1, <4>2 DEF LostOnlyByOverlap
        <3> QED
            BY <3>1, <3>2
    <2> QED
        BY <2>6, <2>7
<1>3. ASSUME NEW p \in Patchers, OnlyPatch(p), patch'[p].pc # "read", UNCHANGED missed,
             \/ UNCHANGED <<row, wanted>>
             \/ /\ row' = [row EXCEPT !.secret = p]
                /\ wanted' = [wanted EXCEPT !.secret = p]
      PROVE  ReadsKnown' /\ LostOnlyByOverlap'
    <2>1. \A f \in DOMAIN row : \/ row'[f] = row[f] /\ wanted'[f] = wanted[f]
                                \/ f = "secret" /\ row'[f] = wanted'[f]
        BY <1>3, <1>f DEF Stored
    <2>2. "secret" \notin Fields
        BY DEF Fields
    <2>3. LostOnlyByOverlap'
        BY <1>3, <1>t, <1>d, <2>1 DEF LostOnlyByOverlap
    <2>4. ReadsKnown'
        BY <1>3, <1>t, <1>d, <2>1, <2>2 DEF ReadsKnown, OnlyPatch
    <2> QED
        BY <2>3, <2>4
<1>4. ASSUME NEW p \in Patchers, PatchRefused(p) \/ UpdateConnectionSecret(p) \/ DeleteEntry(p)
      PROVE  ReadsKnown' /\ LostOnlyByOverlap'
    <2>1. OnlyPatch(p) /\ patch'[p].pc # "read"
        BY <1>4, <1>f, PatchEffect DEF PatchRefused, UpdateConnectionSecret, DeleteEntry
    <2> QED
        BY <1>3, <1>4, <2>1 DEF PatchRefused, UpdateConnectionSecret, DeleteEntry, history
<1>5. ASSUME NEW s \in Simulators, UpdateConnectionSourceType(s)
      PROVE  ReadsKnown' /\ LostOnlyByOverlap'
    <2>1. \A f \in DOMAIN row : \/ row'[f] = row[f] /\ wanted'[f] = wanted[f]
                                \/ f = "source" /\ row'[f] = wanted'[f]
        BY <1>5, <1>f DEF UpdateConnectionSourceType, Stored
    <2>2. UNCHANGED <<patch, missed>> /\ "source" \notin Fields
        BY <1>5 DEF UpdateConnectionSourceType, Fields
    <2>3. LostOnlyByOverlap'
        BY <1>t, <1>d, <2>1, <2>2 DEF LostOnlyByOverlap
    <2>4. ReadsKnown'
        BY <1>t, <1>d, <2>1, <2>2 DEF ReadsKnown
    <2> QED
        BY <2>3, <2>4
<1>6. ASSUME UNCHANGED <<row, patch, wanted, missed>>
      PROVE  ReadsKnown' /\ LostOnlyByOverlap'
    BY <1>6, <1>t DEF ReadsKnown, LostOnlyByOverlap
<1>7. ASSUME \/ \E q \in Callers : Hit(q) \/ Miss(q) \/ Store(q) \/ LoadFails(q)
             \/ \E s \in Simulators : SimDeleteEntry(s) \/ SimulateFails(s)
             \/ \E s \in Simulators, provider \in Providers, count \in Counts :
                  SimRead(s, provider, count)
             \/ Tick \/ UNCHANGED vars
      PROVE  UNCHANGED <<row, patch, wanted, missed>>
    BY <1>7 DEF Hit, Miss, Store, LoadFails, SimDeleteEntry, SimulateFails, SimRead, Tick,
                vars, history
<1> QED
    BY <1>1, <1>2, <1>4, <1>5, <1>6, <1>7 DEF Next

\* A PATCH is undone only by one that overlaps it, and the secret and the type
\* by none, for any number of PATCHes (store.go:192-222, handlers.go:215-263).
THEOREM LossNeedsOverlap == Spec => []LostOnlyByOverlap
<1>1. LostInv => LostOnlyByOverlap
    BY DEF LostInv
<1> QED
    BY <1>1, LostInit, LostStep, PTL DEF Spec

-----------------------------------------------------------------------------
(* A type that cannot be simulated *)

StrandedInv == TypeInv /\ StrandedTypeReported

\* Each path of a simulate that leaves its type behind has reported.
LEMMA StrandedStep == StrandedInv /\ [Next]_vars => StrandedInv'
<1> SUFFICES ASSUME StrandedInv, [Next]_vars PROVE StrandedInv'
    OBVIOUS
<1>t. TypeInv /\ TypeInv' /\ RunOK /\ StrandedTypeReported
    BY TypeStep DEF StrandedInv, TypeInv
<1>f. sim \in [Simulators -> Sim] /\ row \in Stored
    BY <1>t DEF TypeInv, TypeOK
<1> SUFFICES StrandedTypeReported'
    BY <1>t DEF StrandedInv
\* A simulate that reports, and its provider, stay reported.
<1>1. ASSUME row'.source = row.source,
             \A s \in Simulators :
               /\ sim[s].pc \in {"switched", "send", "error"} /\ sim[s].provider \notin Simulated
               => /\ sim'[s].provider = sim[s].provider
                  /\ sim'[s].pc \in {"switched", "send", "error"}
      PROVE  StrandedTypeReported'
    BY <1>1, <1>t DEF StrandedTypeReported
<1>2. ASSUME NEW q \in Callers, Hit(q) \/ Store(q) \/ LoadFails(q)
      PROVE  StrandedTypeReported'
    <2>1. q \in Simulators => /\ sim[q].pc = "send" /\ sim[q].left > 0
                              /\ sim[q].provider \in Simulated
        BY <1>2, <1>t DEF Hit, Store, LoadFails, Calls, RunOK
    <2>2. sim' = sim \/ (q \in Simulators /\ OnlySim(q))
        <3>1. CASE \E key : Serve(q, key)
            BY <1>t, <2>1, <3>1, ServeEffect
        <3>2. CASE q \in Simulators /\ Answered(q, FALSE)
            BY <1>f, <2>1, <3>2, AnsweredEffect
        <3> QED
            BY <1>2, <3>1, <3>2 DEF Hit, Store, LoadFails
    <2>3. row' = row
        BY <1>2 DEF Hit, Store, LoadFails
    <2> QED
        BY <1>1, <2>1, <2>2, <2>3 DEF OnlySim
<1>3. ASSUME NEW s \in Simulators, OnlySim(s), row' = row, sim[s].pc = "idle"
      PROVE  StrandedTypeReported'
    BY <1>1, <1>3 DEF OnlySim
<1>4. ASSUME NEW s \in Simulators, OnlySim(s), row' = row,
             sim'[s].provider = sim[s].provider, sim'[s].pc \in {"switched", "send", "error"}
      PROVE  StrandedTypeReported'
    BY <1>1, <1>4 DEF OnlySim
<1>5. ASSUME NEW s \in Simulators, NEW provider \in Providers, NEW count \in Counts,
             SimRead(s, provider, count)
      PROVE  StrandedTypeReported'
    BY <1>3, <1>5, <1>f DEF SimRead, OnlySim
<1>6. ASSUME NEW s \in Simulators, UpdateConnectionSourceType(s)
      PROVE  StrandedTypeReported'
    <2>1. row'.source = sim[s].provider
        BY <1>6, <1>f DEF UpdateConnectionSourceType, Stored
    <2>2. sim'[s].provider = sim[s].provider /\ sim'[s].pc \in {"switched", "error"}
        BY <1>6, <1>f, SimEffect DEF UpdateConnectionSourceType
    <2> QED
        BY <2>1, <2>2 DEF StrandedTypeReported
<1>7. ASSUME NEW s \in Simulators, SimDeleteEntry(s) \/ SimulateFails(s)
      PROVE  StrandedTypeReported'
    <2>1. /\ OnlySim(s) /\ row' = row /\ sim'[s].provider = sim[s].provider
          /\ sim'[s].pc \in {"send", "error"}
        BY <1>7, <1>f, SimEffect DEF SimDeleteEntry, SimulateFails
    <2> QED
        BY <1>4, <2>1
<1>8. ASSUME NEW p \in Patchers, UpdateConnection(p) \/ UpdateConnectionSecret(p)
      PROVE  StrandedTypeReported'
    <2>1. row'.source = row.source /\ sim' = sim
        BY <1>8, <1>f DEF UpdateConnection, UpdateConnectionSecret, Stored
    <2> QED
        BY <1>1, <2>1
<1>9. ASSUME UNCHANGED <<row, sim>>
      PROVE  StrandedTypeReported'
    BY <1>9, <1>1
<1>10. ASSUME \/ \E q \in Callers : Miss(q)
              \/ \E p \in Patchers : PatchRefused(p) \/ DeleteEntry(p)
              \/ \E p \in Patchers, asked \in Patches : GetConnection(p, asked)
              \/ Tick \/ UNCHANGED vars
       PROVE  UNCHANGED <<row, sim>>
    BY <1>10 DEF Miss, PatchRefused, DeleteEntry, GetConnection, Tick, vars
<1> QED
    BY <1>2, <1>5, <1>6, <1>7, <1>8, <1>9, <1>10 DEF Next

\* A type no simulate can serve is never left behind an answer of 200
\* (playground.go:276-297), for any number of simulates.
THEOREM StrandingIsReported == Spec => []StrandedTypeReported
<1>1. Init => StrandedInv
    BY TypeInit DEF Init, NewRow, StrandedInv, StrandedTypeReported, Simulated
<1>2. StrandedInv => StrandedTypeReported
    BY DEF StrandedInv
<1> QED
    BY <1>1, <1>2, StrandedStep, PTL DEF Spec

-----------------------------------------------------------------------------
(* What the simulator signs, the adapters accept *)

\* The id in the one header an adapter looks for.
LEMMA OneHeader ==
    ASSUME NEW h, NEW id, NEW req, req.names = [x \in {h} |-> id]
    PROVE  HeaderID(<<h>>, req) = Named(id)
<1> DEFINE headers == <<h>>
           there == {i \in DOMAIN headers : headers[i] \in DOMAIN req.names}
<1>1. there = {1} /\ headers[1] = h /\ req.names[h] = id
    OBVIOUS
<1>2. (CHOOSE i \in there : \A j \in there : i <= j) = 1
    <2>1. \A i \in {1} : \A j \in {1} : i <= j
        OBVIOUS
    <2> QED
        BY <1>1, <2>1
<1>3. there # {}
    BY <1>1
<1>4. HeaderID(headers, req) = Named(req.names[headers[1]])
    BY <1>2, <1>3 DEF HeaderID
<1> QED
    BY <1>1, <1>4

\* For each provider the request buildSignedRequest makes passes that
\* provider's Verify and yields the id it was given (simulate.go:72-171,
\* adapters.go:38-161).
LEMMA AdaptersAgree ==
    ASSUME NEW provider \in Simulated, NEW secret, secret # None, NEW id, id # None
    PROVE  /\ Verify(provider, buildSignedRequest(provider, secret, id), secret)
           /\ ExtractEventID(provider, buildSignedRequest(provider, secret, id)) = Named(id)
<1> DEFINE req == buildSignedRequest(provider, secret, id)
<1>1. CASE provider = "stripe"
    <2>1. req = stripePayload(secret, id)
        BY <1>1 DEF buildSignedRequest
    <2> QED
        BY <1>1, <2>1 DEF Verify, StripeVerify, Signed, ExtractEventID, BodyID, stripePayload,
                          Content
<1>2. CASE provider = "easypost"
    <2>1. req = easypostPayload(secret, id)
        BY <1>2 DEF buildSignedRequest
    <2> QED
        BY <1>2, <2>1 DEF Verify, EasyPostVerify, Signed, ExtractEventID, BodyID,
                          easypostPayload, Content
<1>3. CASE provider = "github"
    <2>1. req = githubPayload(secret, id)
        BY <1>3 DEF buildSignedRequest
    <2>2. HeaderID(<<"X-GitHub-Delivery">>, req) = Named(id)
        <3>1. req.names = [x \in {"X-GitHub-Delivery"} |-> id]
            BY <2>1 DEF githubPayload
        <3> QED
            BY <3>1, OneHeader, Zenon
    <2>3. Verify(provider, req, secret)
        BY <1>3, <2>1 DEF Verify, GitHubVerify, Signed, githubPayload
    <2> QED
        BY <1>3, <2>2, <2>3 DEF ExtractEventID
<1>4. CASE provider = "internal"
    <2>1. req = internalPayload(id)
        BY <1>4 DEF buildSignedRequest
    <2>2. HeaderID(<<"X-Tuma-Event-Id">>, req) = Named(id)
        <3>1. req.names = [x \in {"X-Tuma-Event-Id"} |-> id]
            BY <2>1 DEF internalPayload
        <3> QED
            BY <3>1, OneHeader, Zenon
    <2> QED
        BY <1>4, <2>2 DEF ExtractEventID, Verify
<1> QED
    BY <1>1, <1>2, <1>3, <1>4 DEF Simulated

\* A simulate that nothing has disturbed signs with the secret on record; once
\* it has changed the type, the row has its type; no load brings an older row,
\* and once it has deleted the entry none that is cached is older.
LoadsCurrent == \A q \in Callers : load[q].on => load[q].key = Key(row)

Undisturbed(s) ==
    /\ sim[s].secret = row.secret
    /\ sim[s].pc # "read" => sim[s].provider = row.source
    /\ LoadsCurrent
    /\ sim[s].pc # "switched" => ~ StaleEntry

ArrivesInv ==
    /\ TypeInv
    /\ \A s \in Simulating \ disturbed : Undisturbed(s)
    /\ SimulatedArrives

\* No simulate has started.
LEMMA ArrivesInit == Init => ArrivesInv
<1> SUFFICES ASSUME Init PROVE ArrivesInv
    OBVIOUS
<1>1. \A s \in Simulators : sim[s].pc = "idle" /\ sim[s].arrived
    BY DEF Init
<1> QED
    BY <1>1, TypeInit DEF ArrivesInv, Simulating, SimulatedArrives

\* An event that is verified with the key of the row, while the simulate is
\* undisturbed, arrives.
LEMMA CurrentKeyArrives ==
    ASSUME TypeInv, NEW s \in Simulators, sim[s].pc = "send", sim[s].provider \in Simulated,
           Undisturbed(s)
    PROVE  Arrives(s, Key(row))
<1>1. sim[s] \in Sim /\ row \in Stored
    BY DEF TypeInv, TypeOK
<1> DEFINE id == [sim |-> s, event |-> sim[s].left]
<1>2. id # None
    <2>1. id \in [sim: Simulators, event: 0..5]
        BY <1>1 DEF Sim
    <2> QED
        BY <2>1, ConnectionsAssumption
<1>3. sim[s].secret # None
    BY <1>1, ConnectionsAssumption DEF Sim, Authors
<1>4. Key(row).secret = sim[s].secret /\ Key(row).source = sim[s].provider
    BY DEF Undisturbed, Key
<1>5. /\ Verify(sim[s].provider, buildSignedRequest(sim[s].provider, sim[s].secret, id),
                sim[s].secret)
      /\ ExtractEventID(sim[s].provider,
           buildSignedRequest(sim[s].provider, sim[s].secret, id)) = Named(id)
    <2> HIDE DEF id
    <2> QED
        BY <1>2, <1>3, AdaptersAgree
<1> QED
    BY <1>4, <1>5 DEF Arrives

\* A step after which the row's key is the same, no entry and no load is out
\* of date that was not before, and only s has moved, which is over or as
\* undisturbed as before.
LEMMA ArrivesFromStep ==
    ASSUME ArrivesInv, TypeInv', Key(row)' = Key(row), row \in Stored, row' \in Stored,
           LoadsCurrent => LoadsCurrent', StaleEntry' /\ LoadsCurrent => StaleEntry,
           disturbed \subseteq disturbed',
           \A s \in Simulators \ disturbed' :
             /\ sim[s].arrived => sim'[s].arrived
             /\ sim'[s].pc \in {"read", "switched", "send"} =>
                  /\ sim'[s].pc = sim[s].pc
                  /\ sim'[s].provider = sim[s].provider /\ sim'[s].secret = sim[s].secret
    PROVE  ArrivesInv'
<1>1. SimulatedArrives'
    BY DEF ArrivesInv, SimulatedArrives
<1>2. row'.secret = row.secret /\ row'.source = row.source
    BY DEF Key
<1>3. ASSUME NEW s \in Simulating' \ disturbed'
      PROVE  Undisturbed(s)'
    <2>1. s \in Simulating \ disturbed /\ s \in Simulators
        BY <1>3 DEF Simulating
    <2>2. Undisturbed(s)
        BY <2>1 DEF ArrivesInv
    <2>3. /\ sim'[s].pc = sim[s].pc
          /\ sim'[s].provider = sim[s].provider /\ sim'[s].secret = sim[s].secret
        BY <1>3 DEF Simulating
    <2> QED
        BY <1>2, <2>2, <2>3 DEF Undisturbed
<1> QED
    BY <1>1, <1>3 DEF ArrivesInv

\* The answers of the cache.
LEMMA ArrivesCache ==
    ASSUME ArrivesInv, TypeInv', NEW q \in Callers,
           Hit(q) \/ Miss(q) \/ Store(q) \/ LoadFails(q)
    PROVE  ArrivesInv'
<1>t. /\ TypeInv /\ sim \in [Simulators -> Sim] /\ load \in [Callers -> Load] /\ RunOK
      /\ row \in Stored /\ Simulators \subseteq Callers
    BY DEF ArrivesInv, TypeInv, TypeOK, Load, Callers
<1>r. row' = row /\ Key(row)' = Key(row)
    BY DEF Hit, Miss, Store, LoadFails
<1>s. q \in Simulators =>
        /\ sim[q].pc = "send" /\ sim[q].left > 0 /\ sim[q].provider \in Simulated
        /\ q \in Simulating /\ sim[q].arrived \in BOOLEAN
    BY <1>t DEF Hit, Miss, Store, LoadFails, Calls, RunOK, Simulating, Sim
<1>u. ASSUME q \in Simulators \ disturbed
      PROVE  /\ Undisturbed(q) /\ Arrives(q, Key(row)) /\ ~ StaleEntry /\ LoadsCurrent
    <2>1. Undisturbed(q)
        BY <1>u, <1>s DEF ArrivesInv
    <2>2. Arrives(q, Key(row))
        BY <1>t, <1>s, <1>u, <2>1, CurrentKeyArrives
    <2> QED
        BY <1>s, <1>u, <2>1, <2>2 DEF Undisturbed
\* The caller, if it is a simulate, has its answer: it arrives if the key that
\* was used is the row's.
<1>a. ASSUME NEW key, Serve(q, key), disturbed' = disturbed,
             q \in Simulators \ disturbed => key = Key(row)
      PROVE  \A s \in Simulators \ disturbed' :
               /\ sim[s].arrived => sim'[s].arrived
               /\ sim'[s].pc \in {"read", "switched", "send"} =>
                    /\ sim'[s].pc = sim[s].pc
                    /\ sim'[s].provider = sim[s].provider /\ sim'[s].secret = sim[s].secret
    <2>1. CASE sim' = sim
        BY <2>1
    <2>2. CASE sim' # sim
        <3>1. /\ q \in Simulators /\ OnlySim(q)
              /\ sim'[q].provider = sim[q].provider /\ sim'[q].pc \in {"send", "ok"}
              /\ sim'[q].pc = "send" => sim'[q].secret = sim[q].secret
              /\ sim'[q].arrived = (sim[q].arrived /\ Arrives(q, key))
            BY <1>t, <1>s, <1>a, <2>2, ServeEffect
        <3>2. q \notin disturbed /\ sim[q].arrived => sim'[q].arrived
            BY <1>a, <1>u, <3>1
        <3> QED
            BY <1>a, <1>s, <3>1, <3>2 DEF OnlySim
    <2> QED
        BY <2>1, <2>2
<1>1. CASE Hit(q)
    <2>1. Serve(q, entry.key) /\ UNCHANGED <<entry, load, disturbed>> /\ entry.left > 0
        BY <1>1 DEF Hit, history
    <2>2. q \in Simulators \ disturbed => entry.key = Key(row)
        BY <1>u, <2>1 DEF StaleEntry
    <2>3. (LoadsCurrent => LoadsCurrent') /\ (StaleEntry' => StaleEntry)
        BY <1>r, <2>1 DEF LoadsCurrent, StaleEntry
    <2> QED
        BY <1>a, <1>r, <1>t, <2>1, <2>2, <2>3, ArrivesFromStep
<1>2. CASE Miss(q)
    <2>1. UNCHANGED <<entry, sim, disturbed>>
        BY <1>2 DEF Miss, history
    <2>2. \A o \in Callers : load'[o] = load[o] \/ load'[o].key = Key(row)
        BY <1>2, <1>t DEF Miss
    <2>3. (LoadsCurrent => LoadsCurrent') /\ (StaleEntry' => StaleEntry)
        BY <1>r, <2>1, <2>2 DEF LoadsCurrent, StaleEntry
    <2> QED
        BY <1>r, <1>t, <2>1, <2>3, ArrivesFromStep
<1>3. CASE Store(q)
    <2>1. /\ Serve(q, load[q].key) /\ disturbed' = disturbed /\ load[q].on
          /\ entry'.key = load[q].key
        BY <1>3 DEF Store, history
    <2>2. q \in Simulators \ disturbed => load[q].key = Key(row)
        BY <1>u, <2>1 DEF LoadsCurrent
    <2>3. \A o \in Callers : load'[o].on => load'[o] = load[o]
        BY <1>3, <1>t, NoneType DEF Store
    <2>4. (LoadsCurrent => LoadsCurrent') /\ (StaleEntry' /\ LoadsCurrent => StaleEntry)
        BY <1>r, <2>1, <2>3 DEF LoadsCurrent, StaleEntry
    <2> QED
        BY <1>a, <1>r, <1>t, <2>1, <2>2, <2>4, ArrivesFromStep
<1>4. CASE LoadFails(q)
    <2>1. UNCHANGED entry /\ disturbed \subseteq disturbed'
        BY <1>4 DEF LoadFails
    <2>2. \A o \in Callers : load'[o].on => load'[o] = load[o]
        BY <1>4, <1>t, NoneType DEF LoadFails
    <2>3. (LoadsCurrent => LoadsCurrent') /\ (StaleEntry' => StaleEntry)
        BY <1>r, <2>1, <2>2 DEF LoadsCurrent, StaleEntry
    <2>4. \A s \in Simulators \ disturbed' : sim'[s] = sim[s]
        <3>1. CASE sim' = sim
            BY <3>1
        <3>2. CASE q \in Simulators /\ Answered(q, FALSE) /\ disturbed' = disturbed \cup {q}
            BY <1>s, <1>t, <3>2, AnsweredEffect DEF OnlySim
        <3> QED
            BY <1>4, <3>1, <3>2 DEF LoadFails
    <2> QED
        BY <1>r, <1>t, <2>1, <2>3, <2>4, ArrivesFromStep
<1> QED
    BY <1>1, <1>2, <1>3, <1>4

\* The simulates themselves.
LEMMA ArrivesSim ==
    ASSUME ArrivesInv, TypeInv', NEW s \in Simulators,
           \/ \E provider \in Providers, count \in Counts : SimRead(s, provider, count)
           \/ UpdateConnectionSourceType(s) \/ SimDeleteEntry(s) \/ SimulateFails(s)
    PROVE  ArrivesInv'
<1>t. /\ TypeInv /\ sim \in [Simulators -> Sim] /\ row \in Stored /\ row' \in Stored
      /\ load \in [Callers -> Load] /\ SimulatedArrives
      /\ \A o \in Simulating \ disturbed : Undisturbed(o)
    BY DEF ArrivesInv, TypeInv, TypeOK, Load
<1>1. ASSUME NEW provider \in Providers, NEW count \in Counts, SimRead(s, provider, count)
      PROVE  ArrivesInv'
    <2>1. /\ UNCHANGED <<row, entry, load>> /\ sim[s].pc = "idle" /\ OnlySim(s)
          /\ sim'[s].pc = (IF row.source = provider THEN "send" ELSE "read")
          /\ sim'[s].provider = provider /\ sim'[s].secret = row.secret /\ sim'[s].arrived
          /\ disturbed' = IF Outdated THEN disturbed \cup {s} ELSE disturbed
        BY <1>1, <1>t DEF SimRead, OnlySim, cacheVars
    <2>2. SimulatedArrives'
        BY <1>t, <2>1 DEF SimulatedArrives, OnlySim
    <2>3. ASSUME NEW o \in Simulating' \ disturbed'
          PROVE  Undisturbed(o)'
        <3>1. CASE o = s
            <4>1. ~ Outdated
                BY <2>1, <2>3, <3>1
            <4>2. LoadsCurrent /\ ~ StaleEntry
                BY <4>1 DEF Outdated, LoadsCurrent, StaleEntry
            <4> QED
                BY <2>1, <3>1, <4>2 DEF Undisturbed, LoadsCurrent, StaleEntry
        <3>2. CASE o # s
            <4>1. o \in Simulating \ disturbed /\ sim'[o] = sim[o]
                BY <2>1, <2>3, <3>2 DEF Simulating, OnlySim
            <4> QED
                BY <1>t, <2>1, <4>1 DEF Undisturbed, LoadsCurrent, StaleEntry
        <3> QED
            BY <3>1, <3>2
    <2> QED
        BY <2>2, <2>3 DEF ArrivesInv
<1>2. CASE UpdateConnectionSourceType(s)
    <2>1. /\ sim[s].pc = "read" /\ OnlySim(s)
          /\ sim'[s].arrived = sim[s].arrived /\ sim'[s].pc \in {"switched", "error"}
          /\ sim'[s].pc = "switched" => /\ sim'[s].provider = sim[s].provider
                                        /\ sim'[s].secret = sim[s].secret
        BY <1>2, <1>t, SimEffect DEF UpdateConnectionSourceType
    <2>2. /\ row'.source = sim[s].provider /\ row'.secret = row.secret
          /\ UNCHANGED <<entry, load>>
        BY <1>2, <1>t DEF UpdateConnectionSourceType, Stored, cacheVars
    <2>3. /\ disturbed \subseteq disturbed' /\ Simulating \ {s} \subseteq disturbed'
          /\ s \notin disturbed' => ~ Loading
        BY <1>2 DEF UpdateConnectionSourceType
    <2>4. SimulatedArrives'
        BY <1>t, <2>1, <2>3 DEF SimulatedArrives, OnlySim
    <2>5. ASSUME NEW o \in Simulating' \ disturbed'
          PROVE  Undisturbed(o)'
        <3>1. o = s
            BY <2>1, <2>3, <2>5 DEF Simulating, OnlySim
        <3>2. sim'[s].pc = "switched" /\ s \in Simulating \ disturbed /\ ~ Loading
            BY <2>1, <2>3, <2>5, <3>1 DEF Simulating
        <3>3. sim[s].secret = row.secret
            BY <1>t, <3>2 DEF Undisturbed
        <3>4. LoadsCurrent'
            BY <2>2, <3>2 DEF LoadsCurrent, Loading
        <3> QED
            BY <2>1, <2>2, <3>1, <3>2, <3>3, <3>4 DEF Undisturbed
    <2> QED
        BY <2>4, <2>5 DEF ArrivesInv
<1>3. CASE SimDeleteEntry(s)
    <2>1. /\ sim[s].pc = "switched" /\ sim'[s].pc = "send" /\ OnlySim(s)
          /\ sim'[s].provider = sim[s].provider /\ sim'[s].secret = sim[s].secret
          /\ sim'[s].arrived = sim[s].arrived
        BY <1>3, <1>t, SimEffect DEF SimDeleteEntry
    <2>2. UNCHANGED <<row, load, disturbed>> /\ entry'.left = 0
        BY <1>3, NoneType DEF SimDeleteEntry
    <2>3. SimulatedArrives'
        BY <1>t, <2>1, <2>2 DEF SimulatedArrives, OnlySim
    <2>4. ASSUME NEW o \in Simulating' \ disturbed'
          PROVE  Undisturbed(o)'
        <3>1. o \in Simulating \ disturbed
            BY <2>1, <2>2, <2>4 DEF Simulating, OnlySim
        <3>2. /\ sim'[o].provider = sim[o].provider /\ sim'[o].secret = sim[o].secret
              /\ sim'[o].pc # "read" => sim[o].pc # "read"
            BY <2>1, <3>1 DEF Simulating, OnlySim
        <3> QED
            BY <1>t, <2>2, <3>1, <3>2 DEF Undisturbed, LoadsCurrent, StaleEntry
    <2> QED
        BY <2>3, <2>4 DEF ArrivesInv
<1>4. CASE SimulateFails(s)
    <2>1. /\ OnlySim(s) /\ sim'[s].pc = "error" /\ sim'[s].arrived = sim[s].arrived
          /\ UNCHANGED <<row, entry, load, disturbed>>
        BY <1>4, <1>t, SimEffect DEF SimulateFails, cacheVars, history
    <2>2. /\ Key(row)' = Key(row) /\ (LoadsCurrent => LoadsCurrent')
          /\ (StaleEntry' => StaleEntry)
        BY <2>1 DEF LoadsCurrent, StaleEntry
    <2> QED
        BY <1>t, <2>1, <2>2, ArrivesFromStep DEF OnlySim
<1> QED
    BY <1>1, <1>2, <1>3, <1>4

\* Nothing but a disturbance comes between a simulate and its post.
LEMMA ArrivesStep == ArrivesInv /\ [Next]_vars => ArrivesInv'
<1> SUFFICES ASSUME ArrivesInv, [Next]_vars PROVE ArrivesInv'
    OBVIOUS
<1>t. TypeInv /\ TypeInv' /\ TypeOK /\ row \in Stored /\ row' \in Stored
    BY TypeStep DEF ArrivesInv, TypeInv, TypeOK
<1>1. ASSUME UNCHANGED <<sim, disturbed>>, Key(row)' = Key(row),
             \A q \in Callers : load'[q].on = load[q].on /\ load'[q].key = load[q].key,
             entry'.left > 0 => entry.left > 0 /\ entry'.key = entry.key
      PROVE  ArrivesInv'
    <2>1. (LoadsCurrent => LoadsCurrent') /\ (StaleEntry' => StaleEntry)
        BY <1>1 DEF LoadsCurrent, StaleEntry
    <2> QED
        BY <1>1, <1>t, <2>1, ArrivesFromStep
<1>2. CASE Tick
    <2>1. /\ UNCHANGED <<row, sim, disturbed>>
          /\ \A q \in Callers : load'[q].on = load[q].on /\ load'[q].key = load[q].key
          /\ entry'.left > 0 => entry'.key = entry.key /\ entry'.left = entry.left - 1
        BY <1>2, <1>t, TickEffect DEF Tick
    <2>2. entry'.left > 0 => entry.left > 0
        BY <1>t, <2>1, CacheTypes
    <2> QED
        BY <1>1, <2>1, <2>2
<1>3. ASSUME NEW p \in Patchers, UpdateConnectionSecret(p)
      PROVE  ArrivesInv'
    <2>1. sim' = sim /\ Simulating \subseteq disturbed' /\ disturbed \subseteq disturbed'
        BY <1>3 DEF UpdateConnectionSecret
    <2>2. SimulatedArrives'
        BY <2>1 DEF ArrivesInv, SimulatedArrives
    <2>3. Simulating' \ disturbed' = {}
        BY <2>1 DEF Simulating
    <2> QED
        BY <1>t, <2>2, <2>3 DEF ArrivesInv
<1>4. ASSUME NEW p \in Patchers, UpdateConnection(p)
      PROVE  ArrivesInv'
    <2>1. Key(row)' = Key(row)
        BY <1>4, <1>t DEF UpdateConnection, Key, Stored
    <2> QED
        BY <1>1, <1>4, <2>1 DEF UpdateConnection, cacheVars
<1>5. ASSUME NEW p \in Patchers, DeleteEntry(p)
      PROVE  ArrivesInv'
    BY <1>1, <1>5, NoneType DEF DeleteEntry
<1>6. ASSUME \/ \E p \in Patchers : PatchRefused(p)
             \/ \E p \in Patchers, asked \in Patches : GetConnection(p, asked)
             \/ UNCHANGED vars
      PROVE  ArrivesInv'
    BY <1>1, <1>6 DEF PatchRefused, GetConnection, vars, cacheVars, history
<1> QED
    BY <1>t, <1>2, <1>3, <1>4, <1>5, <1>6, ArrivesCache, ArrivesSim DEF Next

\* Every event of a simulate that nothing disturbed is accepted and stored
\* under the id the visitor is shown, for any number of webhooks, PATCHes and
\* simulates at once (simulate.go:72-171, adapters.go:38-161).
THEOREM SimulatesArrive == Spec => []SimulatedArrives
<1>1. ArrivesInv => SimulatedArrives
    BY DEF ArrivesInv
<1> QED
    BY <1>1, ArrivesInit, ArrivesStep, PTL DEF Spec

=============================================================================
