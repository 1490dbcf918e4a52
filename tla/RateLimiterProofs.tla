-------------------------- MODULE RateLimiterProofs --------------------------
(***************************************************************************)
(* For every burst, cost and gain, and whatever visitors, handlers and the *)
(* collector do: the bucket that allow fills up when it is asked equals    *)
(* the one that is filled up at every tick.  And for every limit: the table*)
(* of sessions exceeds it by no more than the visitors that race, and the  *)
(* statements that failed or found their row gone, account for.            *)
(***************************************************************************)
EXTENDS PlaygroundSessions, FiniteSetTheorems, TLAPS

\* The credit is never negative and never more than the burst, which is what
\* makes the bucket of a call that was granted or refused the exact one.
LimiterInv ==
    /\ tokens \in Int /\ idle \in Int /\ credit \in Int
    /\ tokens >= 0 /\ idle >= 0
    /\ 0 <= credit /\ credit <= Full
    /\ LazyBucketExact

\* A full bucket has a size.
LEMMA FullIsInt == Full \in Int /\ Full >= 0
BY RateAssumption, SMT DEF Full

\* No credit comes without time.
LEMMA NoTime == \A g \in Int : 0 * g = 0
OBVIOUS

\* A tick adds its gain.
LEMMA OneTickMore == \A i, g \in Int : (i + 1) * g = i * g + g
OBVIOUS

\* A new bucket is full.
LEMMA LimiterStart == LimiterInit => LimiterInv
<1> SUFFICES ASSUME LimiterInit PROVE LimiterInv
    OBVIOUS
<1>1. 0 * Gain = 0
    BY NoTime, RateAssumption
<1> QED
    BY <1>1, FullIsInt, RateAssumption
    DEF LimiterInit, LimiterInv, LazyBucketExact, Refilled, AtMost

\* A granted call.
LEMMA AllowKeeps == LimiterInv /\ allow => LimiterInv'
<1> SUFFICES ASSUME LimiterInv, allow PROVE LimiterInv'
    OBVIOUS
<1>1. tokens' = credit - Cost /\ credit' = credit - Cost /\ idle' = 0 /\ credit >= Cost
    BY DEF allow, LimiterInv, LazyBucketExact
<1>2. 0 * Gain = 0
    BY NoTime, RateAssumption
<1>3. Refilled' = credit'
    BY <1>1, <1>2, FullIsInt, RateAssumption DEF LimiterInv, Refilled, AtMost, Full
<1> QED
    BY <1>1, <1>3, FullIsInt, RateAssumption DEF LimiterInv, LazyBucketExact, Full

\* A refused call.
LEMMA RefuseKeeps == LimiterInv /\ Refuse => LimiterInv'
<1> SUFFICES ASSUME LimiterInv, Refuse PROVE LimiterInv'
    OBVIOUS
<1>1. tokens' = credit /\ credit' = credit /\ idle' = 0
    BY DEF Refuse, LimiterInv, LazyBucketExact
<1>2. 0 * Gain = 0
    BY NoTime, RateAssumption
<1>3. Refilled' = credit'
    BY <1>1, <1>2, FullIsInt, RateAssumption DEF LimiterInv, Refilled, AtMost, Full
<1> QED
    BY <1>1, <1>3, FullIsInt, RateAssumption DEF LimiterInv, LazyBucketExact, Full

\* Time that passes between calls.
LEMMA TickKeeps == LimiterInv /\ LimiterTick => LimiterInv'
<1> SUFFICES ASSUME LimiterInv, LimiterTick PROVE LimiterInv'
    OBVIOUS
<1> DEFINE spent == idle * Gain
<1>1. spent \in Int /\ idle' = idle + 1 /\ tokens' = tokens /\ tokens + spent < Full
    BY RateAssumption DEF LimiterInv, LimiterTick
<1>2. (idle + 1) * Gain = spent + Gain
    BY OneTickMore, RateAssumption DEF LimiterInv
<1>3. credit = tokens + spent
    BY <1>1, FullIsInt DEF LimiterInv, LazyBucketExact, Refilled, AtMost
<1>4. credit' = AtMost(credit + Gain, Full)
    BY DEF LimiterTick
<1>5. Refilled' = AtMost(tokens + (spent + Gain), Full)
    BY <1>1, <1>2 DEF Refilled, AtMost, Full
<1> HIDE DEF spent
<1>6. Refilled' = credit'
    BY <1>1, <1>3, <1>4, <1>5, FullIsInt, RateAssumption DEF LimiterInv, AtMost
<1>7. credit' \in Int /\ 0 <= credit' /\ credit' <= Full
    BY <1>4, FullIsInt, RateAssumption DEF LimiterInv, AtMost
<1> QED
    BY <1>1, <1>6, <1>7 DEF LimiterInv, LazyBucketExact, Full

\* A step that is none of the limiter's.
LEMMA OthersKeep == LimiterInv /\ UNCHANGED limiterVars => LimiterInv'
BY DEF LimiterInv, limiterVars, LazyBucketExact, Refilled, AtMost, Full

\* The only steps of the playground that touch the bucket are those of the
\* limiter.
LEMMA StepsOfLimiter ==
    [Next]_vars => allow \/ Refuse \/ LimiterTick \/ UNCHANGED limiterVars
<1> SUFFICES ASSUME [Next]_vars
             PROVE  allow \/ Refuse \/ LimiterTick \/ UNCHANGED limiterVars
    OBVIOUS
<1>1. CASE UNCHANGED vars
    BY <1>1 DEF vars
<1>2. CASE \E v \in Visitors : Touch(v) \/ LoseCookie(v)
    BY <1>2 DEF Touch, LoseCookie
<1>3. CASE \E v \in Visitors : RateLimited(v) \/ Return(v) \/ Bootstrap(v)
    BY <1>3 DEF RateLimited, Return, Bootstrap
<1>4. CASE \E v \in Visitors : \/ CountPlaygroundSessions(v) \/ EvictBegin(v) \/ EvictEnd(v)
                               \/ CreatePlaygroundSession(v) \/ CreateFails(v)
    BY <1>4 DEF CountPlaygroundSessions, EvictBegin, EvictEnd, CreatePlaygroundSession,
                CreateFails
<1>5. CASE (\E S \in SUBSET rows : DeleteIdle(S))
           \/ CountExcess \/ ExcessBegin \/ ExcessEnd \/ CollectFails
    BY <1>5 DEF DeleteIdle, CountExcess, ExcessBegin, ExcessEnd, CollectFails
<1>6. CASE Tick
    BY <1>6 DEF Tick
<1> QED
    BY <1>1, <1>2, <1>3, <1>4, <1>5, <1>6 DEF Next

\* rateLimiter.allow (ratelimit.go:26-51) is exact: it grants and refuses what
\* a bucket would that is filled up all the time.
THEOREM LimiterIsExact == Spec => []LazyBucketExact
<1>1. Init => LimiterInv
    BY LimiterStart DEF Init
<1>2. LimiterInv /\ [Next]_vars => LimiterInv'
    BY AllowKeeps, RefuseKeeps, TickKeeps, OthersKeep, StepsOfLimiter
<1>3. LimiterInv => LazyBucketExact
    BY DEF LimiterInv
<1> QED
    BY <1>1, <1>2, <1>3, PTL DEF Spec

-----------------------------------------------------------------------------
(* The number of sessions *)

Booting ==
    /\ IsFiniteSet(rows) /\ slips \in Nat
    /\ boot \in [Visitors -> {"idle", "count", "evict", "delete", "create"}]

BoundInv == Booting /\ SessionBound

\* The visitors that are about to create are some of the visitors.
LEMMA CreatingType ==
    /\ IsFiniteSet(Creating) /\ Cardinality(Creating) \in Nat
    /\ Cardinality(Visitors) \in Nat /\ Cardinality(Creating) <= Cardinality(Visitors)
    /\ Cardinality(Visitors) >= 1
<1>1. Creating \subseteq Visitors /\ IsFiniteSet(Visitors)
    BY SessionsAssumption DEF Creating
<1>2. IsFiniteSet(Creating) /\ Cardinality(Creating) <= Cardinality(Visitors)
    BY <1>1, FS_Subset
<1>3. Cardinality(Visitors) # 0 /\ Cardinality(Visitors) \in Nat /\ Cardinality(Creating) \in Nat
    BY <1>1, <1>2, FS_EmptySet, FS_CardinalityType, SessionsAssumption
<1> QED
    BY <1>2, <1>3

\* One element more makes a set larger by one at most.
LEMMA OneMore ==
    ASSUME NEW S, IsFiniteSet(S), NEW x
    PROVE  /\ IsFiniteSet(S \cup {x}) /\ Cardinality(S \cup {x}) \in Nat
           /\ Cardinality(S \cup {x}) <= Cardinality(S) + 1
<1>1. Cardinality(S) \in Nat
    BY FS_CardinalityType
<1>2. CASE x \in S
    <2> DEFINE C == S \cup {x}
    <2>1. C = S
        BY <1>2
    <2>2. Cardinality(S) <= Cardinality(S) + 1
        BY <1>1
    <2> HIDE DEF C
    <2>3. IsFiniteSet(C) /\ Cardinality(C) \in Nat /\ Cardinality(C) <= Cardinality(S) + 1
        BY <1>1, <2>1, <2>2, Zenon
    <2> QED
        BY <2>3 DEF C
<1>3. CASE x \notin S
    <2>1. IsFiniteSet(S \cup {x}) /\ Cardinality(S \cup {x}) = Cardinality(S) + 1
        BY <1>3, FS_AddElement
    <2> QED
        BY <1>1, <2>1
<1> QED
    BY <1>2, <1>3

\* An eviction that meets one of its rows makes the table smaller.
LEMMA FewerRows ==
    ASSUME IsFiniteSet(rows), NEW D
    PROVE  /\ IsFiniteSet(rows \ D) /\ Cardinality(rows \ D) \in Nat
           /\ Cardinality(rows) \in Nat /\ Cardinality(rows \ D) <= Cardinality(rows)
           /\ D \cap rows # {} => Cardinality(rows \ D) + 1 <= Cardinality(rows)
<1>1. IsFiniteSet(rows \ D) /\ Cardinality(rows \ D) <= Cardinality(rows)
    BY FS_Subset
<1>2. Cardinality(rows) \in Nat /\ Cardinality(rows \ D) \in Nat
    BY <1>1, FS_CardinalityType
<1>3. ASSUME NEW x \in D \cap rows PROVE Cardinality(rows \ D) + 1 <= Cardinality(rows)
    <2>1. IsFiniteSet(rows \ {x}) /\ Cardinality(rows \ {x}) = Cardinality(rows) - 1
        BY <1>3, FS_RemoveElement
    <2>2. rows \ D \subseteq rows \ {x}
        BY <1>3
    <2>3. Cardinality(rows \ D) <= Cardinality(rows \ {x})
        BY <2>1, <2>2, FS_Subset
    <2> QED
        BY <1>2, <2>1, <2>3
<1> QED
    BY <1>1, <1>2, <1>3

\* An empty table.
LEMMA BoundInit == Init => BoundInv
<1> SUFFICES ASSUME Init PROVE BoundInv
    OBVIOUS
<1>1. Booting /\ Cardinality(rows) = 0 /\ slips = 0
    BY FS_EmptySet DEF Init, Booting
<1>2. Creating = {}
    BY DEF Init, Creating
<1>3. Cardinality(Creating) = 0
    BY <1>2, FS_EmptySet
<1> QED
    BY <1>1, <1>3, CreatingType, SessionsAssumption DEF BoundInv, SessionBound

\* A step in which no visitor comes to create, and no row is added.
LEMMA BoundKept ==
    ASSUME BoundInv, rows' \subseteq rows, slips' = slips, Creating' \subseteq Creating,
           boot' \in [Visitors -> {"idle", "count", "evict", "delete", "create"}]
    PROVE  BoundInv'
<1>1. Cardinality(Creating') <= Cardinality(Creating) /\ Cardinality(Creating') \in Nat
    BY CreatingType, FS_Subset, FS_CardinalityType
<1>2. IsFiniteSet(rows') /\ Cardinality(rows') <= Cardinality(rows)
    BY FS_Subset DEF BoundInv, Booting
<1>3. Cardinality(rows) \in Nat /\ Cardinality(rows') \in Nat
    BY <1>2, FS_CardinalityType DEF BoundInv, Booting
<1> QED
    BY <1>1, <1>2, <1>3, CreatingType, SessionsAssumption DEF BoundInv, SessionBound, Booting

\* A visitor comes to create: it has removed a row, or has found room, or has
\* slipped.
LEMMA BoundMore ==
    ASSUME BoundInv, NEW v \in Visitors, Goto(v, "create"),
           \/ slips' = slips /\ \E D : rows' = rows \ D /\ D \cap rows # {}
           \/ slips' = slips /\ rows' = rows /\ Cardinality(rows) < MaxSessions
           \/ slips' = slips + 1 /\ rows' \subseteq rows
    PROVE  BoundInv'
<1>1. Creating' \subseteq Creating \cup {v} /\ Creating' \subseteq Visitors
    BY DEF BoundInv, Booting, Creating, Goto
<1>2. /\ IsFiniteSet(Creating \cup {v}) /\ Cardinality(Creating \cup {v}) \in Nat
      /\ Cardinality(Creating \cup {v}) <= Cardinality(Creating) + 1
    BY CreatingType, OneMore
<1>3. /\ Cardinality(Creating') <= Cardinality(Creating \cup {v})
      /\ Cardinality(Creating') <= Cardinality(Visitors) /\ Cardinality(Creating') \in Nat
    BY <1>1, <1>2, FS_Subset, FS_CardinalityType, SessionsAssumption
<1>4. Booting' /\ Cardinality(rows) \in Nat /\ Cardinality(rows') \in Nat
      /\ Cardinality(rows') <= Cardinality(rows)
    <2>1. IsFiniteSet(rows) /\ rows' \subseteq rows
        BY DEF BoundInv, Booting
    <2>2. IsFiniteSet(rows') /\ Cardinality(rows') <= Cardinality(rows)
        BY <2>1, FS_Subset
    <2>3. Cardinality(rows) \in Nat /\ Cardinality(rows') \in Nat
        BY <2>1, <2>2, FS_CardinalityType
    <2> QED
        BY <2>2, <2>3 DEF BoundInv, Booting, Goto
<1>5. \/ slips' = slips /\ Cardinality(rows') + 1 <= Cardinality(rows)
      \/ slips' = slips /\ Cardinality(rows') < MaxSessions
      \/ slips' = slips + 1
    BY FewerRows DEF BoundInv, Booting
<1> QED
    BY <1>2, <1>3, <1>4, <1>5, CreatingType, SessionsAssumption
    DEF BoundInv, SessionBound, Booting

\* Each step of a visitor or of the collector keeps the bound.
LEMMA BoundStep == BoundInv /\ [Next]_vars => BoundInv'
<1> SUFFICES ASSUME BoundInv, [Next]_vars PROVE BoundInv'
    OBVIOUS
<1>1. /\ IsFiniteSet(rows) /\ Cardinality(rows) \in Nat /\ slips \in Nat
      /\ boot \in [Visitors -> {"idle", "count", "evict", "delete", "create"}]
    BY FS_CardinalityType DEF BoundInv, Booting
<1>2. ASSUME NEW v \in Visitors, NEW there \in {"idle", "count", "evict", "delete"},
             Goto(v, there), rows' = rows, slips' = slips
      PROVE  BoundInv'
    <2>1. /\ boot' \in [Visitors -> {"idle", "count", "evict", "delete", "create"}]
          /\ Creating' \subseteq Creating
        BY <1>1, <1>2 DEF Goto, Creating
    <2> QED
        BY <1>2, <2>1, BoundKept
<1>3. ASSUME boot' = boot, slips' = slips, rows' \subseteq rows
      PROVE  BoundInv'
    <2>1. Creating' \subseteq Creating
        BY <1>3 DEF Creating
    <2> QED
        BY <1>1, <1>3, <2>1, BoundKept
<1>4. ASSUME NEW v \in Visitors, Touch(v) \/ LoseCookie(v) \/ RateLimited(v)
      PROVE  BoundInv'
    BY <1>3, <1>4 DEF Touch, LoseCookie, RateLimited, table
<1>5. ASSUME NEW v \in Visitors, \/ Return(v) \/ Bootstrap(v) \/ EvictBegin(v)
                                \/ CreateFails(v)
      PROVE  BoundInv'
    <2>1. rows' = rows /\ slips' = slips
        BY <1>5 DEF Return, Bootstrap, EvictBegin, CreateFails, table
    <2>2. Goto(v, "idle") \/ Goto(v, "count") \/ Goto(v, "delete")
        BY <1>5 DEF Return, Bootstrap, EvictBegin, CreateFails
    <2> QED
        BY <1>2, <2>1, <2>2
<1>6. ASSUME NEW v \in Visitors, CountPlaygroundSessions(v)
      PROVE  BoundInv'
    <2>1. rows' = rows
        BY <1>6 DEF CountPlaygroundSessions, table
    <2>2. CASE Goto(v, "evict") /\ slips' = slips
        BY <1>2, <2>1, <2>2
    <2>3. CASE /\ Goto(v, "create")
               /\ slips' = slips + 1 \/ (slips' = slips /\ Cardinality(rows) < MaxSessions)
        BY <2>1, <2>3, BoundMore
    <2> QED
        BY <1>1, <1>6, <2>2, <2>3, SessionsAssumption DEF CountPlaygroundSessions, Slip
<1>7. ASSUME NEW v \in Visitors, EvictEnd(v)
      PROVE  BoundInv'
    <2>1. Goto(v, "create")
        BY <1>7 DEF EvictEnd
    <2>2. CASE DeleteChosen(v) /\ doomed[v] \cap rows # {} /\ slips' = slips
        BY <2>1, <2>2, BoundMore DEF DeleteChosen, Remove
    <2>3. CASE slips' = slips + 1 /\ rows' \subseteq rows
        BY <2>1, <2>3, BoundMore
    <2> QED
        BY <1>7, <2>2, <2>3 DEF EvictEnd, Slip, DeleteChosen, Remove, table
<1>8. ASSUME NEW v \in Visitors, CreatePlaygroundSession(v)
      PROVE  BoundInv'
    <2>1. \E s : rows' = rows \cup {s}
        BY <1>8 DEF CreatePlaygroundSession
    <2>2. PICK s : rows' = rows \cup {s}
        BY <2>1
    <2>3. IsFiniteSet(rows') /\ Cardinality(rows') \in Nat
          /\ Cardinality(rows') <= Cardinality(rows) + 1
        BY <1>1, <2>2, OneMore
    <2>4. slips' = slips /\ boot[v] = "create" /\ boot' = [boot EXCEPT ![v] = "idle"]
        BY <1>8 DEF CreatePlaygroundSession, Goto
    <2>5. Creating' = Creating \ {v} /\ v \in Creating
        BY <1>1, <2>4 DEF Creating
    <2>6. Cardinality(Creating') = Cardinality(Creating) - 1
        BY <2>5, CreatingType, FS_RemoveElement
    <2>7. Booting'
        BY <1>1, <2>3, <2>4 DEF Booting
    <2> QED
        BY <1>1, <2>3, <2>4, <2>6, <2>7, CreatingType, SessionsAssumption
        DEF BoundInv, SessionBound
<1>9. CASE \/ (\E S \in SUBSET rows : DeleteIdle(S)) \/ CountExcess \/ ExcessBegin
           \/ ExcessEnd \/ CollectFails \/ Tick \/ UNCHANGED vars
    <2>1. boot' = boot /\ slips' = slips /\ rows' \subseteq rows
        BY <1>9 DEF DeleteIdle, CountExcess, ExcessBegin, ExcessEnd, CollectFails, Tick,
                    DeleteChosen, Remove, vars, table
    <2> QED
        BY <1>3, <2>1
<1> QED
    BY <1>4, <1>5, <1>6, <1>7, <1>8, <1>9 DEF Next

\* playgroundBootstrap counts, evicts and creates in three statements
\* (playground.go:108-123), and two evictions at once may choose the same row
\* (storage playground.go:104-111).  However many visitors do that, the table
\* exceeds its limit by less than their number, and by one more for each count
\* or eviction that has failed and each eviction that found its row gone.
THEOREM RacesAreBounded == Spec => []SessionBound
<1>1. BoundInv => SessionBound
    BY DEF BoundInv
<1> QED
    BY <1>1, BoundInit, BoundStep, PTL DEF Spec

=============================================================================
