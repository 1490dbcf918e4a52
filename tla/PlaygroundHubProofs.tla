------------------------- MODULE PlaygroundHubProofs -------------------------
(***************************************************************************)
(* Any number of streams and publishers, channels and logs of any size: a  *)
(* session has one hub, a stream that ends leaves nothing behind, messages *)
(* come in order, and only a full channel loses one.                       *)
(***************************************************************************)
EXTENDS PlaygroundHub, FiniteSetTheorems, SequenceTheorems, TLAPS

-----------------------------------------------------------------------------
(* The inductive invariant *)

\* There is at most one hub, and whoever uses a hub has got that one.
Places ==
    /\ made \in {0, 1} /\ hub = made
    /\ pc \in [Goroutines -> {"idle", "session", "get", "make", "do", "serve",
                              "leave", "release"}]
    /\ kind \in [Goroutines -> Kinds]
    /\ mine \in [Goroutines -> {0, 1}]
    /\ \A g \in Goroutines : pc[g] \in {"do", "serve", "leave"} => mine[g] = 1
    /\ \A p \in Publishers : pc[p] \in {"idle", "get", "make", "do"}

\* Stream s has subscribed to messages of kind k and not yet unsubscribed.
In(k, s) ==
    \/ Subscribed(k, s)
    \/ pc[s] = "leave" /\ (k = "sim" \/ kind[s] = "dest")

\* The hub lists the streams that are between the two calls, and no others.
Listed ==
    /\ subs \in [Hubs -> [Kinds -> SUBSET Streams]]
    /\ \A k \in Kinds, s \in Streams : s \in subs[1][k] <=> In(k, s)
    /\ \A k \in Kinds : subs[2][k] = {}

\* The limiter has counted the streams that are not idle.
Slots ==
    /\ active \in [IPs -> Int]
    /\ \A i \in IPs : active[i] = Cardinality({s \in Streams : IpOf[s] = i /\ pc[s] # "idle"})

Boxes ==
    /\ log \in [Hubs -> Seq(Nat)]
    /\ chan \in [Kinds -> [Streams -> Seq(Nat)]]
    /\ got \in [Kinds -> [Streams -> Seq(Nat)]]
    /\ full \in [Kinds -> [Streams -> BOOLEAN]]
    /\ count \in [Kinds -> Nat]
    /\ \A k \in Kinds, s \in Streams : Len(chan[k][s]) <= ChanCap

\* The messages of q are in the order of publication, and none is younger
\* than n.
Rising(q, n) ==
    /\ \A i \in 1 .. Len(q) : q[i] <= n
    /\ \A i, j \in 1 .. Len(q) : i < j => q[i] < q[j]

\* q ends with message n and has no gap; of dest it has what the log keeps.
Whole(q, n, k) ==
    /\ \A i \in 1 .. Len(q) : q[i] = n - Len(q) + i
    /\ k = "dest" => Len(q) >= MaxDestLog \/ Len(q) = n

Logged == Rising(log[1], count["dest"]) /\ Whole(log[1], count["dest"], "dest")

Ordered == \A k \in Kinds, s \in Streams : Rising(Delivered(k, s), count[k])

Complete ==
    \A k \in Kinds, s \in Streams :
        Subscribed(k, s) /\ ~ full[k][s] => Whole(Delivered(k, s), count[k], k)

HubInv == Places /\ Listed /\ Slots
BoxInv == Boxes /\ Logged /\ Ordered /\ Complete

-----------------------------------------------------------------------------
(* What the operations do to a sequence of messages *)

\* Channels and logs have room for a message.
LEMMA Parameters ==
    /\ ChanCap \in Nat /\ MaxDestLog \in Nat /\ ChanCap > 0 /\ MaxDestLog > 0
BY HubAssumption

\* A sim channel starts empty.
LEMMA EmptyIsFine ==
    ASSUME NEW n \in Nat
    PROVE  <<>> \in Seq(Nat) /\ Len(<<>>) = 0 /\ Rising(<<>>, n) /\ Whole(<<>>, n, "sim")
BY DEF Rising, Whole

\* A message that is published has the next number.
LEMMA AppendIsFine ==
    ASSUME NEW q \in Seq(Nat), NEW n \in Nat, NEW k
    PROVE  /\ Append(q, n + 1) \in Seq(Nat) /\ Len(Append(q, n + 1)) = Len(q) + 1
           /\ Rising(q, n) => Rising(Append(q, n + 1), n + 1)
           /\ Whole(q, n, k) => Whole(Append(q, n + 1), n + 1, k)
<1> DEFINE r == Append(q, n + 1)
<1>1. Len(q) \in Nat /\ \A i \in 1 .. Len(q) : q[i] \in Nat
    BY LenProperties, ElementOfSeq
<1>2. /\ r \in Seq(Nat) /\ Len(r) = Len(q) + 1
      /\ \A i \in 1 .. Len(q) : r[i] = q[i]
      /\ r[Len(q) + 1] = n + 1
    BY AppendProperties
<1> DEFINE l == Len(q)
<1>3. /\ l \in Nat /\ Len(r) = l + 1 /\ r[l + 1] = n + 1
      /\ \A i \in 1 .. l : r[i] = q[i] /\ q[i] \in Nat
    BY <1>1, <1>2
<1>4. Rising(q, n) => /\ \A i \in 1 .. l : q[i] <= n
                      /\ \A i, j \in 1 .. l : i < j => q[i] < q[j]
    BY DEF Rising
<1> HIDE DEF r, l
<1>5. \A i \in 1 .. l + 1 : i \in 1 .. l \/ i = l + 1
    BY <1>3
<1>6. ASSUME Rising(q, n) PROVE Rising(r, n + 1)
    <2>1. \A i \in 1 .. l : r[i] <= n /\ r[i] \in Nat
        BY <1>3, <1>4, <1>6
    <2>2. \A i, j \in 1 .. l : i < j => r[i] < r[j]
        BY <1>3, <1>4, <1>6
    <2>3. \A i \in 1 .. l + 1 : r[i] <= n + 1
        BY <1>3, <1>5, <2>1
    <2>4. \A i, j \in 1 .. l + 1 : i < j => r[i] < r[j]
        <3> SUFFICES ASSUME NEW i \in 1 .. l + 1, NEW j \in 1 .. l + 1, i < j
                     PROVE  r[i] < r[j]
            OBVIOUS
        <3>1. i \in 1 .. l
            BY <1>3
        <3>2. CASE j \in 1 .. l
            BY <2>2, <3>1, <3>2
        <3>3. CASE j = l + 1
            BY <1>3, <2>1, <3>1, <3>3
        <3> QED
            BY <1>5, <3>2, <3>3
    <2> QED
        BY <1>3, <2>3, <2>4 DEF Rising
<1>7. ASSUME Whole(q, n, k) PROVE Whole(r, n + 1, k)
    <2>a. \A i \in 1 .. l : q[i] = n - l + i
        BY <1>7 DEF Whole, l
    <2>b. k = "dest" => l >= MaxDestLog \/ l = n
        BY <1>7 DEF Whole, l
    <2>1. \A i \in 1 .. l + 1 : r[i] = (n + 1) - (l + 1) + i
        <3> SUFFICES ASSUME NEW i \in 1 .. l + 1 PROVE r[i] = (n + 1) - (l + 1) + i
            OBVIOUS
        <3>1. CASE i \in 1 .. l
            BY <1>3, <2>a, <3>1
        <3>2. CASE i = l + 1
            BY <1>3, <3>2
        <3> QED
            BY <1>5, <3>1, <3>2
    <2>2. k = "dest" => l + 1 >= MaxDestLog \/ l + 1 = n + 1
        BY <1>3, <2>b, Parameters
    <2> QED
        BY <1>3, <2>1, <2>2 DEF Whole
<1> QED
    BY <1>2, <1>6, <1>7 DEF r

\* A message is published that q does not get.
LEMMA LaterIsFine ==
    ASSUME NEW q \in Seq(Nat), NEW n \in Nat, Rising(q, n)
    PROVE  Rising(q, n + 1)
<1>1. Len(q) \in Nat /\ \A i \in 1 .. Len(q) : q[i] \in Nat
    BY LenProperties, ElementOfSeq
<1> QED
    BY <1>1 DEF Rising

\* The first messages of a log, as many as the channel has room for.
LEMMA PrefixIsFine ==
    ASSUME NEW q \in Seq(Nat), NEW n \in Nat, NEW c \in Nat, Rising(q, n), c < Len(q)
    PROVE  LET r == SubSeq(q, 1, c) IN r \in Seq(Nat) /\ Len(r) = c /\ Rising(r, n)
<1> DEFINE r == SubSeq(q, 1, c)
<1>1. Len(q) \in Nat /\ \A i \in 1 .. Len(q) : q[i] \in Nat
    BY LenProperties, ElementOfSeq
<1>2. 1 \in Int /\ c \in Int /\ \A i \in 1 .. c : q[i] \in Nat
    BY <1>1
<1>3. /\ r \in Seq(Nat)
      /\ Len(r) = IF 1 <= c THEN c - 1 + 1 ELSE 0
      /\ \A i \in 1 .. c - 1 + 1 : r[i] = q[1 + i - 1]
    BY <1>2, SubSeqProperties
<1> HIDE DEF r
<1>4. Len(r) = c
    BY <1>3
<1>5. \A i \in 1 .. Len(r) : i \in 1 .. Len(q) /\ r[i] = q[i]
    BY <1>1, <1>3, <1>4
<1>6. Rising(r, n)
    BY <1>5 DEF Rising
<1> QED
    BY <1>3, <1>4, <1>6 DEF r

\* The messages a log keeps when it is cut.
LEMMA LastIsFine ==
    ASSUME NEW q \in Seq(Nat), NEW n \in Nat, Rising(q, n), Whole(q, n, "dest")
    PROVE  LET r == LastOf(q, MaxDestLog)
           IN  r \in Seq(Nat) /\ Rising(r, n) /\ Whole(r, n, "dest")
<1> DEFINE r == LastOf(q, MaxDestLog)
           M == MaxDestLog
           d == Len(q) - M
<1>1. Len(q) \in Nat /\ \A i \in 1 .. Len(q) : q[i] \in Nat
    BY LenProperties, ElementOfSeq
<1>2. CASE ~ Len(q) > M
    BY <1>2 DEF LastOf
<1>3. CASE Len(q) > M
    <2>0. M \in Nat /\ d \in Nat /\ d + M = Len(q) /\ M > 0
        BY <1>1, <1>3, Parameters
    <2>a. r = SubSeq(q, d + 1, Len(q))
        BY <1>3 DEF LastOf
    <2>1. d + 1 \in Int /\ Len(q) \in Int /\ \A i \in d + 1 .. Len(q) : q[i] \in Nat
        BY <1>1, <2>0
    <2>2. /\ r \in Seq(Nat)
          /\ Len(r) = IF d + 1 <= Len(q) THEN Len(q) - (d + 1) + 1 ELSE 0
          /\ \A i \in 1 .. Len(q) - (d + 1) + 1 : r[i] = q[(d + 1) + i - 1]
        BY <2>a, <2>1, SubSeqProperties
    <2> HIDE DEF r, d, M
    <2>3. Len(r) = M
        BY <1>1, <2>0, <2>2
    <2>4. \A i \in 1 .. Len(r) : d + i \in 1 .. Len(q) /\ r[i] = q[d + i]
        BY <1>1, <2>0, <2>2, <2>3
    <2>5. \A i \in 1 .. Len(r) : r[i] = n - Len(r) + i
        <3> SUFFICES ASSUME NEW i \in 1 .. M PROVE r[i] = n - M + i
            BY <2>3
        <3> DEFINE l == Len(q)
        <3>1. d + i \in 1 .. l /\ r[i] = q[d + i]
            BY <2>3, <2>4
        <3>2. l = d + M /\ q[d + i] = n - l + (d + i)
            BY <2>0, <3>1 DEF Whole
        <3> HIDE DEF l
        <3> QED
            BY <2>0, <3>1, <3>2
    <2>6. Rising(r, n)
        <3>1. \A i \in 1 .. Len(r) : r[i] <= n
            BY <2>4 DEF Rising
        <3>2. \A i, j \in 1 .. Len(r) : i < j => r[i] < r[j]
            BY <2>0, <2>3, <2>5
        <3> QED
            BY <3>1, <3>2 DEF Rising
    <2>7. Whole(r, n, "dest")
        BY <2>0, <2>3, <2>5 DEF Whole, M
    <2> QED
        BY <2>2, <2>6, <2>7 DEF r
<1> QED
    BY <1>2, <1>3

\* A stream that has read nothing.
LEMMA JoinedEmpty ==
    ASSUME NEW q \in Seq(Nat)
    PROVE  <<>> \o q = q
BY ConcatEmptySeq

\* A message that is put into a channel is the last one delivered.
LEMMA JoinedAppend ==
    ASSUME NEW a \in Seq(Nat), NEW b \in Seq(Nat), NEW m \in Nat
    PROVE  a \o Append(b, m) = Append(a \o b, m)
<1>1. /\ Append(b, m) = b \o <<m>> /\ <<m>> \in Seq(Nat)
      /\ a \o b \in Seq(Nat)
    BY AppendIsConcat, ConcatProperties
<1>2. Append(a \o b, m) = (a \o b) \o <<m>>
    BY <1>1, AppendIsConcat
<1> QED
    BY <1>1, <1>2, ConcatAssociative

\* What a stream reads moves from its channel to what it has.
LEMMA JoinedMoved ==
    ASSUME NEW a \in Seq(Nat), NEW b \in Seq(Nat), b # <<>>
    PROVE  /\ Append(a, Head(b)) \in Seq(Nat) /\ Tail(b) \in Seq(Nat) /\ Len(Tail(b)) = Len(b) - 1
           /\ Append(a, Head(b)) \o Tail(b) = a \o b
<1>1. Head(b) \in Nat /\ Tail(b) \in Seq(Nat) /\ Len(Tail(b)) = Len(b) - 1
    BY HeadTailProperties
<1>2. b = <<Head(b)>> \o Tail(b) /\ <<Head(b)>> \in Seq(Nat)
    BY <1>1, ConcatProperties, HeadTailProperties
<1>3. Append(a, Head(b)) = a \o <<Head(b)>> /\ Append(a, Head(b)) \in Seq(Nat)
    BY <1>1, AppendIsConcat, AppendProperties
<1>4. (a \o <<Head(b)>>) \o Tail(b) = a \o (<<Head(b)>> \o Tail(b))
    BY <1>1, <1>2, ConcatAssociative
<1> QED
    BY <1>1, <1>2, <1>3, <1>4

\* What is read and what is waiting make a sequence of messages.
LEMMA JoinedIsSeq ==
    ASSUME NEW a \in Seq(Nat), NEW b \in Seq(Nat)
    PROVE  a \o b \in Seq(Nat)
BY ConcatProperties

-----------------------------------------------------------------------------
(* Places, subscriptions and slots *)

Positions == {"idle", "session", "get", "make", "do", "serve", "leave", "release"}

\* No hub, and idle goroutines.
LEMMA HubInit == Init => HubInv
<1> SUFFICES ASSUME Init PROVE HubInv
    OBVIOUS
<1>1. Places
    BY DEF Init, Places, Kinds, Goroutines
<1>2. Listed
    BY DEF Init, Listed, In, Subscribed, Hubs, Kinds, Goroutines
<1>3. \A i \in IPs : {s \in Streams : IpOf[s] = i /\ pc[s] # "idle"} = {}
    BY DEF Init, Goroutines
<1>4. \A i \in IPs : Cardinality({s \in Streams : IpOf[s] = i /\ pc[s] # "idle"}) = 0
    BY <1>3, FS_EmptySet
<1>5. Slots
    BY <1>4 DEF Init, Slots
<1> QED
    BY <1>1, <1>2, <1>5 DEF HubInv

\* A step in which no stream starts or ends.
LEMMA SameRunning ==
    ASSUME Slots, UNCHANGED active, \A t \in Streams : pc'[t] # "idle" <=> pc[t] # "idle"
    PROVE  Slots'
<1>1. \A i \in IPs : {s \in Streams : IpOf[s] = i /\ pc'[s] # "idle"}
                     = {s \in Streams : IpOf[s] = i /\ pc[s] # "idle"}
    OBVIOUS
<1> QED
    BY <1>1 DEF Slots

\* A goroutine that moves, between positions that mean the same to the hub
\* and to the limiter.
LEMMA MovesKeep ==
    ASSUME HubInv, NEW g \in Goroutines, NEW there \in Positions, NEW j \in Kinds,
           Goto(g, there, j), UNCHANGED <<subs, active>>,
           g \in Streams => /\ pc[g] = "idle" <=> there = "idle"
                            /\ \A k \in Kinds : In(k, g)' <=> In(k, g)
    PROVE  Listed' /\ Slots'
<1>1. \A o \in Goroutines : o # g => pc'[o] = pc[o] /\ kind'[o] = kind[o]
    BY DEF HubInv, Places, Goto
<1>2. pc'[g] = there
    BY DEF HubInv, Places, Goto
<1>3. \A k \in Kinds, s \in Streams : In(k, s)' <=> In(k, s)
    BY <1>1 DEF In, Subscribed, Goroutines
<1>4. Listed'
    BY <1>3 DEF HubInv, Listed
<1>5. \A t \in Streams : pc'[t] # "idle" <=> pc[t] # "idle"
    BY <1>1, <1>2 DEF Goroutines
<1>6. Slots'
    BY <1>5, SameRunning DEF HubInv
<1> QED
    BY <1>4, <1>6

\* The same for a stream whose subscriptions change with its place.
LEMMA OthersKeep ==
    ASSUME HubInv, NEW g \in Goroutines, NEW there, NEW j, Goto(g, there, j)
    PROVE  /\ \A s \in Streams \ {g}, k \in Kinds : In(k, s)' <=> In(k, s)
           /\ \A o \in Goroutines \ {g} : pc'[o] = pc[o] /\ kind'[o] = kind[o]
           /\ pc'[g] = there /\ kind'[g] = j
<1>1. \A o \in Goroutines : o # g => pc'[o] = pc[o] /\ kind'[o] = kind[o]
    BY DEF HubInv, Places, Goto
<1>2. pc'[g] = there /\ kind'[g] = j
    BY DEF HubInv, Places, Goto
<1>3. \A k \in Kinds, s \in Streams \ {g} : In(k, s)' <=> In(k, s)
    BY <1>1 DEF In, Subscribed, Goroutines
<1> QED
    BY <1>1, <1>2, <1>3

\* Each step keeps places, subscriptions and slots.
LEMMA HubStep == HubInv /\ [Next]_vars => HubInv'
<1> SUFFICES ASSUME HubInv, [Next]_vars PROVE HubInv'
    OBVIOUS
<1> USE DEF Positions
<1>p. /\ Places /\ Listed /\ Slots /\ Streams \subseteq Goroutines /\ Publishers \subseteq Goroutines
      /\ Streams \cap Publishers = {}
    BY HubAssumption DEF HubInv, Goroutines
<1>1. ASSUME NEW g \in Goroutines, Lookup(g) PROVE HubInv'
    <2>1. Places'
        BY <1>1, <1>p DEF Lookup, Goto, Places
    <2>2. /\ Goto(g, "make", kind[g]) \/ Goto(g, "do", kind[g])
          /\ UNCHANGED <<subs, active>> /\ pc[g] = "get" /\ kind[g] \in Kinds
        BY <1>1, <1>p DEF Lookup, box, Places
    <2>3. \A k \in Kinds : In(k, g)' <=> In(k, g)
        BY <1>p, <2>2 DEF Goto, In, Subscribed, Places
    <2> QED
        BY <1>p, <2>1, <2>2, <2>3, MovesKeep DEF HubInv
<1>2. ASSUME NEW g \in Goroutines, LookupAgain(g) PROVE HubInv'
    <2>1. Places'
        BY <1>2, <1>p DEF LookupAgain, Make, Goto, Places
    <2>2. /\ Goto(g, "do", kind[g])
          /\ UNCHANGED <<subs, active>> /\ pc[g] = "make" /\ kind[g] \in Kinds
        BY <1>2, <1>p DEF LookupAgain, box, Places
    <2>3. \A k \in Kinds : In(k, g)' <=> In(k, g)
        BY <1>p, <2>2 DEF Goto, In, Subscribed, Places
    <2> QED
        BY <1>p, <2>1, <2>2, <2>3, MovesKeep DEF HubInv
<1>3. ASSUME NEW p \in Publishers, NEW k \in Kinds, StartPublish(p, k) PROVE HubInv'
    <2>1. Places'
        BY <1>3, <1>p DEF StartPublish, Goto, Places
    <2>2. Goto(p, "get", k) /\ UNCHANGED <<subs, active>> /\ p \notin Streams
        BY <1>3, <1>p DEF StartPublish, box
    <2> QED
        BY <1>p, <2>1, <2>2, MovesKeep DEF HubInv
<1>4. ASSUME NEW p \in Publishers, Publish(p) PROVE HubInv'
    <2>1. Places'
        BY <1>4, <1>p DEF Publish, Goto, Places, Kinds
    <2>2. Goto(p, "idle", "sim") /\ UNCHANGED <<subs, active>> /\ p \notin Streams /\ "sim" \in Kinds
        BY <1>4, <1>p DEF Publish, Kinds
    <2> QED
        BY <1>p, <2>1, <2>2, MovesKeep DEF HubInv
<1>5. ASSUME NEW s \in Streams, Acquire(s) PROVE HubInv'
    <2>1. Places'
        BY <1>5, <1>p DEF Acquire, Goto, Places, Kinds
    <2>2. /\ Goto(s, "session", "sim") /\ UNCHANGED subs /\ pc[s] = "idle"
          /\ active' = [active EXCEPT ![IpOf[s]] = @ + 1]
        BY <1>5 DEF Acquire, box
    <2>3. \A k \in Kinds : In(k, s)' <=> In(k, s)
        BY <1>p, <2>2 DEF Goto, In, Subscribed, Places
    <2>4. Listed'
        BY <1>p, <2>2, <2>3, OthersKeep DEF HubInv, Listed
    <2>5. ASSUME NEW i \in IPs
          PROVE  active'[i] \in Int
                 /\ active'[i] = Cardinality({t \in Streams : IpOf[t] = i /\ pc'[t] # "idle"})
        <3> DEFINE A == {t \in Streams : IpOf[t] = i /\ pc[t] # "idle"}
                   B == {t \in Streams : IpOf[t] = i /\ pc'[t] # "idle"}
        <3>1. IsFiniteSet(A) /\ s \notin A /\ B = IF IpOf[s] = i THEN A \cup {s} ELSE A
            <4>1. IsFiniteSet(A) /\ s \notin A
                BY <2>2, HubAssumption, FS_Subset
            <4>2. B = IF IpOf[s] = i THEN A \cup {s} ELSE A
                BY <1>p, <2>2, OthersKeep
            <4> QED
                BY <4>1, <4>2
        <3>2. active[i] = Cardinality(A) /\ active[i] \in Int
            BY <1>p DEF Slots
        <3>3. active'[i] = IF IpOf[s] = i THEN active[i] + 1 ELSE active[i]
            BY <1>p, <2>2 DEF Slots
        <3> HIDE DEF A
        <3>4. Cardinality(A \cup {s}) = Cardinality(A) + 1
            BY <3>1, FS_AddElement
        <3> HIDE DEF B
        <3>5. active'[i] = Cardinality(B) /\ active'[i] \in Int
            BY <3>1, <3>2, <3>3, <3>4
        <3> QED
            BY <3>5 DEF B
    <2>6. Slots'
        BY <1>p, <2>2, <2>5 DEF Slots
    <2> QED
        BY <2>1, <2>4, <2>6 DEF HubInv
<1>6. ASSUME NEW s \in Streams, SessionFound(s) \/ SessionMissing(s) PROVE HubInv'
    <2>1. Places'
        BY <1>6, <1>p DEF SessionFound, SessionMissing, Goto, Places, Kinds
    <2>2. /\ Goto(s, "get", "sim") \/ Goto(s, "release", "sim")
          /\ UNCHANGED <<subs, active>> /\ pc[s] = "session" /\ "sim" \in Kinds
        BY <1>6 DEF SessionFound, SessionMissing, box, Kinds
    <2>3. \A k \in Kinds : In(k, s)' <=> In(k, s)
        BY <1>p, <2>2 DEF Goto, In, Subscribed, Places
    <2> QED
        BY <1>p, <2>1, <2>2, <2>3, MovesKeep DEF HubInv

<1>7. ASSUME NEW s \in Streams, Subscribe(s) PROVE HubInv'
    <2>1. Places'
        BY <1>7, <1>p DEF Subscribe, Goto, Places, Kinds
    <2>2. /\ pc[s] = "do" /\ mine[s] = 1 /\ kind[s] \in {"sim", "dest"} /\ UNCHANGED active
          /\ subs' = [subs EXCEPT ![1][kind[s]] = @ \cup {s}]
          /\ \/ kind[s] = "sim" /\ Goto(s, "get", "dest")
             \/ kind[s] = "dest" /\ Goto(s, "serve", "dest")
        BY <1>7, <1>p DEF Subscribe, Places, Kinds
    <2>3. \A k \in Kinds : In(k, s)' <=> In(k, s) \/ k = kind[s]
        BY <1>p, <2>2, OthersKeep DEF In, Subscribed, Kinds
    <2>4. /\ subs' \in [Hubs -> [Kinds -> SUBSET Streams]]
          /\ \A k \in Kinds : /\ subs'[1][k] = IF k = kind[s] THEN subs[1][k] \cup {s} ELSE subs[1][k]
                              /\ subs'[2][k] = subs[2][k]
        BY <1>p, <2>2 DEF Listed, Hubs, Kinds
    <2>5. Listed'
        <3>1. ASSUME NEW k \in Kinds, NEW t \in Streams
              PROVE  t \in subs'[1][k] <=> In(k, t)'
            <4>1. CASE t = s
                BY <1>p, <2>3, <2>4, <4>1 DEF Listed
            <4>2. CASE t # s
                <5>1. In(k, t)' <=> In(k, t)
                    BY <1>p, <2>2, <4>2, OthersKeep
                <5>2. t \in subs'[1][k] <=> t \in subs[1][k]
                    BY <2>4, <4>2
                <5>3. t \in subs[1][k] <=> In(k, t)
                    BY <1>p DEF Listed
                <5> QED
                    BY <5>1, <5>2, <5>3
            <4> QED
                BY <4>1, <4>2
        <3> QED
            BY <1>p, <2>4, <3>1 DEF Listed
    <2>6. \A t \in Streams : pc'[t] # "idle" <=> pc[t] # "idle"
        BY <1>p, <2>2, OthersKeep
    <2> QED
        BY <1>p, <2>1, <2>2, <2>5, <2>6, SameRunning DEF HubInv
<1>8. ASSUME NEW s \in Streams, NEW k \in Kinds, Receive(s, k) PROVE HubInv'
    BY <1>8, <1>p DEF Receive, place, HubInv, Places, Listed, Slots, In, Subscribed
<1>9. ASSUME NEW s \in Streams, Disconnect(s) PROVE HubInv'
    <2>1. Places'
        BY <1>9, <1>p DEF Disconnect, Goto, Places, Kinds
    <2>2. /\ Goto(s, "leave", "dest") /\ UNCHANGED <<subs, active>> /\ pc[s] = "serve"
          /\ "dest" \in Kinds
        BY <1>9 DEF Disconnect, box, Kinds
    <2>3. \A k \in Kinds : In(k, s)' <=> In(k, s)
        BY <1>p, <2>2 DEF Goto, In, Subscribed, Places
    <2> QED
        BY <1>p, <2>1, <2>2, <2>3, MovesKeep DEF HubInv
<1>10. ASSUME NEW s \in Streams, Unsubscribe(s) PROVE HubInv'
    <2>1. Places'
        BY <1>10, <1>p DEF Unsubscribe, Goto, Places, Kinds
    <2>2. /\ pc[s] = "leave" /\ mine[s] = 1 /\ kind[s] \in {"sim", "dest"} /\ UNCHANGED active
          /\ subs' = [subs EXCEPT ![1][kind[s]] = @ \ {s}]
          /\ \/ kind[s] = "sim" /\ Goto(s, "release", "sim")
             \/ kind[s] = "dest" /\ Goto(s, "leave", "sim")
        BY <1>10, <1>p DEF Unsubscribe, Places, Kinds
    <2>3. \A k \in Kinds : In(k, s)' <=> In(k, s) /\ k # kind[s]
        BY <1>p, <2>2, OthersKeep DEF In, Subscribed, Kinds
    <2>4. /\ subs' \in [Hubs -> [Kinds -> SUBSET Streams]]
          /\ \A k \in Kinds : /\ subs'[1][k] = IF k = kind[s] THEN subs[1][k] \ {s} ELSE subs[1][k]
                              /\ subs'[2][k] = subs[2][k]
        BY <1>p, <2>2 DEF Listed, Hubs, Kinds
    <2>5. Listed'
        <3>1. ASSUME NEW k \in Kinds, NEW t \in Streams
              PROVE  t \in subs'[1][k] <=> In(k, t)'
            <4>1. CASE t = s
                <5>1. In(k, s)' <=> In(k, s) /\ k # kind[s]
                    BY <2>3
                <5>2. s \in subs'[1][k] <=> s \in subs[1][k] /\ k # kind[s]
                    BY <2>4
                <5>3. s \in subs[1][k] <=> In(k, s)
                    BY <1>p DEF Listed
                <5> QED
                    BY <4>1, <5>1, <5>2, <5>3
            <4>2. CASE t # s
                <5>1. In(k, t)' <=> In(k, t)
                    BY <1>p, <2>2, <4>2, OthersKeep
                <5>2. t \in subs'[1][k] <=> t \in subs[1][k]
                    BY <2>4, <4>2
                <5>3. t \in subs[1][k] <=> In(k, t)
                    BY <1>p DEF Listed
                <5> QED
                    BY <5>1, <5>2, <5>3
            <4> QED
                BY <4>1, <4>2
        <3> QED
            BY <1>p, <2>4, <3>1 DEF Listed
    <2>6. \A t \in Streams : pc'[t] # "idle" <=> pc[t] # "idle"
        BY <1>p, <2>2, OthersKeep
    <2> QED
        BY <1>p, <2>1, <2>2, <2>5, <2>6, SameRunning DEF HubInv
<1>11. ASSUME NEW s \in Streams, Release(s) PROVE HubInv'
    <2>1. Places'
        BY <1>11, <1>p DEF Release, Goto, Places, Kinds
    <2>2. /\ Goto(s, "idle", "sim") /\ UNCHANGED subs /\ pc[s] = "release"
          /\ active' = [active EXCEPT ![IpOf[s]] = @ - 1]
        BY <1>11 DEF Release, box
    <2>3. \A k \in Kinds : In(k, s)' <=> In(k, s)
        BY <1>p, <2>2 DEF Goto, In, Subscribed, Places
    <2>4. Listed'
        BY <1>p, <2>2, <2>3, OthersKeep DEF HubInv, Listed
    <2>5. ASSUME NEW i \in IPs
          PROVE  active'[i] \in Int
                 /\ active'[i] = Cardinality({t \in Streams : IpOf[t] = i /\ pc'[t] # "idle"})
        <3> DEFINE A == {t \in Streams : IpOf[t] = i /\ pc[t] # "idle"}
                   B == {t \in Streams : IpOf[t] = i /\ pc'[t] # "idle"}
        <3>1. IsFiniteSet(A) /\ (IpOf[s] = i => s \in A) /\ B = IF IpOf[s] = i THEN A \ {s} ELSE A
            <4>1. IsFiniteSet(A) /\ (IpOf[s] = i => s \in A)
                BY <2>2, HubAssumption, FS_Subset
            <4>2. B = IF IpOf[s] = i THEN A \ {s} ELSE A
                BY <1>p, <2>2, OthersKeep
            <4> QED
                BY <4>1, <4>2
        <3>2. active[i] = Cardinality(A) /\ active[i] \in Int
            BY <1>p DEF Slots
        <3>3. active'[i] = IF IpOf[s] = i THEN active[i] - 1 ELSE active[i]
            BY <1>p, <2>2 DEF Slots
        <3> HIDE DEF A
        <3>4. s \in A => Cardinality(A \ {s}) = Cardinality(A) - 1
            BY <3>1, FS_RemoveElement
        <3> HIDE DEF B
        <3>5. active'[i] = Cardinality(B) /\ active'[i] \in Int
            BY <3>1, <3>2, <3>3, <3>4
        <3> QED
            BY <3>5 DEF B
    <2>6. Slots'
        BY <1>p, <2>2, <2>5 DEF Slots
    <2> QED
        BY <2>1, <2>4, <2>6 DEF HubInv
<1>12. ASSUME UNCHANGED vars PROVE HubInv'
    BY <1>12, <1>p DEF vars, place, box, HubInv, Places, Listed, Slots, In, Subscribed
<1> QED
    BY <1>1, <1>2, <1>3, <1>4, <1>5, <1>6, <1>7, <1>8, <1>9, <1>10, <1>11, <1>12 DEF Next

\* A stream that has ended is in no list, and the limiter of its address has
\* got its slot back, on every path out of playgroundStream
\* (playground.go:183-212, ratelimit.go:62-79).
THEOREM StreamsLeaveNothing == Spec => []NothingLeaks
<1>1. HubInv => NothingLeaks
    <2> SUFFICES ASSUME HubInv PROVE NothingLeaks
        OBVIOUS
    <2>1. ASSUME NEW k \in Kinds, NEW s \in Streams, s \in subs[1][k]
          PROVE  pc[s] \notin {"idle", "session"}
        BY <2>1 DEF HubInv, Listed, In, Subscribed
    <2>2. \A h \in Hubs, k \in Kinds : subs[h][k] \subseteq Streams
        BY DEF HubInv, Listed
    <2>3. \A h \in Hubs, k \in Kinds : \A s \in subs[h][k] : pc[s] \notin {"idle", "session"}
        BY <2>1, <2>2 DEF HubInv, Listed, Hubs
    <2> QED
        BY <2>3 DEF HubInv, Slots, NothingLeaks
<1> QED
    BY <1>1, HubInit, HubStep, PTL DEF Spec

-----------------------------------------------------------------------------
(* Messages *)

\* Nothing is published.
LEMMA BoxInit == Init => BoxInv
<1> SUFFICES ASSUME Init PROVE BoxInv
    OBVIOUS
<1>1. <<>> \in Seq(Nat) /\ Len(<<>>) = 0 /\ <<>> \o <<>> = <<>>
    BY ConcatEmptySeq
<1>2. Boxes
    BY <1>1, Parameters DEF Init, Boxes
<1>3. log[1] = <<>> /\ count["dest"] = 0 /\ \A k \in Kinds : count[k] = 0
    BY DEF Init, Hubs, Kinds
<1>4. Rising(<<>>, 0) /\ Whole(<<>>, 0, "dest")
    BY <1>1 DEF Rising, Whole
<1>5. \A k \in Kinds, s \in Streams : Delivered(k, s) = <<>>
    BY <1>1 DEF Init, Delivered
<1>6. \A k \in Kinds, s \in Streams : ~ Subscribed(k, s)
    BY DEF Init, Subscribed, Goroutines
<1> QED
    BY <1>2, <1>3, <1>4, <1>5, <1>6 DEF BoxInv, Logged, Ordered, Complete

\* Steps that move no message, in which no stream comes to be subscribed.
LEMMA BoxKept ==
    ASSUME BoxInv, UNCHANGED box,
           \A k \in Kinds, s \in Streams : Subscribed(k, s)' => Subscribed(k, s)
    PROVE  BoxInv'
<1>1. UNCHANGED <<log, chan, got, full, count>>
    BY DEF box
<1>2. Boxes' /\ Logged'
    BY <1>1 DEF BoxInv, Boxes, Logged
<1>3. \A k \in Kinds, s \in Streams : Delivered(k, s)' = Delivered(k, s)
    BY <1>1 DEF Delivered
<1>4. Ordered'
    BY <1>1, <1>3 DEF BoxInv, Ordered
<1>5. Complete'
    BY <1>1, <1>3 DEF BoxInv, Complete
<1> QED
    BY <1>2, <1>4, <1>5 DEF BoxInv

\* The channel of one stream is replaced: by an empty one, or by one with what
\* the log has.
LEMMA BoxReplaced ==
    ASSUME BoxInv, NEW s \in Streams, NEW j \in Kinds, NEW q \in Seq(Nat), NEW f \in BOOLEAN,
           Len(q) <= ChanCap, Rising(q, count[j]),
           chan' = [chan EXCEPT ![j][s] = q],
           got' = [got EXCEPT ![j][s] = <<>>],
           full' = [full EXCEPT ![j][s] = f],
           UNCHANGED <<log, count>>,
           \A k \in Kinds, t \in Streams :
               k # j \/ t # s => (Subscribed(k, t)' => Subscribed(k, t)),
           Subscribed(j, s)' /\ ~ f => Whole(q, count[j], j)
    PROVE  BoxInv'
<1>b. Boxes
    BY DEF BoxInv
<1>1. /\ chan' \in [Kinds -> [Streams -> Seq(Nat)]]
      /\ got' \in [Kinds -> [Streams -> Seq(Nat)]]
      /\ full' \in [Kinds -> [Streams -> BOOLEAN]]
    BY <1>b DEF Boxes
<1>2. chan'[j][s] = q /\ got'[j][s] = <<>> /\ full'[j][s] = f
    BY <1>b DEF Boxes
<1>3. \A k \in Kinds, t \in Streams : k # j \/ t # s =>
          chan'[k][t] = chan[k][t] /\ got'[k][t] = got[k][t] /\ full'[k][t] = full[k][t]
    BY <1>b DEF Boxes
<1>4. \A k \in Kinds, t \in Streams : Len(chan'[k][t]) <= ChanCap
    BY <1>b, <1>2, <1>3 DEF Boxes
<1>5. Boxes' /\ Logged'
    BY <1>b, <1>1, <1>4 DEF BoxInv, Boxes, Logged
<1>6. Delivered(j, s)' = q
    BY <1>2, JoinedEmpty DEF Delivered
<1>7. \A k \in Kinds, t \in Streams : k # j \/ t # s => Delivered(k, t)' = Delivered(k, t)
    BY <1>3 DEF Delivered
<1>8. Ordered'
    BY <1>6, <1>7 DEF BoxInv, Ordered
<1>9. Complete'
    BY <1>2, <1>3, <1>6, <1>7 DEF BoxInv, Complete
<1> QED
    BY <1>5, <1>8, <1>9 DEF BoxInv

\* A message reaches every channel of its kind that has room and is listed.
LEMMA PublishKeeps ==
    ASSUME HubInv, BoxInv, NEW p \in Publishers, Publish(p)
    PROVE  BoxInv'
<1>p. Places /\ Listed /\ p \in Goroutines /\ p \notin Streams /\ 1 \in Hubs
    BY HubAssumption DEF HubInv, Goroutines, Hubs
<1>b. Boxes
    BY DEF BoxInv
<1>j. PICK j \in Kinds : j = kind[p]
    BY <1>p DEF Places
<1>n. PICK n \in Nat : n = count[j]
    BY <1>b DEF Boxes
<1>1. j \in Kinds /\ mine[p] = 1 /\ n \in Nat
    BY <1>p, <1>b DEF Publish, Places, Boxes
<1>2. /\ count' = [count EXCEPT ![j] = n + 1]
      /\ log' = IF j = "dest"
                THEN [log EXCEPT ![1] = LastOf(Append(log[1], n + 1), MaxDestLog)] ELSE log
      /\ chan' = [chan EXCEPT ![j] = [s \in Streams |->
                    IF s \in subs[1][j] THEN Offer(chan[j][s], n + 1) ELSE chan[j][s]]]
      /\ full' = [full EXCEPT ![j] = [s \in Streams |->
                    full[j][s] \/ (s \in subs[1][j] /\ Len(chan[j][s]) = ChanCap)]]
      /\ got' = got
    BY <1>1, <1>j, <1>n, <1>p, <1>b DEF Publish, Boxes
<1>3. /\ count' \in [Kinds -> Nat] /\ count'[j] = n + 1
      /\ \A k \in Kinds : k # j => count'[k] = count[k]
      /\ n = count[j]
    BY <1>1, <1>2, <1>n, <1>b DEF Boxes
<1>4. \A k \in Kinds, s \in Streams : Subscribed(k, s)' <=> Subscribed(k, s)
    BY <1>p DEF Publish, Goto, Places, Subscribed, Goroutines
<1>5. \A s \in Streams : Offer(chan[j][s], n + 1) \in Seq(Nat) /\ Len(Offer(chan[j][s], n + 1)) <= ChanCap
    <2> SUFFICES ASSUME NEW s \in Streams
                 PROVE  Offer(chan[j][s], n + 1) \in Seq(Nat) /\ Len(Offer(chan[j][s], n + 1)) <= ChanCap
        OBVIOUS
    <2> DEFINE q == chan[j][s]
    <2>1. q \in Seq(Nat) /\ Len(q) <= ChanCap
        BY <1>1, <1>b DEF Boxes
    <2> HIDE DEF q
    <2>2. Append(q, n + 1) \in Seq(Nat) /\ Len(Append(q, n + 1)) = Len(q) + 1 /\ Len(q) \in Nat
        BY <1>1, <2>1, AppendProperties, LenProperties
    <2>3. Offer(q, n + 1) \in Seq(Nat) /\ Len(Offer(q, n + 1)) <= ChanCap
        BY <2>1, <2>2, Parameters DEF Offer
    <2> QED
        BY <2>3 DEF q
<1>6. /\ chan' \in [Kinds -> [Streams -> Seq(Nat)]]
      /\ full' \in [Kinds -> [Streams -> BOOLEAN]]
    BY <1>1, <1>2, <1>5, <1>b DEF Boxes
<1>7. /\ \A k \in Kinds, s \in Streams : k # j => chan'[k][s] = chan[k][s] /\ full'[k][s] = full[k][s]
      /\ \A s \in Streams :
           /\ chan'[j][s] = IF s \in subs[1][j] THEN Offer(chan[j][s], n + 1) ELSE chan[j][s]
           /\ full'[j][s] = (full[j][s] \/ (s \in subs[1][j] /\ Len(chan[j][s]) = ChanCap))
    BY <1>1, <1>2, <1>b DEF Boxes
<1>8. \A k \in Kinds, s \in Streams : Len(chan'[k][s]) <= ChanCap
    BY <1>1, <1>5, <1>7, <1>b DEF Boxes
<1>9. log' \in [Hubs -> Seq(Nat)] /\ Logged'
    <2>1. CASE j # "dest"
        <3>1. log' = log /\ count'["dest"] = count["dest"]
            BY <1>2, <1>3, <2>1 DEF Kinds
        <3> QED
            BY <3>1, <1>b DEF BoxInv, Logged, Boxes
    <2>2. CASE j = "dest"
        <3> DEFINE q == log[1]
                   r == Append(q, n + 1)
        <3>1. q \in Seq(Nat) /\ Rising(q, n) /\ Whole(q, n, "dest")
            BY <1>3, <1>b, <1>p, <2>2 DEF BoxInv, Logged, Boxes
        <3> HIDE DEF q
        <3>2. r \in Seq(Nat) /\ Rising(r, n + 1) /\ Whole(r, n + 1, "dest")
            BY <1>1, <3>1, AppendIsFine
        <3> DEFINE c == LastOf(r, MaxDestLog)
        <3> HIDE DEF r
        <3>3. n + 1 \in Nat
            BY <1>1
        <3>4. c \in Seq(Nat) /\ Rising(c, n + 1) /\ Whole(c, n + 1, "dest")
            BY <3>2, <3>3, LastIsFine
        <3>5. log' = [log EXCEPT ![1] = c]
            BY <1>2, <2>2 DEF q, r
        <3> HIDE DEF c
        <3>6. log' \in [Hubs -> Seq(Nat)] /\ log'[1] = c
            BY <1>b, <1>p, <3>4, <3>5 DEF Boxes
        <3> QED
            BY <1>3, <2>2, <3>4, <3>6 DEF Logged
    <2> QED
        BY <2>1, <2>2
<1>10. Boxes'
    BY <1>2, <1>3, <1>6, <1>8, <1>9, <1>b DEF Boxes
<1>11. \A k \in Kinds, s \in Streams : k # j => Delivered(k, s)' = Delivered(k, s)
    BY <1>2, <1>7 DEF Delivered
<1>12. ASSUME NEW s \in Streams
       PROVE  /\ Delivered(j, s) \in Seq(Nat)
              /\ Delivered(j, s)' = Delivered(j, s) \/ Delivered(j, s)' = Append(Delivered(j, s), n + 1)
              /\ Subscribed(j, s) /\ ~ full'[j][s] =>
                     Delivered(j, s)' = Append(Delivered(j, s), n + 1) /\ ~ full[j][s]
    <2> DEFINE q == chan[j][s]
               a == got[j][s]
    <2>1. q \in Seq(Nat) /\ a \in Seq(Nat) /\ Len(q) <= ChanCap /\ Len(q) \in Nat
        BY <1>1, <1>b, LenProperties DEF Boxes
    <2>2. Delivered(j, s) = a \o q /\ Delivered(j, s)' = a \o chan'[j][s]
        BY <1>2 DEF Delivered
    <2>3. /\ chan'[j][s] = IF s \in subs[1][j] THEN Offer(q, n + 1) ELSE q
          /\ full'[j][s] = (full[j][s] \/ (s \in subs[1][j] /\ Len(q) = ChanCap))
        BY <1>7
    <2>4. full[j][s] \in BOOLEAN /\ (Subscribed(j, s) => s \in subs[1][j])
        BY <1>1, <1>b, <1>p DEF Boxes, Listed, In
    <2> HIDE DEF q, a
    <2>5. a \o Append(q, n + 1) = Append(a \o q, n + 1) /\ a \o q \in Seq(Nat)
        BY <1>1, <2>1, JoinedAppend, JoinedIsSeq
    <2>6. CASE s \in subs[1][j] /\ Len(q) < ChanCap
        <3>1. chan'[j][s] = Append(q, n + 1)
            BY <2>3, <2>6 DEF Offer
        <3>2. Delivered(j, s)' = Append(Delivered(j, s), n + 1)
            BY <2>2, <2>5, <3>1
        <3>3. full'[j][s] = full[j][s]
            BY <2>1, <2>3, <2>4, <2>6, Parameters
        <3> QED
            BY <2>2, <2>5, <3>2, <3>3
    <2>7. CASE ~ (s \in subs[1][j] /\ Len(q) < ChanCap)
        <3>1. chan'[j][s] = q
            BY <2>3, <2>7 DEF Offer
        <3>2. ASSUME Subscribed(j, s) PROVE full'[j][s]
            <4>1. s \in subs[1][j] /\ ~ Len(q) < ChanCap
                BY <2>4, <2>7, <3>2
            <4>2. Len(q) = ChanCap
                BY <2>1, <4>1, Parameters
            <4> QED
                BY <2>3, <4>1, <4>2
        <3> QED
            BY <2>2, <2>5, <3>1, <3>2
    <2> QED
        BY <2>6, <2>7
<1>13. ASSUME NEW k \in Kinds, NEW s \in Streams PROVE Rising(Delivered(k, s)', count'[k])
    <2>1. Rising(Delivered(k, s), count[k])
        BY DEF BoxInv, Ordered
    <2>2. CASE k # j
        BY <1>3, <1>11, <2>1, <2>2
    <2>3. CASE k = j
        <3> DEFINE d == Delivered(j, s)
        <3>1. d \in Seq(Nat) /\ Rising(d, n)
            BY <1>3, <1>12, <2>1, <2>3
        <3>2. Delivered(j, s)' = d \/ Delivered(j, s)' = Append(d, n + 1)
            BY <1>12
        <3> HIDE DEF d
        <3>3. Rising(d, n + 1) /\ Rising(Append(d, n + 1), n + 1)
            BY <1>1, <3>1, LaterIsFine, AppendIsFine
        <3> QED
            BY <1>3, <2>3, <3>2, <3>3
    <2> QED
        BY <2>2, <2>3
<1>14. ASSUME NEW k \in Kinds, NEW s \in Streams, Subscribed(k, s)', ~ full'[k][s]
       PROVE  Whole(Delivered(k, s)', count'[k], k)
    <2>1. Subscribed(k, s)
        BY <1>4, <1>14
    <2>2. CASE k # j
        <3>1. ~ full[k][s] /\ Delivered(k, s)' = Delivered(k, s) /\ count'[k] = count[k]
            BY <1>3, <1>7, <1>11, <1>14, <2>2
        <3> QED
            BY <2>1, <3>1 DEF BoxInv, Complete
    <2>3. CASE k = j
        <3> DEFINE d == Delivered(j, s)
        <3>1. ~ full[j][s] /\ d \in Seq(Nat) /\ Delivered(j, s)' = Append(d, n + 1)
            BY <1>12, <1>14, <2>1, <2>3
        <3>2. Whole(d, n, j)
            BY <1>1, <1>3, <2>1, <2>3, <3>1 DEF BoxInv, Complete
        <3> HIDE DEF d
        <3>3. Whole(Append(d, n + 1), n + 1, j)
            BY <1>1, <3>1, <3>2, AppendIsFine
        <3> QED
            BY <1>3, <2>3, <3>1, <3>3
    <2> QED
        BY <2>2, <2>3
<1>15. Ordered' /\ Complete'
    BY <1>13, <1>14 DEF Ordered, Complete
<1> QED
    BY <1>9, <1>10, <1>15 DEF BoxInv

\* A stream reads the oldest message of its channel.
LEMMA ReceiveKeeps ==
    ASSUME BoxInv, NEW s \in Streams, NEW j \in Kinds, Receive(s, j)
    PROVE  BoxInv'
<1>b. Boxes
    BY DEF BoxInv
<1> DEFINE q == chan[j][s]
           a == got[j][s]
<1>1. q \in Seq(Nat) /\ a \in Seq(Nat) /\ q # <<>> /\ Len(q) <= ChanCap /\ Len(q) \in Nat
    BY <1>b, LenProperties DEF Boxes, Receive
<1>2. /\ got' = [got EXCEPT ![j][s] = Append(a, Head(q))]
      /\ chan' = [chan EXCEPT ![j][s] = Tail(q)]
      /\ UNCHANGED <<log, full, count, pc, kind>>
    BY <1>b DEF Receive, Boxes, place
<1> HIDE DEF q, a
<1>3. /\ Append(a, Head(q)) \in Seq(Nat) /\ Tail(q) \in Seq(Nat) /\ Len(Tail(q)) = Len(q) - 1
      /\ Append(a, Head(q)) \o Tail(q) = a \o q
    BY <1>1, JoinedMoved
<1> DEFINE c == Tail(q)
           r == Append(a, Head(q))
<1>4. c \in Seq(Nat) /\ r \in Seq(Nat) /\ Len(c) <= ChanCap /\ r \o c = a \o q
    BY <1>1, <1>3, Parameters
<1>5. got' = [got EXCEPT ![j][s] = r] /\ chan' = [chan EXCEPT ![j][s] = c]
    BY <1>2
<1> HIDE DEF c, r
<1>6. /\ chan' \in [Kinds -> [Streams -> Seq(Nat)]] /\ got' \in [Kinds -> [Streams -> Seq(Nat)]]
      /\ chan'[j][s] = c /\ got'[j][s] = r
      /\ \A k \in Kinds, t \in Streams : k # j \/ t # s =>
             chan'[k][t] = chan[k][t] /\ got'[k][t] = got[k][t]
    BY <1>b, <1>4, <1>5 DEF Boxes
<1>7. \A k \in Kinds, t \in Streams : Len(chan'[k][t]) <= ChanCap
    BY <1>b, <1>4, <1>6 DEF Boxes
<1>8. Boxes' /\ Logged'
    BY <1>b, <1>2, <1>6, <1>7 DEF BoxInv, Boxes, Logged
<1>9. \A k \in Kinds, t \in Streams : Delivered(k, t)' = Delivered(k, t)
    <2>1. Delivered(j, s)' = Delivered(j, s)
        BY <1>4, <1>6 DEF Delivered, q, a
    <2>2. \A k \in Kinds, t \in Streams : k # j \/ t # s => Delivered(k, t)' = Delivered(k, t)
        BY <1>6 DEF Delivered
    <2> QED
        BY <2>1, <2>2
<1>10. \A k \in Kinds, t \in Streams : Subscribed(k, t)' <=> Subscribed(k, t)
    BY <1>2 DEF Subscribed
<1>11. Ordered'
    BY <1>2, <1>9 DEF BoxInv, Ordered
<1>12. Complete'
    BY <1>2, <1>9, <1>10 DEF BoxInv, Complete
<1> QED
    BY <1>8, <1>11, <1>12 DEF BoxInv

\* Each step keeps order and completeness.
LEMMA BoxStep == HubInv /\ BoxInv /\ [Next]_vars => BoxInv'
<1> SUFFICES ASSUME HubInv, BoxInv, [Next]_vars PROVE BoxInv'
    OBVIOUS
<1>p. Places /\ Boxes /\ Logged /\ Streams \subseteq Goroutines /\ Publishers \subseteq Goroutines
      /\ Streams \cap Publishers = {}
    BY HubAssumption DEF HubInv, BoxInv, Goroutines
<1>1. ASSUME NEW g \in Goroutines, Lookup(g) \/ LookupAgain(g) PROVE BoxInv'
    <2>1. UNCHANGED box /\ \A k \in Kinds, s \in Streams : Subscribed(k, s)' => Subscribed(k, s)
        BY <1>1, <1>p DEF Lookup, LookupAgain, Goto, Places, Subscribed
    <2> QED
        BY <2>1, BoxKept
<1>2. ASSUME NEW p \in Publishers, NEW k \in Kinds, StartPublish(p, k) PROVE BoxInv'
    <2>1. UNCHANGED box /\ \A j \in Kinds, s \in Streams : Subscribed(j, s)' => Subscribed(j, s)
        BY <1>2, <1>p DEF StartPublish, Goto, Places, Subscribed
    <2> QED
        BY <2>1, BoxKept
<1>3. ASSUME NEW s \in Streams,
             Acquire(s) \/ SessionFound(s) \/ SessionMissing(s) \/ Disconnect(s) \/ Release(s)
      PROVE  BoxInv'
    <2>1. UNCHANGED box /\ \A k \in Kinds, t \in Streams : Subscribed(k, t)' => Subscribed(k, t)
        BY <1>3, <1>p
           DEF Acquire, SessionFound, SessionMissing, Disconnect, Release, Goto, Places, Subscribed
    <2> QED
        BY <2>1, BoxKept
<1>4. ASSUME NEW s \in Streams, Subscribe(s) PROVE BoxInv'
    <2>j. PICK j \in Kinds : j = kind[s]
        BY <1>p DEF Places
    <2>n. PICK n \in Nat : n = count[j]
        BY <1>p DEF Boxes
    <2>a. log[1] \in Seq(Nat) /\ <<>> \in Seq(Nat)
        BY <1>p, EmptyIsFine DEF Boxes, Hubs
    <2>o. PICK old \in Seq(Nat) : old = IF j = "dest" THEN log[1] ELSE <<>>
        BY <2>a
    <2> DEFINE q == IF Len(old) > ChanCap THEN SubSeq(old, 1, ChanCap) ELSE old
               f == Len(old) > ChanCap
    <2>1. pc[s] = "do" /\ mine[s] = 1
        BY <1>4, <1>p DEF Subscribe, Places
    <2>2. /\ chan' = [chan EXCEPT ![j][s] = q]
          /\ got' = [got EXCEPT ![j][s] = <<>>]
          /\ full' = [full EXCEPT ![j][s] = f]
          /\ UNCHANGED <<log, count>>
          /\ \/ j = "sim" /\ Goto(s, "get", "dest")
             \/ j = "dest" /\ Goto(s, "serve", "dest")
        BY <1>4, <2>j, <2>o, <2>1 DEF Subscribe, Kinds
    <2>3. \A k \in Kinds, t \in Streams :
              k # j \/ t # s => (Subscribed(k, t)' => Subscribed(k, t))
        BY <1>p, <2>j, <2>1, <2>2 DEF Goto, Places, Subscribed, Kinds
    <2>4. Rising(old, n) /\ Whole(old, n, j)
        <3>1. CASE j = "dest"
            BY <1>p, <2>n, <2>o, <3>1 DEF Logged
        <3>2. CASE j = "sim"
            BY <2>n, <2>o, <3>2, EmptyIsFine
        <3> QED
            BY <3>1, <3>2 DEF Kinds
    <2>5. q \in Seq(Nat) /\ Len(q) <= ChanCap /\ Rising(q, n) /\ (~ f => Whole(q, n, j))
        <3>1. Len(old) \in Nat
            BY LenProperties
        <3>2. CASE Len(old) > ChanCap
            <4> DEFINE r == SubSeq(old, 1, ChanCap)
            <4>1. r \in Seq(Nat) /\ Len(r) = ChanCap /\ Rising(r, n)
                BY <2>4, <3>1, <3>2, PrefixIsFine, Parameters
            <4>2. q = r /\ f
                BY <3>2
            <4> HIDE DEF q, r, f
            <4> QED
                BY <4>1, <4>2, Parameters
        <3>3. CASE ~ Len(old) > ChanCap
            <4>1. q = old /\ Len(old) <= ChanCap
                BY <3>1, <3>3, Parameters
            <4> HIDE DEF q, f
            <4> QED
                BY <2>4, <4>1
        <3> QED
            BY <3>2, <3>3
    <2>6. f \in BOOLEAN
        OBVIOUS
    <2> HIDE DEF q, f
    <2> QED
        BY <2>n, <2>2, <2>3, <2>5, <2>6, BoxReplaced
<1>5. ASSUME NEW s \in Streams, Unsubscribe(s) PROVE BoxInv'
    <2>j. PICK j \in Kinds : j = kind[s]
        BY <1>p DEF Places
    <2>1. /\ chan' = [chan EXCEPT ![j][s] = <<>>]
          /\ got' = [got EXCEPT ![j][s] = <<>>]
          /\ full' = [full EXCEPT ![j][s] = FALSE]
          /\ UNCHANGED <<log, count>> /\ pc[s] = "leave" /\ count[j] \in Nat
          /\ Goto(s, "leave", "sim") \/ Goto(s, "release", "sim")
        BY <1>5, <1>p, <2>j DEF Unsubscribe, Boxes
    <2>2. \A k \in Kinds, t \in Streams : Subscribed(k, t)' => Subscribed(k, t)
        BY <1>p, <2>1 DEF Goto, Places, Subscribed
    <2>3. ~ Subscribed(j, s)'
        BY <1>p, <2>1 DEF Goto, Places, Subscribed
    <2>4. <<>> \in Seq(Nat) /\ Len(<<>>) <= ChanCap /\ Rising(<<>>, count[j])
        BY <2>1, EmptyIsFine, Parameters
    <2> QED
        BY <2>1, <2>2, <2>3, <2>4, BoxReplaced
<1>6. ASSUME UNCHANGED vars PROVE BoxInv'
    <2>1. UNCHANGED box /\ \A k \in Kinds, t \in Streams : Subscribed(k, t)' => Subscribed(k, t)
        BY <1>6 DEF vars, place, box, Subscribed
    <2> QED
        BY <2>1, BoxKept
<1> QED
    BY <1>1, <1>2, <1>3, <1>4, <1>5, <1>6, PublishKeeps, ReceiveKeeps DEF Next

\* Channels and their histories: both invariants together are inductive.
LEMMA StreamsInvariant == Spec => [](HubInv /\ BoxInv)
BY HubInit, HubStep, BoxInit, BoxStep, PTL DEF Spec

\* Whatever the log shows to a new subscriber and whatever is published
\* meanwhile, a stream shows messages in the order of their publication, none
\* twice (hub.go:64-129).
THEOREM MessagesInOrder == Spec => []InOrder
<1>1. HubInv /\ BoxInv => InOrder
    BY DEF BoxInv, Ordered, Rising, InOrder
<1> QED
    BY <1>1, StreamsInvariant, PTL

\* publish never waits for a channel: it drops the message when there is no
\* room, and this is the only way in which a subscribed stream misses one
\* (hub.go:36-54, 64-129).
THEOREM OnlyFullChannelsMiss == Spec => []MissedOnlyWhenFull
<1>1. HubInv /\ BoxInv => MissedOnlyWhenFull
    BY DEF BoxInv, Complete, Whole, MissedOnlyWhenFull
<1> QED
    BY <1>1, StreamsInvariant, PTL

\* Hub.get looks again under the write lock: a session never gets a second
\* hub, and a goroutine that publishes or subscribes does it at that one
\* (hub.go:36-54).
THEOREM OneHub == Spec => []Places
<1>1. HubInv => Places
    BY DEF HubInv
<1> QED
    BY <1>1, HubInit, HubStep, PTL DEF Spec

=============================================================================
