---------------------------- MODULE PlaygroundHub ----------------------------
(***************************************************************************)
(* The live streams of one playground session: internal/playground/hub.go, *)
(* the stream limiter of internal/api/ratelimit.go, and the handler        *)
(* playgroundStream that uses both.                                        *)
(*                                                                         *)
(* A channel has two kinds of messages, sim and dest; the hub keeps a log  *)
(* of the latter and shows it to a new subscriber.  A message is the number*)
(* of its publication.  Subscribe, publish and unsubscribe each hold the   *)
(* lock of the session's hub throughout, hence are one step; get, which    *)
(* finds or makes that hub, is not under that lock and takes two.          *)
(***************************************************************************)
EXTENDS Integers, Sequences, FiniteSets, SequencesExt

CONSTANTS
    Streams,        \* goroutines that run playgroundStream
    Publishers,     \* goroutines that publish
    IPs, IpOf,      \* the client address of a stream
    MaxStreams,     \* 5
    ChanCap,        \* 32
    MaxDestLog,     \* 50
    MaxPublished    \* bound on the messages of a kind

Kinds == {"sim", "dest"}
Goroutines == Streams \cup Publishers

ASSUME HubAssumption ==
    /\ IpOf \in [Streams -> IPs]
    /\ {MaxStreams, ChanCap, MaxDestLog, MaxPublished} \subseteq Nat \ {0}
    /\ Streams \cap Publishers = {} /\ IsFiniteSet(Streams)

VARIABLES
    active,         \* streamLimiter.active
    hub,            \* the hub that Hub.sessions holds; 0: none
    made,           \* hubs allocated so far
    pc, kind, mine, \* each goroutine: position, kind of message, hub it got
    subs,           \* subs[h][k]: the streams subscribed at hub h
    log,            \* destLog of each hub
    chan,           \* chan[k][s]: the channel of stream s
    got,            \* history: what stream s has read from it
    full,           \* history: a message found that channel full
    count           \* history: messages published, by kind

place == <<pc, kind, mine>>
box == <<subs, log, chan, got, full, count>>
vars == <<active, hub, made, place, box>>

Hubs == 1..2        \* the second one is there to show that it is never made

\* Every variable keeps its type, and a session has at most one hub.
TypeOK ==
    /\ active \in [IPs -> 0..MaxStreams]
    /\ made \in {0, 1} /\ hub = made
    /\ pc \in [Goroutines -> {"idle", "session", "get", "make", "do", "serve",
                              "leave", "release"}]
    /\ kind \in [Goroutines -> Kinds]
    /\ mine \in [Goroutines -> {0, 1}]
    /\ subs \in [Hubs -> [Kinds -> SUBSET Streams]]
    /\ \A h \in Hubs : Len(log[h]) <= MaxDestLog
    /\ \A k \in Kinds, s \in Streams : Len(chan[k][s]) <= ChanCap
    /\ count \in [Kinds -> 0..MaxPublished]

Init ==
    /\ active = [i \in IPs |-> 0]
    /\ hub = 0 /\ made = 0
    /\ pc = [g \in Goroutines |-> "idle"]
    /\ kind = [g \in Goroutines |-> "sim"]
    /\ mine = [g \in Goroutines |-> 0]
    /\ subs = [h \in Hubs |-> [k \in Kinds |-> {}]]
    /\ log = [h \in Hubs |-> <<>>]
    /\ chan = [k \in Kinds |-> [s \in Streams |-> <<>>]]
    /\ got = [k \in Kinds |-> [s \in Streams |-> <<>>]]
    /\ full = [k \in Kinds |-> [s \in Streams |-> FALSE]]
    /\ count = [k \in Kinds |-> 0]

Goto(g, there, k) ==
    /\ pc' = [pc EXCEPT ![g] = there]
    /\ kind' = [kind EXCEPT ![g] = k]

-----------------------------------------------------------------------------
(* Hub.get *)

\* The read lock: the session has a hub, or has none yet.
Lookup(g) ==
    /\ pc[g] = "get"
    /\ IF hub = 0 THEN Goto(g, "make", kind[g]) /\ UNCHANGED mine
       ELSE Goto(g, "do", kind[g]) /\ mine' = [mine EXCEPT ![g] = hub]
    /\ UNCHANGED <<active, hub, made, box>>

Make(g) ==
    /\ hub' = made + 1
    /\ made' = made + 1
    /\ mine' = [mine EXCEPT ![g] = made + 1]

\* mutant: the map is not looked at again under the write lock
MakeAlways(g) ==
    /\ pc[g] = "make"
    /\ made + 1 \in Hubs
    /\ Make(g)
    /\ Goto(g, "do", kind[g])
    /\ UNCHANGED <<active, box>>

\* The write lock: somebody else may have made the hub meanwhile.
LookupAgain(g) ==
    /\ pc[g] = "make"
    /\ IF hub = 0 THEN Make(g)
       ELSE mine' = [mine EXCEPT ![g] = hub] /\ UNCHANGED <<hub, made>>
    /\ Goto(g, "do", kind[g])
    /\ UNCHANGED <<active, box>>

-----------------------------------------------------------------------------
(* Hub.publish *)

StartPublish(p, k) ==
    /\ pc[p] = "idle"
    /\ count[k] + Cardinality({q \in Publishers : pc[q] # "idle"}) < MaxPublished
    /\ Goto(p, "get", k)
    /\ UNCHANGED <<active, hub, made, mine, box>>

LastOf(q, n) == IF Len(q) > n THEN SubSeq(q, Len(q) - n + 1, Len(q)) ELSE q

\* select { case ch <- ev: default: }
Offer(q, m) == IF Len(q) < ChanCap THEN Append(q, m) ELSE q

Publish(p) ==
    LET k == kind[p]
        h == mine[p]
        m == count[k] + 1
    IN  /\ p \in Publishers /\ pc[p] = "do"
        /\ count' = [count EXCEPT ![k] = m]
        /\ log' = IF k = "dest"
                  THEN [log EXCEPT ![h] = LastOf(Append(@, m), MaxDestLog)] ELSE log
        /\ chan' = [chan EXCEPT ![k] = [s \in Streams |->
                      IF s \in subs[h][k] THEN Offer(@[s], m) ELSE @[s]]]
        /\ full' = [full EXCEPT ![k] = [s \in Streams |->
                      @[s] \/ (s \in subs[h][k] /\ Len(chan[k][s]) = ChanCap)]]
        /\ Goto(p, "idle", "sim")
        /\ mine' = [mine EXCEPT ![p] = 0]
        /\ UNCHANGED <<active, hub, made, subs, got>>

-----------------------------------------------------------------------------
(* playgroundStream *)

\* streamLimiter.acquire; a stream over the limit is refused.
Acquire(s) ==
    /\ s \in Streams /\ pc[s] = "idle"
    /\ active[IpOf[s]] < MaxStreams
    /\ active' = [active EXCEPT ![IpOf[s]] = @ + 1]
    /\ Goto(s, "session", "sim")
    /\ UNCHANGED <<hub, made, mine, box>>

SessionFound(s) ==
    /\ pc[s] = "session"
    /\ Goto(s, "get", "sim")
    /\ UNCHANGED <<active, hub, made, mine, box>>

\* mutant: the limiter is not released on this path
SessionMissingLeaks(s) ==
    /\ pc[s] = "session"
    /\ Goto(s, "idle", "sim")
    /\ UNCHANGED <<active, hub, made, mine, box>>

SessionMissing(s) ==
    /\ pc[s] = "session"
    /\ Goto(s, "release", "sim")
    /\ UNCHANGED <<active, hub, made, mine, box>>

\* mutant: the log is shown newest first
SubscribeReversed(s) ==
    LET k == kind[s]
        h == mine[s]
        old == IF k = "dest" THEN Reverse(log[h]) ELSE <<>>
    IN  /\ s \in Streams /\ pc[s] = "do"
        /\ subs' = [subs EXCEPT ![h][k] = @ \cup {s}]
        /\ chan' = [chan EXCEPT ![k][s] =
                      IF Len(old) > ChanCap THEN SubSeq(old, 1, ChanCap) ELSE old]
        /\ full' = [full EXCEPT ![k][s] = Len(old) > ChanCap]
        /\ got' = [got EXCEPT ![k][s] = <<>>]
        /\ IF k = "sim" THEN Goto(s, "get", "dest") ELSE Goto(s, "serve", "dest")
        /\ UNCHANGED <<active, hub, made, mine, log, count>>

\* Hub.subscribe: a dest channel is filled from the log while it has room.
Subscribe(s) ==
    LET k == kind[s]
        h == mine[s]
        old == IF k = "dest" THEN log[h] ELSE <<>>
    IN  /\ s \in Streams /\ pc[s] = "do"
        /\ subs' = [subs EXCEPT ![h][k] = @ \cup {s}]
        /\ chan' = [chan EXCEPT ![k][s] =
                      IF Len(old) > ChanCap THEN SubSeq(old, 1, ChanCap) ELSE old]
        /\ full' = [full EXCEPT ![k][s] = Len(old) > ChanCap]
        /\ got' = [got EXCEPT ![k][s] = <<>>]
        /\ IF k = "sim" THEN Goto(s, "get", "dest") ELSE Goto(s, "serve", "dest")
        /\ UNCHANGED <<active, hub, made, mine, log, count>>

Receive(s, k) ==
    /\ pc[s] = "serve"
    /\ chan[k][s] # <<>>
    /\ got' = [got EXCEPT ![k][s] = Append(@, Head(chan[k][s]))]
    /\ chan' = [chan EXCEPT ![k][s] = Tail(@)]
    /\ UNCHANGED <<active, hub, made, place, subs, log, full, count>>

\* The client is gone; the deferred calls run, the last one first.
Disconnect(s) ==
    /\ pc[s] = "serve"
    /\ Goto(s, "leave", "dest")
    /\ UNCHANGED <<active, hub, made, mine, box>>

Unsubscribe(s) ==
    /\ pc[s] = "leave"
    /\ subs' = [subs EXCEPT ![mine[s]][kind[s]] = @ \ {s}]
    /\ chan' = [chan EXCEPT ![kind[s]][s] = <<>>]
    /\ got' = [got EXCEPT ![kind[s]][s] = <<>>]
    /\ full' = [full EXCEPT ![kind[s]][s] = FALSE]
    /\ IF kind[s] = "dest" THEN Goto(s, "leave", "sim") ELSE Goto(s, "release", "sim")
    /\ UNCHANGED <<active, hub, made, mine, log, count>>

Release(s) ==
    /\ pc[s] = "release"
    /\ active' = [active EXCEPT ![IpOf[s]] = @ - 1]
    /\ Goto(s, "idle", "sim")
    /\ mine' = [mine EXCEPT ![s] = 0]
    /\ UNCHANGED <<hub, made, box>>

Next ==
    \/ \E g \in Goroutines : Lookup(g)
    \/ \E g \in Goroutines : LookupAgain(g)
    \/ \E p \in Publishers, k \in Kinds : StartPublish(p, k)
    \/ \E p \in Publishers : Publish(p)
    \/ \E s \in Streams : Acquire(s)
    \/ \E s \in Streams : SessionFound(s)
    \/ \E s \in Streams : SessionMissing(s)
    \/ \E s \in Streams : Subscribe(s)
    \/ \E s \in Streams, k \in Kinds : Receive(s, k)
    \/ \E s \in Streams : Disconnect(s)
    \/ \E s \in Streams : Unsubscribe(s)
    \/ \E s \in Streams : Release(s)

Spec == Init /\ [][Next]_vars

-----------------------------------------------------------------------------
Delivered(k, s) == got[k][s] \o chan[k][s]

Subscribed(k, s) ==
    pc[s] = "serve" \/ (k = "sim" /\ pc[s] \in {"get", "make", "do"} /\ kind[s] = "dest")

\* A stream shows messages in the order of their publication and none twice,
\* the log and the live messages together (hub.go:64-129).
InOrder ==
    \A k \in Kinds, s \in Streams :
        LET q == Delivered(k, s)
        IN  \A i, j \in 1 .. Len(q) : i < j => q[i] < q[j]

\* A subscribed stream misses a message only when its channel was full: else
\* it has every message since some point up to the last one published, and
\* of dest at least those the log keeps (hub.go:36-54, 64-129).
MissedOnlyWhenFull ==
    \A k \in Kinds, s \in Streams : Subscribed(k, s) /\ ~ full[k][s] =>
        LET q == Delivered(k, s)
            n == count[k]
        IN  /\ \A i \in 1 .. Len(q) : q[i] = n - Len(q) + i
            /\ k = "dest" => Len(q) >= MaxDestLog \/ Len(q) = n

\* A stream that has ended leaves no subscription, and the limiter counts the
\* streams of an address that run, so that no slot is lost whichever way a
\* stream ends (playground.go:183-212, ratelimit.go:62-79).
NothingLeaks ==
    /\ \A h \in Hubs, k \in Kinds : \A s \in subs[h][k] : pc[s] \notin {"idle", "session"}
    /\ \A i \in IPs : active[i] = Cardinality({s \in Streams : IpOf[s] = i /\ pc[s] # "idle"})

=============================================================================
