------------------------------- MODULE Alarm -------------------------------
(***************************************************************************)
(* What an alert rule promises its owner, with no workers, passes or copies*)
(* of rows: README "a rule fires once per breach, then again only after the*)
(* metric recovers", with the exceptions the code makes.                   *)
(*                                                                         *)
(* A rule says nothing twice: it speaks when it has something else to say  *)
(* than it said last, or when it may forget what it said.  It may forget   *)
(* only on evidence that it was inactive or back to normal since it spoke, *)
(* or when it was interrupted before it showed the message as latched.     *)
(***************************************************************************)
EXTENDS Integers

CONSTANTS Rules, Thresholds, Nobody

VARIABLES
    known,      \* rules that were created
    there,      \* rules that were not deleted
    told,       \* the threshold each rule last spoke about, until it forgets
    latch,      \* the firing threshold each rule shows
    record,     \* notifications on record: (rule, threshold)
    beat,       \* parity of the number of messages of each rule
    late,       \* rules that spoke after they were deleted
    calm        \* rules inactive or back to normal at some time since told

vars == <<known, there, told, latch, record, beat, late, calm>>

Init ==
    /\ known = {} /\ there = {} /\ record = {} /\ late = {} /\ calm = {}
    /\ told = [r \in Rules |-> Nobody]
    /\ latch = [r \in Rules |-> Nobody]
    /\ beat = [r \in Rules |-> 0]

\* Ids are not used again.
Create(r) ==
    /\ r \notin known
    /\ known' = known \cup {r} /\ there' = there \cup {r}
    /\ UNCHANGED <<told, latch, record, beat, late, calm>>

Delete(r) ==
    /\ r \in there
    /\ there' = there \ {r}
    /\ latch' = [latch EXCEPT ![r] = Nobody]
    /\ record' = {x \in record : x[1] # r}
    /\ UNCHANGED <<known, told, beat, late, calm>>

\* A deleted rule has at most the message left that was under way.
Tell(r, t) ==
    /\ r \in known
    /\ r \notin there => r \notin late
    /\ told[r] # t
    /\ told' = [told EXCEPT ![r] = t]
    /\ beat' = [beat EXCEPT ![r] = 1 - @]
    /\ late' = late \cup ({r} \ there)
    /\ calm' \in {calm \ {r}, calm \cup {r}}
    /\ UNCHANGED <<known, there, latch, record>>

Record(r) ==
    /\ r \in there /\ told[r] # Nobody
    /\ record' = record \cup {<<r, told[r]>>}
    /\ UNCHANGED <<known, there, told, latch, beat, late, calm>>

Latch(r) ==
    /\ r \in there /\ told[r] # Nobody
    /\ latch' = [latch EXCEPT ![r] = told[r]]
    /\ UNCHANGED <<known, there, told, record, beat, late, calm>>

\* The latch goes too, unless its UPDATE fails or the rule is deleted.
Recover(r) ==
    /\ told[r] # Nobody => r \in calm
    /\ told' = [told EXCEPT ![r] = Nobody]
    /\ calm' = calm \ {r}
    /\ latch' \in {latch, [latch EXCEPT ![r] = Nobody]}
    /\ UNCHANGED <<known, there, record, beat, late>>

\* Between a message and its latch the sender dies, takes the message for
\* undelivered, or fails to write.
Interrupt(r) ==
    /\ told[r] \notin {Nobody, latch[r]}
    /\ told' = [told EXCEPT ![r] = Nobody]
    /\ calm' = calm \ {r}
    /\ UNCHANGED <<known, there, latch, record, beat, late>>

\* Metrics move and rules are edited.
CalmDown(r) ==
    /\ told[r] # Nobody
    /\ calm' = calm \cup {r}
    /\ UNCHANGED <<known, there, told, latch, record, beat, late>>

Next ==
    \E r \in Rules :
        \/ Create(r) \/ Delete(r)
        \/ \E t \in Thresholds : Tell(r, t)
        \/ Record(r) \/ Latch(r)
        \/ Recover(r) \/ Interrupt(r) \/ CalmDown(r)

Spec == Init /\ [][Next]_vars

=============================================================================
