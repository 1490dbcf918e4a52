---------------------------- MODULE AlertPromise ----------------------------
(***************************************************************************)
(* The evaluators with a memory of what each rule has met since it last    *)
(* sent a message, and the promise of Alarm they keep.  The memory is read *)
(* by no action of the code; it says what "the metric recovered" means for *)
(* a program that reads rows and metrics at different times: a limit and a *)
(* value that both held at some time since the message, not necessarily    *)
(* the same time, and that do not breach.                                  *)
(***************************************************************************)
EXTENDS AlertEvaluator

VARIABLES
    limits,     \* history: limits each rule had since its last message
    values,     \* history: values its metric had since
    beat,       \* history: parity of the number of messages of each rule
    late        \* history: rules that sent a message after they were deleted

memory == <<limits, values, beat, late>>
hvars == <<vars, memory>>

\* The limit a row sets: none when it is inactive.
Limit(x) == IF x.active THEN x.threshold ELSE Nobody

Quiet(r, t, v) == t = Nobody \/ (v # NoSamples /\ ~ isBreached(r, t, v))

Calm == {r \in Rules : \E t \in limits[r], v \in values[r] : Quiet(r, t, v)}

Shown == [r \in Rules |-> IF r \in present THEN row[r].firing ELSE Nobody]

\* The rule whose message is sent in this step.
Sends(r) ==
    \E w \in Workers :
        ev[w].pc = "send" /\ ev'[w].pc \in {"clear", "failed"} /\ ev[w].cur = r

\* What is remembered of rule r, now that it meets the values in new.
Met(r, old, new) ==
    IF lastSent'[r] = Nobody THEN {}
    ELSE IF lastSent'[r] = lastSent[r] THEN old \cup new ELSE new

Remember ==
    /\ limits' = [r \in Rules |->
         Met(r, limits[r], {Limit(row'[s]) : s \in {r} \cap present'})]
    /\ values' = [r \in Rules |-> Met(r, values[r], {metric'[r]})]
    /\ beat' = [r \in Rules |-> IF Sends(r) THEN 1 - beat[r] ELSE beat[r]]
    /\ late' = late \cup {r \in Rules \ present : Sends(r)}

HInit ==
    /\ Init
    /\ limits = [r \in Rules |-> {}]
    /\ values = [r \in Rules |-> {}]
    /\ beat = [r \in Rules |-> 0]
    /\ late = {}

HSpec == HInit /\ [][Next /\ Remember]_hvars

A == INSTANCE Alarm WITH
    known <- drawn, there <- present, told <- lastSent, latch <- Shown,
    record <- notifications, calm <- Calm

\* However the passes, the rule handlers, the crashes and the failed
\* statements fall, the owner of a rule sees what Alarm promises: no second
\* message until the rule really was inactive or back to normal since the
\* first one, or the worker was interrupted before the latch, an error of Send
\* for a delivered message included; a latch and a record only of what was
\* told; from a deleted rule at most the message that was under way
\* (evaluator.go:79-219).
ImplementsAlarm == A!Spec

=============================================================================
