------------------------------- MODULE Inbox --------------------------------
(***************************************************************************)
(* What Tuma promises about an event, without workflows, workers, requests *)
(* or tables: it is stored at most once per key, it becomes an issue only  *)
(* after an attempt has failed, the issue is resolved only after the       *)
(* destination has accepted the event, and retention ends it for good.     *)
(***************************************************************************)
CONSTANTS EventIds, Keys, KeyOf

VARIABLES
    phase,      \* absent, stored, open, resolved or purged, by event
    accepted,   \* events the destination has accepted
    failed      \* events with a failed attempt

inboxVars == <<phase, accepted, failed>>

Phases == {"absent", "stored", "open", "resolved", "purged"}

Present(e) == phase[e] \in {"stored", "open", "resolved"}

Init ==
    /\ phase = [e \in EventIds |-> "absent"]
    /\ accepted = {}
    /\ failed = {}

Receive(e) ==
    /\ phase[e] = "absent"
    /\ \A f \in EventIds : KeyOf[f] = KeyOf[e] => ~ Present(f)
    /\ phase' = [phase EXCEPT ![e] = "stored"]
    /\ UNCHANGED <<accepted, failed>>

\* An attempt fails, is accepted, or is accepted and believed to have failed.
Attempt(e) ==
    /\ phase[e] # "absent"
    /\ accepted' \in {accepted, accepted \cup {e}}
    /\ failed' \in {failed, failed \cup {e}}
    /\ UNCHANGED phase

Report(e) ==
    /\ Present(e)
    /\ e \in failed
    /\ phase' = [phase EXCEPT ![e] = "open"]
    /\ UNCHANGED <<accepted, failed>>

Resolve(e) ==
    /\ phase[e] = "open"
    /\ e \in accepted
    /\ phase' = [phase EXCEPT ![e] = "resolved"]
    /\ UNCHANGED <<accepted, failed>>

Purge(S) ==
    /\ \A e \in S : Present(e)
    /\ phase' = [e \in EventIds |-> IF e \in S THEN "purged" ELSE phase[e]]
    /\ UNCHANGED <<accepted, failed>>

Next ==
    \/ \E e \in EventIds : Receive(e) \/ Attempt(e) \/ Report(e) \/ Resolve(e)
    \/ \E S \in SUBSET EventIds : Purge(S)

Spec == Init /\ [][Next]_inboxVars

=============================================================================
