------------------------------- MODULE Custody -------------------------------
(***************************************************************************)
(* What the pipeline promises about destinations that must not lose        *)
(* anything: an event it has acknowledged is stored in each of them in the *)
(* end, perhaps more than once, unless a crash comes before the event is   *)
(* on disk.                                                                *)
(***************************************************************************)
CONSTANTS
    Events,
    Stores,         \* the destinations that must not lose anything
    Wanted          \* Wanted[e]: the destinations event e is meant for

VARIABLES
    acked,          \* events whose sender has been told that they are taken
    owed,           \* owed[s]: taken, and neither on disk nor stored
    kept,           \* kept[s]: on disk
    stored          \* stored[s]: what destination s has

vars == <<acked, owed, kept, stored>>

\* An event is taken; its sender may not hear of it and send it again.
Accept(e) ==
    /\ owed' = [s \in Stores |-> IF s \in Wanted[e] THEN owed[s] \cup {e}
                                                   ELSE owed[s]]
    /\ acked' \in {acked, acked \cup {e}}
    /\ UNCHANGED <<kept, stored>>

\* Other copies of the events in B may be left: all but C go.
Keep(s, B) ==
    /\ B \subseteq owed[s]
    /\ kept' = [kept EXCEPT ![s] = @ \cup B]
    /\ \E C \in SUBSET B : owed' = [owed EXCEPT ![s] = @ \ C]
    /\ UNCHANGED <<acked, stored>>

Store(s, B) ==
    /\ B \subseteq owed[s] \cup kept[s]
    /\ stored' = [stored EXCEPT ![s] = @ \cup B]
    /\ \E C \in SUBSET B : owed' = [owed EXCEPT ![s] = @ \ C]
    /\ \E C \in SUBSET B : kept' = [kept EXCEPT ![s] = @ \ C]
    /\ UNCHANGED acked

Crash ==
    /\ owed' = [s \in Stores |-> {}]
    /\ UNCHANGED <<acked, kept, stored>>

-----------------------------------------------------------------------------
Init ==
    /\ acked = {}
    /\ owed = [s \in Stores |-> {}]
    /\ kept = [s \in Stores |-> {}]
    /\ stored = [s \in Stores |-> {}]

Next == \/ \E e \in Events : Accept(e)
        \/ \E s \in Stores, B \in SUBSET Events : Keep(s, B) \/ Store(s, B)
        \/ Crash

Safety == Init /\ [][Next]_vars

\* What is owed or on disk is stored in the end, unless it is lost: and only a
\* crash loses anything, and nothing that is on disk.
Arrival ==
    \A s \in Stores, e \in Events :
        e \in owed[s] \cup kept[s] ~>
            e \in stored[s] \/ e \notin owed[s] \cup kept[s]

Spec == Safety /\ Arrival
=============================================================================
