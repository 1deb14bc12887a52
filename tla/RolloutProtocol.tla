--------------------------- MODULE RolloutProtocol ---------------------------
(***************************************************************************)
(* What the status of a TelemetryRouter promises about rollouts, whatever  *)
(* the operators, the caches, the pods and the users do: a configuration   *)
(* is on trial for a full window, that window is never started again, and  *)
(* only a trial whose window is over ends in a verdict.                    *)
(***************************************************************************)
EXTENDS Integers

CONSTANTS Configs, None, Window

VARIABLES
    trial,      \* the configuration on trial, None without one
    good,       \* the last configuration promoted
    bad,        \* the last configuration flagged
    left        \* ticks until the window of the trial closes

vars == <<trial, good, bad, left>>

Init ==
    /\ trial = None
    /\ good = None
    /\ bad = None
    /\ left = 0

\* A trial starts with its whole window, and never for a configuration that
\* is promoted, flagged or on trial already.
Begin(c) ==
    /\ c \notin {trial, good, bad}
    /\ trial' = c
    /\ left' = Window
    /\ UNCHANGED <<good, bad>>

Elapse ==
    /\ left > 0
    /\ left' = left - 1
    /\ UNCHANGED <<trial, good, bad>>

Promote ==
    /\ trial # None /\ left = 0
    /\ good' = trial
    /\ trial' = None
    /\ UNCHANGED <<bad, left>>

Reject ==
    /\ trial # None /\ left = 0
    /\ bad' = trial
    /\ trial' = None
    /\ UNCHANGED <<good, left>>

\* The trial is given up without a verdict (an edit, an error), or, when there
\* is none, what is left of its window is forgotten.
Abandon ==
    /\ trial' = None
    /\ left' \in {left, 0}
    /\ UNCHANGED <<good, bad>>

\* The router is deleted.
Reset ==
    /\ trial' = None
    /\ good' = None
    /\ bad' = None
    /\ left' = 0

Next ==
    \/ \E c \in Configs : Begin(c)
    \/ Elapse \/ Promote \/ Reject \/ Abandon \/ Reset

Spec == Init /\ [][Next]_vars

-----------------------------------------------------------------------------
TypeOK ==
    /\ trial \in Configs \cup {None}
    /\ good \in Configs \cup {None}
    /\ bad \in Configs \cup {None}
    /\ left \in 0..Window

\* No configuration is promoted and flagged at once, and none is on trial
\* that has a verdict (lastKnownGoodHash and badConfigHash of types.go).
Verdicts ==
    /\ good # None => good # bad
    /\ trial # None => trial \notin {good, bad}
=============================================================================
