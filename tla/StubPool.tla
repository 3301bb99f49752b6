------------------------------- MODULE StubPool -------------------------------
(***************************************************************************)
(* What the workers of a parallel plan-detail walk promise together: every *)
(* stub is taken by one worker at most, and a walk that returns without an *)
(* error has settled all of them, unless a cap stopped it.                 *)
(***************************************************************************)
CONSTANT Stubs

VARIABLES
    todo,     \* stubs nobody has taken
    doing,    \* stubs a worker is at
    settled,  \* stubs whose sessions have ended well
    capped,   \* a cap was reported
    outcome   \* of the walk: "none" before and during, "ok", "error"

vars == <<todo, doing, settled, capped, outcome>>

Closed ==
    /\ todo = {}
    /\ doing = {}
    /\ settled = {}
    /\ capped = FALSE

Init == Closed /\ outcome = "none"

Open(S) ==
    /\ Closed
    /\ todo' = S
    /\ outcome' = "none"
    /\ UNCHANGED <<doing, settled, capped>>

Take(s) ==
    /\ s \in todo
    /\ todo' = todo \ {s}
    /\ doing' = doing \union {s}
    /\ UNCHANGED <<settled, capped, outcome>>

Settle(s) ==
    /\ s \in doing
    /\ doing' = doing \ {s}
    /\ settled' = settled \union {s}
    /\ UNCHANGED <<todo, capped, outcome>>

Cap ==
    /\ capped' = TRUE
    /\ UNCHANGED <<todo, doing, settled, outcome>>

\* A stub whose worker failed is still being worked on: nobody settles it.
CloseWell ==
    /\ doing = {}
    /\ todo = {} \/ capped
    /\ outcome' = "ok"
    /\ Closed'

CloseBadly == outcome' = "error" /\ Closed'

Next ==
    \/ \E S \in SUBSET Stubs : Open(S)
    \/ \E s \in Stubs : Take(s) \/ Settle(s)
    \/ Cap \/ CloseWell \/ CloseBadly

Spec == Init /\ [][Next]_vars
=============================================================================
