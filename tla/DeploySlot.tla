----------------------------- MODULE DeploySlot -----------------------------
(***************************************************************************)
(* What the deployment promises: models are promoted one after the other,  *)
(* the engine serves one promoted model, never goes back to an older one   *)
(* while it runs, and does not stay behind for ever.                       *)
(***************************************************************************)
EXTENDS Integers

CONSTANT MaxSessions

VARIABLES
    promoted,   \* the latest promoted model; 0 is the one of the image
    served      \* the model the engine serves; -1 while it starts

vars == <<promoted, served>>

Init == promoted = 0 /\ served = -1

Promote ==
    /\ promoted < MaxSessions
    /\ promoted' \in promoted + 1 .. MaxSessions
    /\ UNCHANGED served

\* A load may end after the next promotion, and still swaps in what it has read.
Serve ==
    /\ served' \in served + 1 .. promoted
    /\ UNCHANGED promoted

Restart == served' = -1 /\ UNCHANGED promoted

Next == Promote \/ Serve \/ Restart

Spec == Init /\ [][Next]_vars /\ WF_vars(Serve)
=============================================================================
