----------------------------- MODULE PendingSlot -----------------------------
(***************************************************************************)
(* What Service.pending promises for one symbol: entries are registered    *)
(* one at a time, each under a name never used before; a registered entry  *)
(* is active or being cancelled; an entry that leaves the map is gone for  *)
(* good, and no entry is ever replaced by another one.                     *)
(***************************************************************************)
EXTENDS Naturals

VARIABLES
    slot,   \* the registered entry, or 0
    last,   \* the entry registered last
    mode    \* "none", "active" or "cancelling"

vars == <<slot, last, mode>>

Init == slot = 0 /\ last = 0 /\ mode = "none"

Register ==
    /\ slot = 0
    /\ last' = last + 1
    /\ slot' = last'
    /\ mode' = "active"

\* begin or release of a cancel
Mark ==
    /\ slot # 0
    /\ mode' \in {"active", "cancelling"}
    /\ UNCHANGED <<slot, last>>

Leave ==
    /\ slot # 0
    /\ slot' = 0
    /\ mode' = "none"
    /\ UNCHANGED last

Next == Register \/ Mark \/ Leave

Spec == Init /\ [][Next]_vars
=============================================================================
