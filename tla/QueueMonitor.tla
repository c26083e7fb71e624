----------------------------- MODULE QueueMonitor -----------------------------
(***************************************************************************)
(* executor/queue_monitor.go: orders watched for the wall that protects    *)
(* them.  Four goroutines share one mutex: the order book callback that    *)
(* detects vanished walls, the cancel loop it feeds through a bounded      *)
(* channel, the stale loop that expires old orders, and the client that    *)
(* adds and removes orders.                                                *)
(***************************************************************************)
EXTENDS Naturals, Sequences

CONSTANTS
    Orders,     \* exchange order ids, each monitored at most once
    Capacity,   \* capacity of cancelCh
    Nobody      \* no order

ASSUME CapacityAssumption == Capacity \in Nat \ {0}
ASSUME NobodyAssumption == Nobody \notin Orders

VARIABLES
    mu,         \* who holds the mutex, or "free"
    tracked,    \* keys of qm.orders
    known,      \* orders ever passed to MonitorOrder
    aged,       \* orders older than MaxOrderAge
    cancelCh,   \* the channel
    todo,       \* OnOrderbookUpdate: orders found without wall, not yet sent
    loop,       \* cancel loop: "receive", "lookup" or "cancel"
    received,   \* cancel loop: its order
    sweep,      \* stale loop: "idle", "lock", "scan" or "cancel"
    expired,    \* stale loop: orders it will find too old
    dropped,    \* stale loop: its order
    requests    \* cancel requests sent to the exchange, per order

vars == <<mu, tracked, known, aged, cancelCh, todo, loop, received, sweep,
          expired, dropped, requests>>
clients == <<known, aged>>
looping == <<loop, received>>
sweeping == <<sweep, expired, dropped>>

TypeOK ==
    /\ mu \in {"free", "update", "sweep"}
    /\ tracked \subseteq known /\ known \subseteq Orders /\ aged \subseteq known
    /\ cancelCh \in Seq(Orders) /\ Len(cancelCh) <= Capacity
    /\ todo \subseteq Orders
    /\ loop \in {"receive", "lookup", "cancel"}
    /\ received \in Orders \cup {Nobody}
    /\ sweep \in {"idle", "lock", "scan", "cancel"}
    /\ expired \subseteq aged
    /\ dropped \in Orders \cup {Nobody}
    /\ requests \in [Orders -> Nat]

Init ==
    /\ mu = "free"
    /\ tracked = {} /\ known = {} /\ aged = {}
    /\ cancelCh = <<>>
    /\ todo = {}
    /\ loop = "receive" /\ received = Nobody
    /\ sweep = "idle" /\ expired = {} /\ dropped = Nobody
    /\ requests = [o \in Orders |-> 0]

Request(o) == requests' = [requests EXCEPT ![o] = @ + 1]
-----------------------------------------------------------------------------
MonitorOrder ==
    /\ mu = "free"
    /\ \E o \in Orders \ known :
        /\ tracked' = tracked \cup {o}
        /\ known' = known \cup {o}
    /\ UNCHANGED <<mu, aged, cancelCh, todo, looping, sweeping, requests>>

RemoveOrder ==
    /\ mu = "free"
    /\ \E o \in tracked : tracked' = tracked \ {o}
    /\ UNCHANGED <<mu, clients, cancelCh, todo, looping, sweeping, requests>>

\* An order passes MaxOrderAge.
Age ==
    /\ \E o \in known \ aged : aged' = aged \cup {o}
    /\ UNCHANGED <<mu, tracked, known, cancelCh, todo, looping, sweeping, requests>>

\* OnOrderbookUpdate takes the mutex and finds walls gone ...
Detect ==
    /\ mu = "free"
    /\ \E S \in SUBSET tracked : S # {} /\ todo' = S
    /\ mu' = "update"
    /\ UNCHANGED <<tracked, clients, cancelCh, looping, sweeping, requests>>

\* Mutant: the capacity is checked one too late.
SendLate ==
    /\ mu = "update" /\ Len(cancelCh) <= Capacity
    /\ \E o \in todo :
        /\ cancelCh' = Append(cancelCh, o)
        /\ todo' = todo \ {o}
    /\ UNCHANGED <<mu, tracked, clients, looping, sweeping, requests>>

\* ... and sends each order while it holds the mutex, waiting for room
Send ==
    /\ mu = "update" /\ Len(cancelCh) < Capacity
    /\ \E o \in todo :
        /\ cancelCh' = Append(cancelCh, o)
        /\ todo' = todo \ {o}
    /\ UNCHANGED <<mu, tracked, clients, looping, sweeping, requests>>

EndUpdate ==
    /\ mu = "update" /\ todo = {}
    /\ mu' = "free"
    /\ UNCHANGED <<tracked, clients, cancelCh, todo, looping, sweeping, requests>>
-----------------------------------------------------------------------------
(***************************************************************************)
(* The cancel loop                                                         *)
(***************************************************************************)
Receive ==
    /\ loop = "receive" /\ cancelCh # <<>>
    /\ received' = Head(cancelCh)
    /\ cancelCh' = Tail(cancelCh)
    /\ loop' = "lookup"
    /\ UNCHANGED <<mu, tracked, clients, todo, sweeping, requests>>

\* Mutant: the order is looked up but stays tracked.
LookupKeeps ==
    /\ loop = "lookup" /\ mu = "free"
    /\ loop' = IF received \in tracked THEN "cancel" ELSE "receive"
    /\ UNCHANGED <<mu, tracked, clients, cancelCh, todo, received, sweeping, requests>>

Lookup ==
    /\ loop = "lookup" /\ mu = "free"
    /\ loop' = IF received \in tracked THEN "cancel" ELSE "receive"
    /\ tracked' = tracked \ {received}
    /\ UNCHANGED <<mu, clients, cancelCh, todo, received, sweeping, requests>>

Cancel ==
    /\ loop = "cancel"
    /\ Request(received)
    /\ loop' = "receive"
    /\ UNCHANGED <<mu, tracked, clients, cancelCh, todo, received, sweeping>>
-----------------------------------------------------------------------------
(***************************************************************************)
(* The stale loop: it reads the clock before it takes the mutex, and gives *)
(* the mutex up around every cancel.                                       *)
(***************************************************************************)
Tick ==
    /\ sweep = "idle"
    /\ sweep' = "lock"
    /\ expired' = aged
    /\ UNCHANGED <<mu, tracked, clients, cancelCh, todo, looping, dropped, requests>>

Lock ==
    /\ sweep = "lock" /\ mu = "free"
    /\ mu' = "sweep"
    /\ sweep' = "scan"
    /\ UNCHANGED <<tracked, clients, cancelCh, todo, looping, expired, dropped, requests>>

\* Mutant: the scan ends without looking at the orders.
ScanNothing ==
    /\ sweep = "scan"
    /\ mu' = "free" /\ sweep' = "idle"
    /\ UNCHANGED <<tracked, clients, cancelCh, todo, looping, expired, dropped, requests>>

Scan ==
    /\ sweep = "scan"
    /\ mu' = "free"
    /\ \/ \E o \in expired \cap tracked :
            /\ tracked' = tracked \ {o}
            /\ dropped' = o
            /\ sweep' = "cancel"
       \/ /\ expired \cap tracked = {}
          /\ sweep' = "idle"
          /\ UNCHANGED <<tracked, dropped>>
    /\ UNCHANGED <<clients, cancelCh, todo, looping, expired, requests>>

CancelStale ==
    /\ sweep = "cancel"
    /\ Request(dropped)
    /\ sweep' = "lock"
    /\ UNCHANGED <<mu, tracked, clients, cancelCh, todo, looping, expired, dropped>>
-----------------------------------------------------------------------------
Update == Send \/ EndUpdate
CancelLoop == Receive \/ Cancel
Next ==
    \/ MonitorOrder \/ RemoveOrder \/ Age
    \/ Detect \/ Update
    \/ CancelLoop \/ Lookup
    \/ Tick \/ Lock \/ Scan \/ CancelStale

Spec == Init /\ [][Next]_vars

\* Goroutines run, tickers tick, cancels return (HTTP timeout), and a goroutine
\* that waits for the mutex gets it (sync.Mutex hands it to a starving waiter).
Fairness ==
    /\ WF_vars(Update)
    /\ WF_vars(CancelLoop) /\ SF_vars(Lookup)
    /\ WF_vars(Tick) /\ SF_vars(Lock) /\ WF_vars(Scan) /\ WF_vars(CancelStale)

FairSpec == Spec /\ Fairness
-----------------------------------------------------------------------------
\* The callback waits for room in the channel, and the loop that would make
\* room waits for the mutex of the callback.
Jammed == mu = "update" /\ todo # {} /\ Len(cancelCh) = Capacity /\ loop = "lookup"

\* However often an order is detected, and whichever of the two loops finds it
\* first, one cancel request at most goes to the exchange for it: both take it
\* out of the map under the mutex before they send (queue_monitor.go:66, 101).
RequestedOnce == \A o \in Orders : requests[o] <= 1

\* An order over MaxOrderAge leaves the map, unless the monitor jams: whatever
\* the order book callback and the clients do, nothing else can stop the sweep.
StaleLeaves == \A o \in Orders : (o \in tracked /\ o \in aged) ~> (o \notin tracked \/ Jammed)

\* A detected order leaves the map, unless the monitor jams.
DetectedLeaves == \A o \in Orders : o \in todo ~> (o \notin tracked \/ Jammed)
=============================================================================
