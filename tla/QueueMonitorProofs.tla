-------------------------- MODULE QueueMonitorProofs --------------------------
(***************************************************************************)
(* Proofs about QueueMonitor, for any set of orders and any capacity.      *)
(***************************************************************************)
EXTENDS QueueMonitor, TLAPS

\* What makes RequestedOnce inductive: an order that is still watched has not
\* been requested, an order on its way to the exchange is neither watched nor
\* requested yet, and the two loops never carry the same one.
RequestedIsUntracked ==
    /\ \A o \in Orders \ known : requests[o] = 0
    /\ \A o \in tracked : requests[o] = 0
    /\ loop # "receive" => received \in Orders
    /\ loop = "cancel" => received \notin tracked /\ requests[received] = 0
    /\ sweep = "cancel" => dropped \notin tracked /\ requests[dropped] = 0
    /\ loop = "cancel" => received \in known
    /\ sweep = "cancel" => dropped \in known
    /\ loop = "cancel" /\ sweep = "cancel" => received # dropped

Inv == TypeOK /\ RequestedIsUntracked /\ RequestedOnce

LEMMA InitInv == Init => Inv
  BY CapacityAssumption DEF Init, Inv, TypeOK, RequestedIsUntracked, RequestedOnce

\* The channel stays a sequence of orders within its capacity.
LEMMA ChannelStep ==
    ASSUME TypeOK, Next
    PROVE  cancelCh' \in Seq(Orders) /\ Len(cancelCh') <= Capacity
<1> USE CapacityAssumption DEF TypeOK
<1>1. CASE Send
  <2>1. PICK o \in todo : cancelCh' = Append(cancelCh, o)
    BY <1>1 DEF Send
  <2>2. o \in Orders /\ Len(cancelCh) < Capacity
    BY <1>1, <2>1 DEF Send
  <2> QED
    BY <2>1, <2>2
<1>2. CASE Receive
  BY <1>2 DEF Receive
<1>3. CASE ~Send /\ ~Receive
  BY <1>3 DEF Next, Update, CancelLoop, MonitorOrder, RemoveOrder, Age, Detect, EndUpdate,
     Lookup, Cancel, Tick, Lock, Scan, CancelStale
<1> QED
  BY <1>1, <1>2, <1>3

LEMMA TypeStep == ASSUME TypeOK, [Next]_vars PROVE TypeOK'
<1>1. CASE Next
  <2>1. cancelCh' \in Seq(Orders) /\ Len(cancelCh') <= Capacity
    BY <1>1, ChannelStep
  <2>2. CASE MonitorOrder \/ RemoveOrder \/ Age \/ Detect \/ Update
    BY <2>1, <2>2 DEF TypeOK, MonitorOrder, RemoveOrder, Age, Detect, Update, Send,
       EndUpdate, clients, looping, sweeping
  <2>3. CASE Receive
    <3>1. Head(cancelCh) \in Orders
      BY <2>3 DEF TypeOK, Receive
    <3> QED
      BY <2>1, <2>3, <3>1 DEF TypeOK, Receive, clients, sweeping
  <2>4. CASE Lookup \/ Tick \/ Lock \/ Scan
    BY <2>1, <2>4 DEF TypeOK, Lookup, Tick, Lock, Scan, clients, looping, sweeping
  <2>5. CASE Cancel \/ CancelStale
    BY <2>1, <2>5 DEF TypeOK, Cancel, CancelStale, Request, clients, looping, sweeping
  <2> QED
    BY <1>1, <2>2, <2>3, <2>4, <2>5 DEF Next, CancelLoop
<1>2. CASE UNCHANGED vars
  BY <1>2 DEF TypeOK, vars, clients, looping, sweeping
<1> QED
  BY <1>1, <1>2

LEMMA RequestStep ==
    ASSUME Inv, [Next]_vars
    PROVE  RequestedIsUntracked' /\ RequestedOnce'
<1> USE DEF Inv, TypeOK, RequestedIsUntracked, RequestedOnce
<1>1. CASE MonitorOrder \/ RemoveOrder \/ Age
  BY <1>1 DEF MonitorOrder, RemoveOrder, Age, clients, looping, sweeping
<1>2. CASE Detect \/ Update
  BY <1>2 DEF Detect, Update, Send, EndUpdate, clients, looping, sweeping
<1>3. CASE Receive
  <2>1. Head(cancelCh) \in Orders
    BY <1>3 DEF Receive
  <2> QED
    BY <1>3, <2>1 DEF Receive, clients, sweeping
<1>4. CASE Lookup
  BY <1>4 DEF Lookup, clients, looping, sweeping
<1>5. CASE Cancel
  BY <1>5 DEF Cancel, Request, clients, looping, sweeping
<1>6. CASE Tick \/ Lock
  BY <1>6 DEF Tick, Lock, clients, looping, sweeping
<1>7. CASE Scan
  BY <1>7 DEF Scan, clients, looping, sweeping
<1>8. CASE CancelStale
  BY <1>8 DEF CancelStale, Request, clients, looping, sweeping
<1>9. CASE UNCHANGED vars
  BY <1>9 DEF vars, clients, looping, sweeping
<1> QED
  BY <1>1, <1>2, <1>3, <1>4, <1>5, <1>6, <1>7, <1>8, <1>9 DEF Next, CancelLoop

LEMMA InvInvariant == Spec => []Inv
<1>1. Inv /\ [Next]_vars => Inv'
  BY TypeStep, RequestStep DEF Inv
<1> QED
  BY InitInv, <1>1, PTL DEF Spec

\* Every reachable state of the monitor is well typed, and its channel never
\* holds more than its capacity.
THEOREM MonitorTypeCorrect == Spec => []TypeOK
  BY InvInvariant, PTL DEF Inv

\* The cancel loop and the stale loop between them send at most one cancel
\* request for an order, however often it is detected.
THEOREM OneRequest == Spec => []RequestedOnce
  BY InvInvariant, PTL DEF Inv
-----------------------------------------------------------------------------
(***************************************************************************)
(* A jam, and the way of a detected order to the map                       *)
(***************************************************************************)
\* The callback holds the mutex as long as it has orders to send, and the stale
\* loop while it scans.
Holding ==
    /\ todo # {} => mu = "update"
    /\ sweep = "scan" <=> mu = "sweep"

LEMMA HoldingInvariant == Spec => []Holding
<1>1. Init => Holding
  BY DEF Init, Holding
<1>2. Holding /\ [Next]_vars => Holding'
  BY DEF Holding, vars, Next, Update, CancelLoop, MonitorOrder, RemoveOrder, Age, Detect, Send,
     EndUpdate, Receive, Lookup, Cancel, Tick, Lock, Scan, CancelStale, clients, looping, sweeping
<1> QED
  BY <1>1, <1>2, PTL DEF Spec

LEMMA JamStep ==
    ASSUME TypeOK, Holding, Jammed, [Next]_vars
    PROVE  Jammed' /\ UNCHANGED <<tracked, known, cancelCh, todo, received>>
<1> USE CapacityAssumption DEF TypeOK, Holding, Jammed, looping, sweeping, clients
<1>1. CASE MonitorOrder \/ RemoveOrder \/ Age \/ Detect
  BY <1>1 DEF MonitorOrder, RemoveOrder, Age, Detect
<1>2. CASE Update \/ CancelLoop \/ Lookup
  BY <1>2 DEF Update, CancelLoop, Send, EndUpdate, Receive, Lookup, Cancel
<1>3. CASE Tick \/ Lock \/ Scan \/ CancelStale
  BY <1>3 DEF Tick, Lock, Scan, CancelStale
<1>4. CASE UNCHANGED vars
  BY <1>4 DEF vars
<1> QED
  BY <1>1, <1>2, <1>3, <1>4 DEF Next

\* When the callback waits for room and the cancel loop for the mutex, with the
\* channel full, that is the end of the monitor: whatever the other goroutines and
\* the clients do, the jam stays, and no order is added, removed, sent or received
\* any more.  This is why StaleLeaves and DetectedLeaves except a jam.
THEOREM JamIsForever ==
    Spec => /\ [](Jammed => []Jammed)
            /\ [][Jammed => UNCHANGED <<tracked, known, cancelCh, todo, received>>]_vars
<1>1. Spec => [](TypeOK /\ Holding)
  BY MonitorTypeCorrect, HoldingInvariant, PTL
<1>2. TypeOK /\ Holding /\ Jammed /\ [Next]_vars => Jammed'
  BY JamStep
<1>3. TypeOK /\ Holding /\ [Next]_vars
      => [Jammed => UNCHANGED <<tracked, known, cancelCh, todo, received>>]_vars
  BY JamStep
<1> QED
  BY <1>1, <1>2, <1>3, PTL DEF Spec

\* A detected order is with the callback, in the channel, or looked up.
Carried(o) ==
    \/ o \in todo
    \/ \E i \in 1..Len(cancelCh) : cancelCh[i] = o
    \/ loop = "lookup" /\ received = o
NeverForgotten == \A o \in Orders : Carried(o) => Carried(o)' \/ o \notin tracked'

LEMMA CarriedStep ==
    ASSUME TypeOK, Holding, [Next]_vars, NEW o \in Orders, Carried(o)
    PROVE  Carried(o)' \/ o \notin tracked'
<1> USE CapacityAssumption DEF TypeOK, Carried, looping, sweeping, clients
<1>1. CASE Send
  <2>1. PICK x \in todo : cancelCh' = Append(cancelCh, x) /\ todo' = todo \ {x}
    BY <1>1 DEF Send
  <2>2. x \in Orders /\ UNCHANGED looping
    BY <1>1 DEF Send
  <2>3. Len(cancelCh') = Len(cancelCh) + 1 /\ cancelCh'[Len(cancelCh) + 1] = x
    BY <2>1, <2>2
  <2>4. \A i \in 1..Len(cancelCh) : cancelCh'[i] = cancelCh[i]
    BY <2>1, <2>2
  <2>5. CASE o \in todo
    BY <2>1, <2>3, <2>5
  <2>6. CASE \E i \in 1..Len(cancelCh) : cancelCh[i] = o
    BY <2>3, <2>4, <2>6
  <2>7. CASE loop = "lookup" /\ received = o
    BY <2>2, <2>7
  <2> QED
    BY <2>5, <2>6, <2>7
<1>2. CASE Receive
  <2>1. /\ loop = "receive" /\ cancelCh # <<>> /\ UNCHANGED todo
        /\ received' = Head(cancelCh) /\ cancelCh' = Tail(cancelCh) /\ loop' = "lookup"
    BY <1>2 DEF Receive
  <2>2. ASSUME NEW i \in 1..Len(cancelCh), cancelCh[i] = o PROVE Carried(o)'
    <3>1. CASE i = 1
      BY <2>1, <2>2, <3>1
    <3>2. CASE i # 1
      <4>1. i - 1 \in 1..Len(cancelCh') /\ cancelCh'[i - 1] = o
        BY <2>1, <2>2, <3>2
      <4> QED
        BY <4>1
    <3> QED
      BY <3>1, <3>2
  <2> QED
    BY <2>1, <2>2
<1>3. CASE Detect
  BY <1>3 DEF Detect, Holding
<1>4. CASE Lookup
  BY <1>4 DEF Lookup
<1>5. CASE MonitorOrder \/ RemoveOrder \/ Age \/ EndUpdate \/ Cancel
  BY <1>5 DEF MonitorOrder, RemoveOrder, Age, EndUpdate, Cancel
<1>6. CASE Tick \/ Lock \/ Scan \/ CancelStale
  BY <1>6 DEF Tick, Lock, Scan, CancelStale
<1>7. CASE UNCHANGED vars
  BY <1>7 DEF vars
<1> QED
  BY <1>1, <1>2, <1>3, <1>4, <1>5, <1>6, <1>7 DEF Next, Update, CancelLoop

\* What DetectedLeaves has of safety: an order whose wall was found gone passes from
\* the callback through the channel to the lookup of the cancel loop, without a gap,
\* until it has left the map, by whichever loop or client.
THEOREM DetectedNeverForgotten == Spec => [][NeverForgotten]_vars
<1>1. Spec => [](TypeOK /\ Holding)
  BY MonitorTypeCorrect, HoldingInvariant, PTL
<1>2. TypeOK /\ Holding /\ [Next]_vars => [NeverForgotten]_vars
  BY CarriedStep DEF NeverForgotten
<1> QED
  BY <1>1, <1>2, PTL DEF Spec
=============================================================================
