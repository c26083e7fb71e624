---------------------------- MODULE TimeStopProofs ----------------------------
(***************************************************************************)
(* Proofs about TimeStop, for any number of velocity goroutines, any size  *)
(* of the position and any number of failing calls.                        *)
(***************************************************************************)
EXTENDS TimeStop, TLAPS

\* The labels that a goroutine leaves only when the position is closed or one of
\* its calls has failed.
Committed == {"kill", "exit", "escalate", "chase", "market", "ensure", "finalize"}

FinalizesFlat == \A t \in Threads : pc[t] = "finalize" => size = 0

\* Why a position is abandoned by a fault only: somebody is committed to it.
SomebodyCommitted ==
    faults = 0 /\ tracked /\ size > 0 /\ state \in {"aggressive", "closed"}
        => \E t \in Threads : pc[t] \in Committed

\* The state never returns to Active, so that stage 1 and its timer start once.
TimerOnce ==
    /\ state = "active" \/ pc["monitor"] = "post" => pc["timer"] = "idle"
    /\ pc["monitor"] = "post" => state # "active"

Inv == TypeOK /\ FinalizesFlat /\ FinalizedIsFlat /\ TimerOnce /\ SomebodyCommitted

LEMMA ThreadNames ==
    /\ "monitor" \in Threads /\ "timer" \in Threads /\ "failsafe" \in Threads
    /\ \A k \in Kills : k \in Threads /\ k \notin {"monitor", "timer", "failsafe"}
  BY KillsAssumption DEF Threads, Windows

LEMMA InitInv == Init => Inv
<1> SUFFICES ASSUME Init PROVE Inv
  OBVIOUS
<1>1. TypeOK
  <2>1. clock \in Ages /\ state \in States /\ tracked \in BOOLEAN /\ placed \in BOOLEAN
        /\ forced \in BOOLEAN
    BY DEF Init, Ages, States
  <2>2. size \in 0..Lots /\ faults \in 0..MaxFaults
    BY LotsAssumption, MaxFaultsAssumption DEF Init
  <2>3. order \in [Windows -> {"none", "new", "partial", "done"}] /\ pc \in [Threads -> Labels]
    BY DEF Init, Labels
  <2> QED
    BY <2>1, <2>2, <2>3 DEF TypeOK
<1>2. FinalizesFlat /\ TimerOnce
  <2>1. \A t \in Threads : pc[t] = "idle"
    BY DEF Init
  <2>2. pc["monitor"] = "idle" /\ pc["timer"] = "idle"
    BY <2>1, ThreadNames
  <2> QED
    BY <2>1, <2>2 DEF FinalizesFlat, TimerOnce
<1>3. FinalizedIsFlat
  BY DEF Init, FinalizedIsFlat
<1>4. SomebodyCommitted
  BY DEF Init, SomebodyCommitted
<1> QED
  BY <1>1, <1>2, <1>3, <1>4 DEF Inv
-----------------------------------------------------------------------------
LEMMA TypeStep == ASSUME TypeOK, [Next]_vars PROVE TypeOK'
<1> USE ThreadNames, LotsAssumption, MaxFaultsAssumption
    DEF TypeOK, Ages, States, Labels, Exiting, Goto, Fault, position
<1>1. CASE Tick \/ ExchangeExit \/ SignalExit
  <2>1. CASE Tick
    BY <2>1 DEF Tick
  <2>2. CASE ExchangeExit
    BY <2>2 DEF ExchangeExit
  <2>3. CASE SignalExit
    BY <2>3 DEF SignalExit
  <2> QED
    BY <1>1, <2>1, <2>2, <2>3
<1>2. ASSUME NEW w \in Windows, PassiveFill(w) \/ PassiveReject(w) PROVE TypeOK'
  BY <1>2 DEF PassiveFill, PassiveReject
<1>3. CASE Evaluate
  <2>1. CASE ReadPosition \/ LoadState \/ ExitByPrice \/ StartPassive \/ StartZombie \/ PassFsm
    BY <2>1 DEF ReadPosition, LoadState, ExitByPrice, StartPassive, StartZombie, PassFsm
  <2>2. CASE ExitMarket
    BY <2>2 DEF ExitMarket
  <2>3. CASE PostPassive
    <3>1. pc' \in [Threads -> Labels] /\ order' \in [Windows -> {"none", "new", "partial", "done"}]
      BY <2>3 DEF PostPassive, Windows
    <3>2. size' \in 0..Lots /\ faults' \in 0..MaxFaults
      BY <2>3 DEF PostPassive
    <3>3. clock' \in Ages /\ state' \in States
      BY <2>3 DEF PostPassive
    <3>4. tracked' \in BOOLEAN /\ placed' \in BOOLEAN /\ forced' \in BOOLEAN
      BY <2>3 DEF PostPassive
    <3> QED
      BY <3>1, <3>2, <3>3, <3>4
  <2>4. CASE KillSwitch
    <3>1. pc' \in [Threads -> Labels] /\ order' \in [Windows -> {"none", "new", "partial", "done"}]
      BY <2>4 DEF KillSwitch
    <3>2. size' \in 0..Lots /\ faults' \in 0..MaxFaults
      BY <2>4 DEF KillSwitch
    <3>3. clock' \in Ages /\ state' \in States
      BY <2>4 DEF KillSwitch
    <3>4. tracked' \in BOOLEAN /\ placed' \in BOOLEAN /\ forced' \in BOOLEAN
      BY <2>4 DEF KillSwitch
    <3> QED
      BY <3>1, <3>2, <3>3, <3>4
  <2>5. CASE GhostClose \/ GhostDeferred
    <3>1. pc' \in [Threads -> Labels] /\ order' \in [Windows -> {"none", "new", "partial", "done"}]
      BY <2>5 DEF GhostClose, GhostDeferred, Cleaned
    <3>2. size' \in 0..Lots /\ faults' \in 0..MaxFaults
      BY <2>5 DEF GhostClose, GhostDeferred
    <3>3. clock' \in Ages /\ state' \in States
      BY <2>5 DEF GhostClose, GhostDeferred
    <3>4. tracked' \in BOOLEAN /\ placed' \in BOOLEAN /\ forced' \in BOOLEAN
      BY <2>5 DEF GhostClose, GhostDeferred
    <3> QED
      BY <3>1, <3>2, <3>3, <3>4
  <2>6. CASE ManageFlat \/ ManageNothing \/ FailsafePost \/ FailsafeStop
    <3>1. pc' \in [Threads -> Labels] /\ order' \in [Windows -> {"none", "new", "partial", "done"}]
      BY <2>6 DEF ManageFlat, ManageNothing, FailsafePost, FailsafeStop, Windows
    <3>2. size' \in 0..Lots /\ faults' \in 0..MaxFaults
      BY <2>6 DEF ManageFlat, ManageNothing, FailsafePost, FailsafeStop
    <3>3. clock' \in Ages /\ state' \in States
      BY <2>6 DEF ManageFlat, ManageNothing, FailsafePost, FailsafeStop
    <3>4. tracked' \in BOOLEAN /\ placed' \in BOOLEAN /\ forced' \in BOOLEAN
      BY <2>6 DEF ManageFlat, ManageNothing, FailsafePost, FailsafeStop
    <3> QED
      BY <3>1, <3>2, <3>3, <3>4
  <2>7. CASE Velocity
    BY <2>7 DEF Velocity
  <2> QED
    BY <1>3, <2>1, <2>2, <2>3, <2>4, <2>5, <2>6, <2>7 DEF Evaluate
<1>4. CASE Timer
  BY <1>4 DEF Timer, TimerLoad, TimerLook, Escalate, Windows
<1>5. CASE Failsafe
  BY <1>5 DEF Failsafe, FailsafeLoad, FailsafeLook, Windows
<1>6. ASSUME NEW k \in Kills, VelocityMarket(k) PROVE TypeOK'
  BY <1>6 DEF VelocityMarket
<1>7. ASSUME NEW t \in Threads, Closing(t) PROVE TypeOK'
  <2>1. CASE Chase(t)
    BY <2>1 DEF Chase
  <2>2. CASE Market(t)
    BY <2>2 DEF Market
  <2>3. CASE EnsureFlat(t)
    BY <2>3 DEF EnsureFlat, Rest
  <2>4. CASE Finalize(t)
    BY <2>4 DEF Finalize, Rest, Cleaned, Windows
  <2> QED
    BY <1>7, <2>1, <2>2, <2>3, <2>4 DEF Closing
<1>8. CASE UNCHANGED vars
  BY <1>8 DEF vars
<1> QED
  BY <1>1, <1>2, <1>3, <1>4, <1>5, <1>6, <1>7, <1>8 DEF Next
-----------------------------------------------------------------------------
\* The position only shrinks, and a goroutine enters "finalize" from EnsureFlat
\* only, which leaves the position closed.
LEMMA FlatStep ==
    ASSUME TypeOK, FinalizesFlat, FinalizedIsFlat, [Next]_vars
    PROVE  FinalizesFlat' /\ FinalizedIsFlat'
<1> USE ThreadNames DEF TypeOK, FinalizesFlat, FinalizedIsFlat, Goto, Fault, position
<1>1. CASE Tick \/ ExchangeExit \/ SignalExit
  BY <1>1 DEF Tick, ExchangeExit, SignalExit
<1>2. ASSUME NEW w \in Windows, PassiveFill(w) \/ PassiveReject(w)
      PROVE  FinalizesFlat' /\ FinalizedIsFlat'
  BY <1>2 DEF PassiveFill, PassiveReject
<1>3. CASE Evaluate
  <2>1. CASE ReadPosition \/ LoadState \/ ExitByPrice \/ StartPassive \/ StartZombie \/ PassFsm
    BY <2>1 DEF ReadPosition, LoadState, ExitByPrice, StartPassive, StartZombie, PassFsm
  <2>2. CASE ExitMarket \/ PostPassive \/ KillSwitch
    BY <2>2 DEF ExitMarket, PostPassive, KillSwitch
  <2>3. CASE GhostClose \/ GhostDeferred
    BY <2>3 DEF GhostClose, GhostDeferred
  <2>4. CASE ManageFlat \/ ManageNothing \/ FailsafePost \/ FailsafeStop
    BY <2>4 DEF ManageFlat, ManageNothing, FailsafePost, FailsafeStop
  <2>5. CASE Velocity
    BY <2>5 DEF Velocity
  <2> QED
    BY <1>3, <2>1, <2>2, <2>3, <2>4, <2>5 DEF Evaluate
<1>4. CASE Timer \/ Failsafe
  BY <1>4 DEF Timer, TimerLoad, TimerLook, Escalate, Failsafe, FailsafeLoad, FailsafeLook
<1>5. ASSUME NEW k \in Kills, VelocityMarket(k) PROVE FinalizesFlat' /\ FinalizedIsFlat'
  BY <1>5 DEF VelocityMarket
<1>6. ASSUME NEW t \in Threads, Closing(t) PROVE FinalizesFlat' /\ FinalizedIsFlat'
  <2>1. CASE Chase(t) \/ Market(t)
    BY <2>1 DEF Chase, Market
  <2>2. CASE EnsureFlat(t)
    BY <2>2 DEF EnsureFlat, Rest
  <2>3. CASE Finalize(t)
    BY <2>3 DEF Finalize, Rest
  <2> QED
    BY <1>6, <2>1, <2>2, <2>3 DEF Closing
<1>7. CASE UNCHANGED vars
  BY <1>7 DEF vars
<1> QED
  BY <1>1, <1>2, <1>3, <1>4, <1>5, <1>6, <1>7 DEF Next
-----------------------------------------------------------------------------
LEMMA TimerStep == ASSUME TypeOK, TimerOnce, [Next]_vars PROVE TimerOnce'
<1> USE ThreadNames DEF TypeOK, TimerOnce, Goto, position
<1>1. CASE Tick \/ ExchangeExit \/ SignalExit
  BY <1>1 DEF Tick, ExchangeExit, SignalExit
<1>2. ASSUME NEW w \in Windows, PassiveFill(w) \/ PassiveReject(w) PROVE TimerOnce'
  BY <1>2 DEF PassiveFill, PassiveReject
<1>3. CASE Evaluate
  <2>1. CASE ReadPosition \/ LoadState \/ ExitByPrice \/ StartPassive \/ StartZombie \/ PassFsm
    BY <2>1 DEF ReadPosition, LoadState, ExitByPrice, StartPassive, StartZombie, PassFsm
  <2>2. CASE ExitMarket \/ PostPassive \/ KillSwitch
    BY <2>2 DEF ExitMarket, PostPassive, KillSwitch
  <2>3. CASE GhostClose \/ GhostDeferred
    BY <2>3 DEF GhostClose, GhostDeferred
  <2>4. CASE ManageFlat \/ ManageNothing \/ FailsafePost \/ FailsafeStop
    BY <2>4 DEF ManageFlat, ManageNothing, FailsafePost, FailsafeStop
  <2>5. CASE Velocity
    BY <2>5 DEF Velocity
  <2> QED
    BY <1>3, <2>1, <2>2, <2>3, <2>4, <2>5 DEF Evaluate
<1>4. CASE Timer \/ Failsafe
  BY <1>4 DEF Timer, TimerLoad, TimerLook, Escalate, Failsafe, FailsafeLoad, FailsafeLook
<1>5. ASSUME NEW k \in Kills, VelocityMarket(k) PROVE TimerOnce'
  BY <1>5 DEF VelocityMarket
<1>6. ASSUME NEW t \in Threads, Closing(t) PROVE TimerOnce'
  <2>1. CASE Chase(t) \/ Market(t)
    BY <2>1 DEF Chase, Market
  <2>2. CASE EnsureFlat(t) \/ Finalize(t)
    BY <2>2 DEF EnsureFlat, Finalize, Rest
  <2> QED
    BY <1>6, <2>1, <2>2 DEF Closing
<1>7. CASE UNCHANGED vars
  BY <1>7 DEF vars
<1> QED
  BY <1>1, <1>2, <1>3, <1>4, <1>5, <1>6, <1>7 DEF Next
-----------------------------------------------------------------------------
\* A goroutine that goes to a committed label is a witness.
LEMMA Commits ==
    ASSUME TypeOK, NEW t \in Threads, NEW l \in Committed, Goto(t, l)
    PROVE  SomebodyCommitted'
  BY DEF TypeOK, Goto, SomebodyCommitted

\* A step that neither stores a state nor opens a position, of a goroutine that
\* was not committed, leaves the old witness.
LEMMA Witness ==
    ASSUME TypeOK, SomebodyCommitted, NEW t \in Threads, pc[t] \notin Committed,
           \A u \in Threads \ {t} : pc[u] \in Committed => pc'[u] = pc[u],
           state' = state \/ state' \notin {"aggressive", "closed"},
           tracked' => tracked, size' <= size, size' \in Nat, faults' = 0 => faults = 0
    PROVE  SomebodyCommitted'
<1> SUFFICES ASSUME faults' = 0, tracked', size' > 0, state' \in {"aggressive", "closed"}
             PROVE  \E u \in Threads : pc'[u] \in Committed
  BY DEF SomebodyCommitted
<1>1. faults = 0 /\ tracked /\ size > 0 /\ state \in {"aggressive", "closed"}
  BY DEF TypeOK
<1>2. PICK u \in Threads : pc[u] \in Committed
  BY <1>1 DEF SomebodyCommitted
<1>3. u # t /\ pc'[u] = pc[u]
  BY <1>2
<1> QED
  BY <1>2, <1>3

\* A step that closes the position, removes its tracker or fails a call.
LEMMA Void ==
    ASSUME size' = 0 \/ ~tracked' \/ (faults' = faults + 1 /\ faults \in Nat)
    PROVE  SomebodyCommitted'
  BY DEF SomebodyCommitted

LEMMA CommittedStep ==
    ASSUME TypeOK, TimerOnce, SomebodyCommitted, [Next]_vars
    PROVE  SomebodyCommitted'
<1> USE ThreadNames
<1>0. pc \in [Threads -> Labels] /\ size \in Nat /\ faults \in Nat
  BY MaxFaultsAssumption DEF TypeOK
<1>1. CASE Tick \/ ExchangeExit \/ SignalExit
  BY <1>0, <1>1 DEF Tick, ExchangeExit, SignalExit, SomebodyCommitted
<1>2. ASSUME NEW w \in Windows, PassiveFill(w) \/ PassiveReject(w) PROVE SomebodyCommitted'
  BY <1>0, <1>2 DEF PassiveFill, PassiveReject, SomebodyCommitted
<1>3. CASE Evaluate
  <2>1. CASE ReadPosition \/ LoadState \/ PassFsm \/ GhostDeferred \/ ManageNothing \/ Velocity
             \/ FailsafePost \/ FailsafeStop
    <3>1. pc["monitor"] \notin Committed
      BY <2>1 DEF ReadPosition, LoadState, PassFsm, GhostDeferred, ManageNothing, Velocity,
         FailsafePost, FailsafeStop, Committed
    <3>2. \A u \in Threads \ {"monitor"} : pc[u] \in Committed => pc'[u] = pc[u]
      BY <1>0, <2>1 DEF ReadPosition, LoadState, PassFsm, GhostDeferred, ManageNothing, Velocity,
         FailsafePost, FailsafeStop, Committed, Goto
    <3>3. state' = state /\ tracked' = tracked /\ size' = size /\ faults' \in {faults, faults + 1}
      BY <2>1 DEF ReadPosition, LoadState, PassFsm, GhostDeferred, ManageNothing, Velocity,
         FailsafePost, FailsafeStop, position, Fault
    <3> QED
      BY <1>0, <3>1, <3>2, <3>3, Witness
  <2>2. CASE ExitByPrice \/ ExitMarket \/ ManageFlat
    BY <2>2, Commits DEF ExitByPrice, ExitMarket, ManageFlat, Committed
  <2>3. CASE StartPassive
    <3>1. pc["monitor"] \notin Committed
      BY <2>3 DEF StartPassive, Committed
    <3>2. \A u \in Threads \ {"monitor"} : pc'[u] = pc[u]
      BY <1>0, <2>3 DEF StartPassive, Goto
    <3>3. /\ state' = state \/ state' \notin {"aggressive", "closed"}
          /\ tracked' = tracked /\ size' = size /\ faults' = faults
      BY <2>3 DEF StartPassive
    <3> QED
      BY <1>0, <3>1, <3>2, <3>3, Witness
  <2>4. CASE StartZombie
    <3>1. CASE state = "passive"
      BY <2>4, <3>1, Commits DEF StartZombie, Committed
    <3>2. CASE state # "passive"
      <4>1. pc["monitor"] \notin Committed
        BY <2>4 DEF StartZombie, Committed
      <4>2. \A u \in Threads \ {"monitor"} : pc'[u] = pc[u]
        BY <1>0, <2>4, <3>2 DEF StartZombie, Goto
      <4>3. state' = state /\ tracked' = tracked /\ size' = size /\ faults' = faults
        BY <2>4, <3>2 DEF StartZombie
      <4> QED
        BY <1>0, <4>1, <4>2, <4>3, Witness
    <3> QED
      BY <3>1, <3>2
  <2>5. CASE PostPassive
    <3>1. CASE Goto("monitor", "kill")
      BY <3>1, Commits DEF Committed
    <3>2. CASE ~Goto("monitor", "kill")
      <4>1. pc["monitor"] \notin Committed
        BY <2>5 DEF PostPassive, Committed
      <4>2. pc' = [pc EXCEPT !["monitor"] = "idle", !["timer"] = "wait"]
        BY <2>5, <3>2 DEF PostPassive
      <4>3. state' = state /\ tracked' = tracked /\ size' = size /\ faults' = faults
        BY <2>5, <3>2 DEF PostPassive
      <4>4. pc["timer"] \notin Committed
        BY <2>5 DEF PostPassive, TimerOnce, Committed
      <4>5. \A u \in Threads \ {"monitor"} : pc[u] \in Committed => pc'[u] = pc[u]
        BY <1>0, <4>2, <4>4
      <4> QED
        BY <1>0, <4>1, <4>3, <4>5, Witness
    <3> QED
      BY <3>1, <3>2
  <2>6. CASE KillSwitch \/ GhostClose
    BY <1>0, <2>6, Void DEF KillSwitch, GhostClose, Fault
  <2> QED
    BY <1>3, <2>1, <2>2, <2>3, <2>4, <2>5, <2>6 DEF Evaluate
<1>4. CASE Timer
  <2>1. CASE Goto("timer", "escalate") \/ Goto("timer", "chase")
    BY <2>1, Commits DEF Committed
  <2>2. CASE (TimerLoad \/ TimerLook) /\ ~Goto("timer", "escalate")
    <3>1. pc["timer"] \notin Committed
      BY <2>2 DEF TimerLoad, TimerLook, Committed
    <3>2. \A u \in Threads \ {"timer"} : pc'[u] = pc[u]
      BY <1>0, <2>2 DEF TimerLoad, TimerLook, Goto
    <3>3. state' = state /\ tracked' = tracked /\ size' = size /\ faults' \in {faults, faults + 1}
      BY <2>2 DEF TimerLoad, TimerLook, position, Fault
    <3> QED
      BY <1>0, <3>1, <3>2, <3>3, Witness
  <2> QED
    BY <1>4, <2>1, <2>2 DEF Timer, Escalate
<1>5. CASE Failsafe
  <2>1. pc["failsafe"] \notin Committed
    BY <1>5 DEF Failsafe, FailsafeLoad, FailsafeLook, Committed
  <2>2. \A u \in Threads \ {"failsafe"} : pc'[u] = pc[u]
    BY <1>0, <1>5 DEF Failsafe, FailsafeLoad, FailsafeLook, Goto
  <2>3. /\ state' = state /\ tracked' = tracked /\ faults' \in {faults, faults + 1}
        /\ size' \in {0, size}
    BY <1>5 DEF Failsafe, FailsafeLoad, FailsafeLook, position, Fault
  <2> QED
    BY <1>0, <2>1, <2>2, <2>3, Witness
<1>6. ASSUME NEW k \in Kills, VelocityMarket(k) PROVE SomebodyCommitted'
  <2>1. CASE size' = 0
    BY <2>1, Void
  <2>2. CASE size' # 0
    <3>1. pc[k] \notin Committed
      BY <1>6 DEF VelocityMarket, Committed
    <3>2. \A u \in Threads \ {k} : pc'[u] = pc[u]
      BY <1>0, <1>6 DEF VelocityMarket, Goto
    <3>3. state' = state /\ tracked' = tracked /\ size' = size /\ faults' = faults
      BY <1>6, <2>2 DEF VelocityMarket
    <3> QED
      BY <1>0, <3>1, <3>2, <3>3, Witness
  <2> QED
    BY <2>1, <2>2
<1>7. ASSUME NEW t \in Threads, Closing(t) PROVE SomebodyCommitted'
  <2>1. CASE Chase(t)
    BY <2>1, Commits, Void DEF Chase, Committed
  <2>2. CASE Market(t)
    BY <2>2, Commits DEF Market, Committed
  <2>3. CASE EnsureFlat(t)
    BY <1>0, <2>3, Void DEF EnsureFlat, Fault
  <2>4. CASE Finalize(t)
    BY <2>4, Void DEF Finalize
  <2> QED
    BY <1>7, <2>1, <2>2, <2>3, <2>4 DEF Closing
<1>8. CASE UNCHANGED vars
  BY <1>8 DEF vars, position, SomebodyCommitted
<1> QED
  BY <1>1, <1>2, <1>3, <1>4, <1>5, <1>6, <1>7, <1>8 DEF Next
-----------------------------------------------------------------------------
LEMMA Step == Inv /\ [Next]_vars => Inv'
  BY TypeStep, FlatStep, TimerStep, CommittedStep DEF Inv

LEMMA Invariance == Spec => []Inv
<1>1. Init => Inv
  BY InitInv
<1>2. Inv /\ [Next]_vars => Inv'
  BY Step
<1> QED
  BY <1>1, <1>2, PTL DEF Spec

\* Type correctness.  That size stays a natural number says that no two exits of
\* the position, whoever sends them, reverse it.
THEOREM TimeStopTypeCorrect == Spec => []TypeOK
<1>1. Inv => TypeOK
  BY DEF Inv
<1> QED
  BY <1>1, Invariance, PTL

\* However many goroutines race through tryFinalizePosition and whichever of their
\* calls fail, the tracker of an open position is kept, unless a ghost is removed.
THEOREM FinalizedFlat == Spec => []FinalizedIsFlat
<1>1. Inv => FinalizedIsFlat
  BY DEF Inv
<1> QED
  BY <1>1, Invariance, PTL

\* A position in ClosingAggressive or Closed, which the monitor ignores, has a
\* goroutine that is closing it, as long as no exchange call has failed.
THEOREM AbandonedOnlyByFault == Spec => []AbandonedByFaultOnly
<1>1. Inv => AbandonedByFaultOnly
  <2> SUFFICES ASSUME Inv, Abandoned, faults = 0 PROVE FALSE
    BY MaxFaultsAssumption DEF Inv, TypeOK, AbandonedByFaultOnly
  <2>1. PICK t \in Threads : pc[t] \in Committed
    BY DEF Inv, SomebodyCommitted, Abandoned
  <2>2. pc[t] \in Exiting
    BY <2>1 DEF Committed, Exiting
  <2> QED
    BY <2>2 DEF Abandoned, Working
<1> QED
  BY <1>1, Invariance, PTL
-----------------------------------------------------------------------------
(***************************************************************************)
(* Stuck positions                                                         *)
(***************************************************************************)
\* Stuck, with the monitor before or inside its state machine: not on its way to
\* the failsafe with a decision from before the zombie age.
Stalled ==
    /\ clock = "zombie" /\ tracked
    /\ \A t \in Threads \ {"monitor"} : pc[t] \in {"idle", "over"}
    /\ pc["monitor"] \in {"idle", "state", "fsm", "ghost"}
    /\ (state = "active" /\ placed) \/ (state = "passive" /\ ~placed)

\* What comes from outside the state machine, and its two exits that depend on the
\* price: those of a position whose TimeStopPlaced is cleared.
Rescue == SignalExit \/ GhostClose \/ (state = "passive" /\ ExitByPrice)

StaysStalled == Stalled' /\ state' = state /\ placed' = placed

\* The monitor goes round in its four labels.
LEMMA Round ==
    ASSUME TypeOK, Stalled, UNCHANGED <<clock, tracked, state, placed>>,
           pc' = pc \/ \E l \in {"idle", "state", "fsm", "ghost"} : Goto("monitor", l)
    PROVE  StaysStalled
<1>1. \A t \in Threads \ {"monitor"} : pc'[t] = pc[t]
  BY ThreadNames DEF TypeOK, Goto
<1>2. pc'["monitor"] \in {"idle", "state", "fsm", "ghost"}
  BY ThreadNames DEF TypeOK, Goto, Stalled
<1> QED
  BY <1>1, <1>2 DEF Stalled, StaysStalled

LEMMA StalledStep ==
    ASSUME TypeOK, Stalled, [Next]_vars, ~Rescue
    PROVE  StaysStalled
<1>1. CASE Tick \/ ExchangeExit
  BY <1>1, Round DEF Tick, ExchangeExit, Stalled
<1>2. ASSUME NEW w \in Windows, PassiveFill(w) \/ PassiveReject(w)
      PROVE  StaysStalled
  BY <1>2, Round DEF PassiveFill, PassiveReject
<1>3. CASE Evaluate
  <2>1. CASE ReadPosition \/ GhostDeferred
    BY <2>1, Round DEF ReadPosition, GhostDeferred, position
  <2>2. CASE LoadState
    <3>1. state \notin {"aggressive", "closed"} /\ clock = "zombie"
      BY DEF Stalled
    <3> QED
      BY <2>2, <3>1, Round DEF LoadState, position
  <2>3. CASE ExitByPrice
    BY <2>3 DEF ExitByPrice, Rescue, Stalled
  <2>4. CASE StartPassive \/ StartZombie \/ PassFsm
    <3>1. tracked /\ clock = "zombie" /\ (placed => state = "active")
          /\ (~placed => state = "passive")
      BY DEF Stalled
    <3> QED
      BY <2>4, <3>1, Round DEF StartPassive, StartZombie, PassFsm, position
  <2>5. CASE ExitMarket \/ PostPassive \/ KillSwitch
    BY <2>5 DEF ExitMarket, PostPassive, KillSwitch, Stalled
  <2>6. CASE GhostClose
    BY <2>6 DEF Rescue
  <2>7. CASE ManageFlat \/ ManageNothing \/ FailsafePost \/ FailsafeStop \/ Velocity
    BY <2>7 DEF ManageFlat, ManageNothing, FailsafePost, FailsafeStop, Velocity, Stalled
  <2> QED
    BY <1>3, <2>1, <2>2, <2>3, <2>4, <2>5, <2>6, <2>7 DEF Evaluate
<1>4. CASE Timer \/ Failsafe
  <2>1. pc["timer"] \in {"idle", "over"} /\ pc["failsafe"] \in {"idle", "over"}
    BY ThreadNames DEF Stalled
  <2> QED
    BY <1>4, <2>1 DEF Timer, Failsafe, TimerLoad, TimerLook, Escalate, FailsafeLoad, FailsafeLook
<1>5. ASSUME NEW k \in Kills, VelocityMarket(k) PROVE FALSE
  BY <1>5, ThreadNames DEF VelocityMarket, Stalled
<1>6. ASSUME NEW t \in Threads, Closing(t) PROVE FALSE
  <2>1. pc[t] \in {"chase", "market", "ensure", "finalize"}
    BY <1>6 DEF Closing, Chase, Market, EnsureFlat, Finalize
  <2> QED
    BY <2>1 DEF Stalled
<1>7. CASE UNCHANGED vars
  BY <1>7, Round DEF vars, position
<1>8. CASE SignalExit
  BY <1>8 DEF Rescue
<1> QED
  BY <1>1, <1>2, <1>3, <1>4, <1>5, <1>6, <1>7, <1>8 DEF Next

\* Past the zombie age, a position in Active whose TimeStopPlaced the failsafe has
\* set, or in ClosingPassive whose TimeStopPlaced a signal has cleared, stays as it
\* is, however often the monitor evaluates it and whatever fills or fails: only
\* another adverse signal, the price, or a ghost close ends that.  This is why
\* ExitUnlessStuck excepts it.
THEOREM StuckUntilRescued ==
    Spec => [][Stalled => Rescue \/ StaysStalled]_vars
<1>1. TypeOK /\ [Next]_vars
      => [Stalled => Rescue \/ StaysStalled]_vars
  BY StalledStep
<1> QED
  BY <1>1, TimeStopTypeCorrect, PTL DEF Spec
=============================================================================
