------------------------------- MODULE TimeStop -------------------------------
(***************************************************************************)
(* The end of one tracked position: the time-stop state machine of         *)
(* executor/service.go (normal mode, hard stop after 180 s), the failsafe  *)
(* of the position manager (exits.go) and the velocity kill switch, with   *)
(* the goroutines they start:                                              *)
(*   "monitor"   runPositionMonitor, evaluatePosition                      *)
(*   "timer"     the passive window of the state machine                   *)
(*   "failsafe"  the passive window of timeStopLimitExit                   *)
(*   Kills       velocityKillSwitch goroutines                             *)
(* A step is one call to the exchange, or the reads and atomic operations  *)
(* between two calls.                                                      *)
(***************************************************************************)
EXTENDS Integers

CONSTANTS
    Kills,      \* bound: velocity goroutines, each started at most once
    Lots,       \* size of the position
    MaxFaults   \* bound: failed exchange calls

Windows == {"timer", "failsafe"}
Threads == {"monitor"} \cup Windows \cup Kills

ASSUME KillsAssumption == Kills \cap ({"monitor"} \cup Windows) = {}
ASSUME LotsAssumption == Lots \in Nat \ {0}
ASSUME MaxFaultsAssumption == MaxFaults \in Nat

VARIABLES
    clock,      \* how long the position is held: see Ages
    tracked,    \* it is in Service.positions
    state,      \* ActivePosition.State
    placed,     \* ActivePosition.TimeStopPlaced
    size,       \* its size on the exchange
    order,      \* passive exit order of each window
    pc,         \* where each goroutine is
    forced,     \* handleGhostPosition has removed the tracker
    faults      \* exchange calls that have failed

position == <<clock, tracked, state, placed, size, order, forced>>
vars == <<position, pc, faults>>

\* Under 180 s, the second before the hard stop (holdSec = 180), after the hard
\* stop, more than 60 s after it.
Ages == {"young", "due", "stop", "zombie"}
States == {"active", "passive", "aggressive", "closed"}
\* Labels at which a goroutine is on its way to close the position.
Exiting == {"post", "kill", "exit", "escalate", "chase", "market", "velocity",
            "ensure", "finalize"}
Labels == Exiting \cup {"idle", "state", "fsm", "manage", "ghost", "wait", "look", "over"}

TypeOK ==
    /\ clock \in Ages
    /\ tracked \in BOOLEAN /\ placed \in BOOLEAN /\ forced \in BOOLEAN
    /\ state \in States
    /\ size \in 0..Lots
    /\ order \in [Windows -> {"none", "new", "partial", "done"}]
    /\ pc \in [Threads -> Labels]
    /\ faults \in 0..MaxFaults

Init ==
    /\ clock = "young"
    /\ tracked = TRUE /\ state = "active" /\ placed = FALSE /\ forced = FALSE
    /\ size = Lots
    /\ order = [w \in Windows |-> "none"]
    /\ pc = [t \in Threads |-> "idle"]
    /\ faults = 0

Goto(t, l) == pc' = [pc EXCEPT ![t] = l]

\* What a goroutine is when its work is done: the monitor starts again.
Rest(t) == IF t = "monitor" THEN "idle" ELSE "over"

Fault == faults < MaxFaults /\ faults' = faults + 1

\* cleanupSymbolOrdersAfterClose: the symbol's orders are cancelled; a failure is
\* only logged.
Cleaned == [w \in Windows |-> IF order[w] = "none" THEN "none" ELSE "done"]
-----------------------------------------------------------------------------
(***************************************************************************)
(* Time, the exchange, and the signal loop                                 *)
(***************************************************************************)
Tick ==
    /\ clock # "zombie"
    /\ clock' = CASE clock = "young" -> "due" [] clock = "due" -> "stop"
                  [] clock = "stop" -> "zombie"
    /\ UNCHANGED <<tracked, state, placed, size, order, forced, pc, faults>>

\* A stop, a take-profit or the order of a signal exit executes.
ExchangeExit ==
    /\ size > 0
    /\ size' \in 0..(size - 1)
    /\ UNCHANGED <<clock, tracked, state, placed, order, forced, pc, faults>>

\* Mutant: the order executes although the position is gone.
PassiveFillBlind(w) ==
    /\ order[w] \in {"new", "partial"}
    /\ size' = size - 1
    /\ order' = [order EXCEPT ![w] = IF size = 1 THEN "done" ELSE "partial"]
    /\ UNCHANGED <<clock, tracked, state, placed, forced, pc, faults>>

PassiveFill(w) ==
    /\ order[w] \in {"new", "partial"} /\ size > 0
    /\ size' = size - 1
    /\ order' = [order EXCEPT ![w] = IF size = 1 THEN "done" ELSE "partial"]
    /\ UNCHANGED <<clock, tracked, state, placed, forced, pc, faults>>

\* A post-only order that would cross, or a reduce-only order without position,
\* is cancelled by the exchange.
PassiveReject(w) ==
    /\ order[w] = "new" \/ (order[w] = "partial" /\ size = 0)
    /\ order' = [order EXCEPT ![w] = "done"]
    /\ UNCHANGED <<clock, tracked, state, placed, size, forced, pc, faults>>

\* makerSignalExit: an adverse signal after 180 s replaces the stop by a maker
\* order and clears TimeStopPlaced.
SignalExit ==
    /\ tracked /\ size > 0 /\ clock # "young"
    /\ placed' = FALSE
    /\ UNCHANGED <<clock, tracked, state, size, order, forced, pc, faults>>
-----------------------------------------------------------------------------
(***************************************************************************)
(* evaluatePosition                                                        *)
(***************************************************************************)
\* A position that is gone is closed as a ghost, and so is an open one whose
\* exit grid could not be deployed three times.
ReadPosition ==
    /\ pc["monitor"] = "idle" /\ tracked
    /\ \/ size > 0 /\ Goto("monitor", "state") /\ UNCHANGED faults
       \/ Goto("monitor", "ghost") /\ UNCHANGED faults
       \/ Fault /\ UNCHANGED pc
    /\ UNCHANGED position

\* the early return, and the age
LoadState ==
    /\ pc["monitor"] = "state"
    /\ Goto("monitor", IF state \in {"aggressive", "closed"} THEN "idle"
                       ELSE IF clock \in {"young", "due"} THEN "manage" ELSE "fsm")
    /\ UNCHANGED <<position, faults>>

\* The snapshot under the lock, then the branches of the state machine.  The
\* breakeven and penalty exits depend on the price.
ExitByPrice ==
    /\ pc["monitor"] = "fsm" /\ tracked /\ ~placed
    /\ Goto("monitor", "exit")
    /\ UNCHANGED <<position, faults>>

StartPassive ==
    /\ pc["monitor"] = "fsm" /\ tracked /\ ~placed
    /\ IF state = "active"
       THEN state' = "passive" /\ Goto("monitor", "post")
       ELSE UNCHANGED state /\ Goto("monitor", "idle")
    /\ UNCHANGED <<clock, tracked, placed, size, order, forced, faults>>

\* Mutant: the zombie branch does not look at a passive position.
StartZombieDeaf ==
    /\ pc["monitor"] = "fsm" /\ tracked /\ placed /\ clock = "zombie"
    /\ Goto("monitor", "idle")
    /\ UNCHANGED <<position, faults>>

StartZombie ==
    /\ pc["monitor"] = "fsm" /\ tracked /\ placed /\ clock = "zombie"
    /\ IF state = "passive"
       THEN state' = "aggressive" /\ Goto("monitor", "chase")
       ELSE UNCHANGED state /\ Goto("monitor", "idle")
    /\ UNCHANGED <<clock, tracked, placed, size, order, forced, faults>>

PassFsm ==
    /\ pc["monitor"] = "fsm"
    /\ \/ ~tracked /\ Goto("monitor", "idle")
       \/ tracked /\ placed /\ clock = "stop" /\ Goto("monitor", "manage")
    /\ UNCHANGED <<position, faults>>

\* The market order of a breakeven or penalty exit; its error is ignored, and a
\* SHORT in profit gets an order of the wrong side, which closes nothing.
ExitMarket ==
    /\ pc["monitor"] = "exit"
    /\ size' \in {0, size}
    /\ state' = "closed" /\ placed' = TRUE
    /\ Goto("monitor", "ensure")
    /\ UNCHANGED <<clock, tracked, order, forced, faults>>

\* Stage 1; without a price or with an error the kill switch follows at once.
PostPassive ==
    /\ pc["monitor"] = "post"
    /\ \/ /\ size > 0
          /\ order' = [order EXCEPT !["timer"] = "new"]
          /\ placed' = TRUE
          /\ pc' = [pc EXCEPT !["monitor"] = "idle", !["timer"] = "wait"]
          /\ UNCHANGED <<state, faults>>
       \/ /\ state' = "aggressive"
          /\ Goto("monitor", "kill")
          /\ UNCHANGED placed
          /\ \/ UNCHANGED <<order, faults>>
             \/ Fault /\ order' = [order EXCEPT !["timer"] = "new"]
    /\ UNCHANGED <<clock, tracked, size, forced>>

KillSwitch ==
    /\ pc["monitor"] = "kill"
    /\ \/ /\ size' = 0
          /\ state' = "closed" /\ placed' = TRUE
          /\ Goto("monitor", "ensure")
          /\ UNCHANGED faults
       \/ /\ IF size = 0 THEN UNCHANGED faults ELSE Fault
          /\ size' \in {0, size}
          /\ Goto("monitor", "idle")
          /\ UNCHANGED <<state, placed>>
    /\ UNCHANGED <<clock, tracked, order, forced>>

\* handleGhostPosition removes the tracker even when its attempts to flatten fail.
GhostClose ==
    /\ pc["monitor"] = "ghost"
    /\ \/ size' = 0 /\ UNCHANGED faults
       \/ Fault /\ size' \in {0, size}
    /\ tracked' = FALSE /\ forced' = TRUE
    /\ order' \in {order, Cleaned}
    /\ Goto("monitor", "idle")
    /\ UNCHANGED <<clock, state, placed>>

\* The position may be missing for less than 60 s: nothing is done.
GhostDeferred ==
    /\ pc["monitor"] = "ghost" /\ clock = "young" /\ size = 0
    /\ Goto("monitor", "idle")
    /\ UNCHANGED <<position, faults>>
-----------------------------------------------------------------------------
(***************************************************************************)
(* The rest of evaluatePosition, as far as it closes the position          *)
(***************************************************************************)
\* monitorExitOrders and timeStopLimitExit take a failed read for a flat position;
\* the latter finalizes also when a stop that covered a part has filled.
ManageFlat ==
    /\ pc["monitor"] = "manage"
    /\ \/ size = 0 /\ UNCHANGED faults
       \/ placed /\ clock # "young" /\ size < Lots /\ UNCHANGED faults
       \/ Fault
    /\ Goto("monitor", "ensure")
    /\ UNCHANGED position

ManageNothing ==
    /\ pc["monitor"] = "manage"
    /\ Goto("monitor", "idle")
    /\ UNCHANGED <<position, faults>>

\* timeStopLimitExit, after four candles: a maker order with its own window
\* (bound: once) ...
FailsafePost ==
    /\ pc["monitor"] = "manage" /\ clock # "young" /\ ~placed
    /\ size > 0 /\ pc["failsafe"] = "idle"
    /\ order' = [order EXCEPT !["failsafe"] = "new"]
    /\ placed' = TRUE
    /\ pc' = [pc EXCEPT !["monitor"] = "idle", !["failsafe"] = "wait"]
    /\ UNCHANGED <<clock, tracked, state, size, forced, faults>>

\* ... or, when that order fails, a stop at the market price
FailsafeStop ==
    /\ pc["monitor"] = "manage" /\ clock # "young" /\ ~placed
    /\ placed' = TRUE
    /\ Goto("monitor", "idle")
    /\ UNCHANGED <<clock, tracked, state, size, order, forced, faults>>

\* a velocity reversal starts velocityKillSwitch
Velocity ==
    /\ pc["monitor"] = "manage" /\ ~placed
    /\ \E k \in Kills :
        /\ pc[k] = "idle"
        /\ pc' = [pc EXCEPT !["monitor"] = "idle", ![k] = "velocity"]
    /\ UNCHANGED <<position, faults>>
-----------------------------------------------------------------------------
(***************************************************************************)
(* The goroutines                                                          *)
(***************************************************************************)
\* The passive window of the state machine is over.
TimerLoad ==
    /\ pc["timer"] = "wait"
    /\ Goto("timer", IF state = "passive" THEN "look" ELSE "over")
    /\ UNCHANGED <<position, faults>>

\* Mutant: the timer leaves the passive state before it knows the order.
TimerLookHasty ==
    /\ pc["timer"] = "look"
    /\ state' = "aggressive"
    /\ \/ order["timer"] = "new" /\ Goto("timer", "chase") /\ UNCHANGED faults
       \/ order["timer"] # "new" /\ Goto("timer", "over") /\ UNCHANGED faults
       \/ Fault /\ Goto("timer", "over")
    /\ UNCHANGED <<clock, tracked, placed, size, order, forced>>

TimerLook ==
    /\ pc["timer"] = "look"
    /\ \/ order["timer"] = "new" /\ Goto("timer", "escalate") /\ UNCHANGED faults
       \/ order["timer"] # "new" /\ Goto("timer", "over") /\ UNCHANGED faults
       \/ Fault /\ Goto("timer", "over")
    /\ UNCHANGED position

\* The state is stored without a look at it; the error of the cancel is ignored.
Escalate ==
    /\ pc["timer"] = "escalate"
    /\ state' = "aggressive"
    /\ order' \in {order, [order EXCEPT !["timer"] = "done"]}
    /\ Goto("timer", "chase")
    /\ UNCHANGED <<clock, tracked, placed, size, forced, faults>>

\* ExecutePassiveExit: it closes the position, or a part of it, or gives up.
Chase(t) ==
    /\ pc[t] = "chase"
    /\ \/ /\ size' = 0
          /\ state' = "closed"
          /\ Goto(t, "ensure")
       \/ /\ size' \in 0..size
          /\ Goto(t, "market")
          /\ UNCHANGED state
    /\ UNCHANGED <<clock, tracked, placed, order, forced, faults>>

\* The emergency market order after a chase; its error is ignored.
Market(t) ==
    /\ pc[t] = "market"
    /\ \/ size' = 0 /\ UNCHANGED faults
       \/ Fault /\ UNCHANGED size
    /\ state' = "closed"
    /\ Goto(t, "ensure")
    /\ UNCHANGED <<clock, tracked, placed, order, forced>>

FailsafeLoad ==
    /\ pc["failsafe"] = "wait"
    /\ Goto("failsafe", IF tracked /\ placed THEN "look" ELSE "over")
    /\ UNCHANGED <<position, faults>>

FailsafeLook ==
    /\ pc["failsafe"] = "look"
    /\ \/ /\ order["failsafe"] = "new"
          /\ order' = [order EXCEPT !["failsafe"] = "done"]
          /\ \/ size' = 0 /\ UNCHANGED faults
             \/ Fault /\ UNCHANGED size
       \/ order["failsafe"] # "new" /\ UNCHANGED <<order, size, faults>>
       \/ Fault /\ UNCHANGED <<order, size>>
    /\ Goto("failsafe", "over")
    /\ UNCHANGED <<clock, tracked, state, placed, forced>>

\* velocityKillSwitch; nothing is done without an order book.
VelocityMarket(k) ==
    /\ pc[k] = "velocity"
    /\ \/ size' = 0 /\ Goto(k, "ensure") /\ UNCHANGED faults
       \/ Goto(k, "over") /\ UNCHANGED <<size, faults>>
       \/ Fault /\ size' = 0 /\ Goto(k, "over")
    /\ UNCHANGED <<clock, tracked, state, placed, order, forced>>
-----------------------------------------------------------------------------
(***************************************************************************)
(* tryFinalizePosition                                                     *)
(***************************************************************************)
\* Mutant: the position is finalized although it could not be closed.
EnsureFlatCareless(t) ==
    /\ pc[t] = "ensure"
    /\ \/ size' = 0 /\ UNCHANGED faults
       \/ Fault /\ size' \in {0, size}
    /\ Goto(t, "finalize")
    /\ UNCHANGED <<clock, tracked, state, placed, order, forced>>

EnsureFlat(t) ==
    /\ pc[t] = "ensure"
    /\ \/ size' = 0 /\ Goto(t, "finalize") /\ UNCHANGED faults
       \/ Fault /\ size' \in {0, size} /\ Goto(t, Rest(t))
    /\ UNCHANGED <<clock, tracked, state, placed, order, forced>>

\* finalizeFromExchange and finalizeClose, up to the removal of the tracker
Finalize(t) ==
    /\ pc[t] = "finalize"
    /\ tracked' = FALSE
    /\ order' \in {order, Cleaned}
    /\ Goto(t, Rest(t))
    /\ UNCHANGED <<clock, state, placed, size, forced, faults>>
-----------------------------------------------------------------------------
Closing(t) == Chase(t) \/ Market(t) \/ EnsureFlat(t) \/ Finalize(t)

Evaluate ==
    \/ ReadPosition \/ LoadState
    \/ ExitByPrice \/ StartPassive \/ StartZombie \/ PassFsm
    \/ ExitMarket \/ PostPassive \/ KillSwitch \/ GhostClose \/ GhostDeferred
    \/ ManageFlat \/ ManageNothing \/ FailsafePost \/ FailsafeStop \/ Velocity

Timer == TimerLoad \/ TimerLook \/ Escalate
Failsafe == FailsafeLoad \/ FailsafeLook

Next ==
    \/ Tick \/ ExchangeExit \/ SignalExit
    \/ \E w \in Windows : PassiveFill(w) \/ PassiveReject(w)
    \/ Evaluate \/ Timer \/ Failsafe
    \/ \E k \in Kills : VelocityMarket(k)
    \/ \E t \in Threads : Closing(t)

Spec == Init /\ [][Next]_vars

\* Time passes, the monitor's ticker ticks, timers fire, and every exchange call
\* returns (HTTP timeout of 15 s).  Nothing is assumed of prices, fills, signals.
Fairness ==
    /\ WF_vars(Tick)
    /\ WF_vars(Evaluate \/ Closing("monitor"))
    /\ WF_vars(Timer \/ Closing("timer"))
    /\ WF_vars(Failsafe)
    /\ \A k \in Kills : WF_vars(VelocityMarket(k) \/ Closing(k))

FairSpec == Spec /\ Fairness
-----------------------------------------------------------------------------
(***************************************************************************)
(* Properties                                                              *)
(***************************************************************************)
\* tryFinalizePosition removes the tracker of a closed position only: whichever
\* goroutines race to finalize it, and whichever of their calls fail, an open
\* position keeps its tracker (unless it is given up as a ghost).
FinalizedIsFlat == ~tracked /\ ~forced => size = 0

Working == \E t \in Threads : pc[t] \in Exiting

\* The monitor ignores a position that is ClosingAggressive or Closed.  When no
\* exchange call has failed, somebody is closing it.
Abandoned == tracked /\ size > 0 /\ state \in {"aggressive", "closed"} /\ ~Working
AbandonedByFaultOnly == Abandoned => faults > 0

\* The two combinations of State and TimeStopPlaced, past the zombie age and with
\* no goroutine at work, that no branch of the state machine leads out of:
\* TimeStopPlaced set by the failsafe, or cleared by a signal.
Stuck ==
    /\ clock = "zombie"
    /\ \A t \in Threads \ {"monitor"} : pc[t] \in {"idle", "over"}
    /\ ~Working
    /\ (state = "active" /\ placed) \/ (state = "passive" /\ ~placed)

\* A position is closed in the end, unless it gets stuck so or a call has failed
\* (which may leave it to nobody, see Abandoned).
ExitUnlessStuck == size > 0 ~> (size = 0 \/ Stuck \/ faults > 0)
=============================================================================
