--------------------------- MODULE EntryLifecycle ---------------------------
(***************************************************************************)
(* The life of an entry in oms_execution/internal/executor: from the limit *)
(* (or market) order that a signal places, through cancel, reprice and     *)
(* fill, to the tracked position, the orphan adoption and the close.       *)
(*                                                                         *)
(* Every map of Service (pending, positions, _promoting, ghostCooldown) is *)
(* keyed by the symbol a handler works on, so the module follows ONE       *)
(* symbol.  Three goroutines work on it:                                   *)
(*   "signal"   Run, handleSignal and what they call                       *)
(*   "fill"     runFillMonitor                                             *)
(*   "monitor"  runPositionMonitor (evaluatePosition, scanOrphanPositions) *)
(* and the exchange moves on its own.  A step of a goroutine is one        *)
(* critical section of Service.mu or one call to the exchange; what a      *)
(* goroutine remembers between two steps is in its locals.                 *)
(***************************************************************************)
EXTENDS Integers

CONSTANTS
    MaxEntries,     \* bound: PendingEntry objects ever created
    MaxOrders,      \* bound: entry orders the exchange ever accepts
    OrderQty,       \* quantity of an entry order, in lots
    MaxChase,       \* MaxChaseAttempts
    CallsMayFail,   \* exchange calls may return an error
    ReadsMayMiss    \* a position read may lag behind a fill

ASSUME BoundsAssumption ==
    /\ MaxEntries \in Nat \ {0}
    /\ MaxOrders \in Nat \ {0}
    /\ OrderQty \in Nat \ {0}
    /\ MaxChase \in Nat \ {0}
ASSUME FaultsAssumption ==
    /\ CallsMayFail \in BOOLEAN
    /\ ReadsMayMiss \in BOOLEAN

Threads == {"signal", "fill", "monitor"}
None == 0
Entries == 1..MaxEntries
Orders == 1..MaxOrders

VARIABLES
    pending,    \* Service.pending[symbol]: an entry or None
    entries,    \* the PendingEntry objects: State and OrderID
    nEntries,   \* PendingEntry objects created
    tracked,    \* symbol is a key of Service.positions
    trimmed,    \* EmergencySizeHandled of the tracked position
    promoting,  \* Service._promoting[symbol]: "absent", or the stored Boolean
    cooldown,   \* ghostCooldown[symbol] is in the future
    orders,     \* the exchange: entry orders
    nOrders,    \* entry orders accepted
    exSize,     \* the exchange: size of the position
    pc,         \* where each goroutine is
    ent,        \* local p of the running handler
    ord,        \* local order id
    qty,        \* local position size, as last read
    onFail,     \* where promotePendingFromExchange returns when it fails
    after,      \* where the outermost handler returns
    trim,       \* the goroutines whose emergency trim waits for the running cancel
    ghost,      \* the monitor closes through handleGhostPosition
    fillP,      \* local p of checkPendingFill
    attempt     \* chase attempt of placeNewEntry

maps == <<pending, entries, nEntries, tracked, trimmed, promoting, cooldown>>
exchange == <<orders, nOrders, exSize>>
locals == <<ent, ord, qty, onFail, after, trim, ghost, fillP, attempt>>
vars == <<maps, exchange, pc, locals>>

CancelLabels == {"cancel", "poll", "claim", "claimGet", "posPoll", "tryPromote",
                 "drop", "release"}
RepriceLabels == {"recheck", "replace", "install", "cancelNew"}
PromoteLabels == {"enter", "sync", "leftover", "reread", "verify", "register",
                  "sizeCheck"}
EmergencyLabels == {"emergency", "trim"}
CloseLabels == {"flatten", "dropPending", "cancelAll", "delete", "ghostDelete"}
PlaceLabels == {"newCheck", "market", "chase", "chasePoll", "chaseCancel", "add"}
Labels == {"idle", "begin", "beginReprice"} \cup CancelLabels \cup RepriceLabels
    \cup PromoteLabels \cup EmergencyLabels \cup CloseLabels \cup PlaceLabels
    \cup {"check", "status", "finalCancel", "finalGet"}
    \cup {"guard", "lookup", "reconcile"}
    \cup {"orphan", "adopt", "deploy"}
Continuations == {"idle", "status", "reconcile"}

EntryState == {"active", "cancelling"}
OrderStatus == {"open", "cancelling", "filled", "cancelled"}

MapsOK ==
    /\ pending \in Entries \cup {None}
    /\ entries \in [Entries -> [state : EntryState, order : Orders \cup {None}]]
    /\ nEntries \in 0..MaxEntries
    /\ tracked \in BOOLEAN /\ trimmed \in BOOLEAN /\ cooldown \in BOOLEAN
    /\ promoting \in {"absent", "true", "false"}
ExchangeOK ==
    /\ orders \in [Orders -> [status : OrderStatus, exec : 0..OrderQty]]
    /\ nOrders \in 0..MaxOrders
    /\ exSize \in Nat
ControlOK ==
    /\ pc \in [Threads -> Labels]
    /\ ent \in [Threads -> Entries \cup {None}]
    /\ ord \in [Threads -> Orders \cup {None}]
    /\ qty \in [Threads -> Nat]
    /\ onFail \in [Threads -> {"posPoll", "release", "drop"}]
    /\ after \in [Threads -> Continuations]
    /\ trim \subseteq Threads
    /\ ghost \in BOOLEAN
    /\ fillP \in Entries \cup {None}
    /\ attempt \in 0..MaxChase
TypeOK == MapsOK /\ ExchangeOK /\ ControlOK

Init ==
    /\ pending = None
    /\ entries = [e \in Entries |-> [state |-> "active", order |-> None]]
    /\ nEntries = 0
    /\ tracked = FALSE /\ trimmed = FALSE /\ cooldown = FALSE
    /\ promoting = "absent"
    /\ orders = [o \in Orders |-> [status |-> "cancelled", exec |-> 0]]
    /\ nOrders = 0
    /\ exSize = 0
    /\ pc = [t \in Threads |-> "idle"]
    /\ ent = [t \in Threads |-> None]
    /\ ord = [t \in Threads |-> None]
    /\ qty = [t \in Threads |-> 0]
    /\ onFail = [t \in Threads |-> "posPoll"]
    /\ after = [t \in Threads |-> "idle"]
    /\ trim = {}
    /\ ghost = FALSE
    /\ fillP = None
    /\ attempt = 0
-----------------------------------------------------------------------------
(***************************************************************************)
(* The exchange                                                            *)
(***************************************************************************)
Live(o) == orders[o].status \in {"open", "cancelling"}
Executed(o) ==      \* entryOrderIsExecuted
    orders[o].status = "filled" \/ (Live(o) /\ orders[o].exec > 0)
EntryIsCancelling(e) == e # None /\ pending = e /\ entries[e].state = "cancelling"

\* What a GetPosition call can answer: the position, or nothing (flat, lagging
\* behind a fill, or an error).
PositionSeen == exSize > 0
PositionFlat == exSize = 0 \/ ReadsMayMiss
PositionNotSeen == PositionFlat \/ CallsMayFail

\* An order is accepted.
Accept ==
    /\ nOrders < MaxOrders
    /\ nOrders' = nOrders + 1
    /\ orders' = [orders EXCEPT ![nOrders + 1] = [status |-> "open", exec |-> 0]]
    /\ UNCHANGED exSize

\* A place call that returns an error: refused, or accepted with a lost reply.
PlaceFails ==
    \/ (CallsMayFail \/ nOrders = MaxOrders) /\ UNCHANGED exchange
    \/ CallsMayFail /\ Accept

CancelRequested(S) ==
    [o \in Orders |-> IF o \in S /\ orders[o].status = "open"
                      THEN [orders[o] EXCEPT !.status = "cancelling"]
                      ELSE orders[o]]

\* CancelOrder with its error ignored.
TryCancel(o) ==
    /\ \/ orders' = CancelRequested({o})
       \/ CallsMayFail /\ UNCHANGED orders
    /\ UNCHANGED <<nOrders, exSize>>

ExchangeFill ==
    \E o \in Orders : \E k \in 1..(OrderQty - orders[o].exec) :
        /\ Live(o)
        /\ orders' = [orders EXCEPT
             ![o].exec = @ + k,
             ![o].status = IF orders[o].exec + k = OrderQty THEN "filled" ELSE @]
        /\ exSize' = exSize + k
        /\ UNCHANGED <<maps, nOrders, pc, locals>>

\* A cancel takes effect.
ExchangeCancel ==
    \E o \in Orders :
        /\ orders[o].status = "cancelling"
        /\ orders' = [orders EXCEPT ![o].status = "cancelled"]
        /\ UNCHANGED <<maps, nOrders, exSize, pc, locals>>

\* A post-only order that would cross is cancelled by the exchange itself.
ExchangeReject ==
    \E o \in Orders :
        /\ orders[o] = [status |-> "open", exec |-> 0]
        /\ orders' = [orders EXCEPT ![o].status = "cancelled"]
        /\ UNCHANGED <<maps, nOrders, exSize, pc, locals>>

\* A stop or a take-profit of the tracked position closes it.
ExchangeExit ==
    /\ tracked /\ exSize > 0
    /\ exSize' = 0
    /\ UNCHANGED <<maps, orders, nOrders, pc, locals>>

CooldownExpires ==
    /\ cooldown
    /\ cooldown' = FALSE
    /\ UNCHANGED <<pending, entries, nEntries, tracked, trimmed, promoting,
                   exchange, pc, locals>>

ExchangeStep == ExchangeFill \/ ExchangeCancel \/ ExchangeReject \/ ExchangeExit
-----------------------------------------------------------------------------
(***************************************************************************)
(* Control: a handler goes on, or returns to what called it.               *)
(***************************************************************************)
Goto(t, l) == pc' = [pc EXCEPT ![t] = l]

GoOn(t, l) == Goto(t, l) /\ UNCHANGED locals

\* The running cancel, reprice or promotion returns.  (The deferred
\* releasePendingEntryCancelIfStuck of an entry that has been promoted does
\* nothing: PromotedIsUnregistered.)
Return(t) ==
    /\ Goto(t, IF t \in trim THEN "trim" ELSE after[t])
    /\ ent' = [ent EXCEPT ![t] = None]
    /\ ord' = [ord EXCEPT ![t] = None]
    /\ qty' = IF t \in trim THEN qty ELSE [qty EXCEPT ![t] = 0]
    /\ UNCHANGED <<onFail, after, trim, ghost, fillP, attempt>>

\* A handler of goroutine t starts at label l on entry e, and returns to r.
Call(t, l, e, r) ==
    /\ Goto(t, l)
    /\ ent' = [ent EXCEPT ![t] = e]
    /\ after' = [after EXCEPT ![t] = r]
    /\ UNCHANGED <<ord, qty, onFail, trim, ghost, fillP, attempt>>

\* The handler has read the position and goes on with its size.
GoOnWithSize(t, l) ==
    /\ Goto(t, l)
    /\ qty' = [qty EXCEPT ![t] = exSize]
    /\ UNCHANGED <<ent, ord, onFail, after, trim, ghost, fillP, attempt>>

Oversized(n) == 2 * n > 3 * OrderQty    \* positionSizeViolation

\* checkPositionSizeViolation for a position read at size n
SizeCheck(t, n) ==
    IF Oversized(n) /\ ~trimmed
    THEN /\ trimmed' = TRUE
         /\ Goto(t, "emergency")
         /\ qty' = [qty EXCEPT ![t] = n]
         /\ UNCHANGED <<pending, entries, nEntries, tracked, promoting, cooldown,
                        ent, ord, onFail, after, trim, ghost, fillP, attempt>>
    ELSE Return(t) /\ UNCHANGED maps
-----------------------------------------------------------------------------
(***************************************************************************)
(* cancelPendingEntry, replacePendingEntry and what they share             *)
(***************************************************************************)
\* beginPendingEntryCancel; f is where a failed promotion goes on.
Claim(t, f) ==
    IF pending = ent[t] /\ entries[ent[t]].state = "active"
    THEN /\ entries' = [entries EXCEPT ![ent[t]].state = "cancelling"]
         /\ Goto(t, "cancel")
         /\ ord' = [ord EXCEPT ![t] = entries[ent[t]].order]
         /\ onFail' = [onFail EXCEPT ![t] = f]
         /\ UNCHANGED <<pending, nEntries, tracked, trimmed, promoting, cooldown,
                        exchange, ent, qty, after, trim, ghost, fillP, attempt>>
    ELSE Return(t) /\ UNCHANGED <<maps, exchange>>

BeginCancel(t) == pc[t] = "begin" /\ Claim(t, "posPoll")
BeginReprice(t) == pc[t] = "beginReprice" /\ Claim(t, "release")

Repricing(t) == onFail[t] # "posPoll"

\* Mutant: a reprice returns on the error before its release is deferred.
CancelUnknownReturns(t) ==
    IF Repricing(t) THEN Return(t) ELSE GoOn(t, "posPoll")

\* cancelEntryOrderConfirmed returned an error
CancelUnknown(t) == GoOn(t, IF Repricing(t) THEN "claim" ELSE "posPoll")

CancelEntryOrder(t) ==
    /\ pc[t] = "cancel"
    /\ \/ orders' = CancelRequested({ord[t]}) /\ GoOn(t, "poll")
       \/ /\ CallsMayFail
          /\ orders' \in {orders, CancelRequested({ord[t]})}
          /\ CancelUnknown(t)
    /\ UNCHANGED <<maps, nOrders, exSize>>

PollEntryOrder(t) ==
    /\ pc[t] = "poll"
    /\ \/ Executed(ord[t]) /\ GoOn(t, "claim")
       \/ /\ orders[ord[t]].status = "cancelled"
          /\ GoOn(t, IF Repricing(t) THEN "recheck" ELSE "posPoll")
       \/ /\ Live(ord[t]) /\ orders[ord[t]].exec = 0    \* polls exhausted
          /\ \/ PositionSeen /\ GoOn(t, "claim")
             \/ PositionNotSeen /\ CancelUnknown(t)
       \/ CallsMayFail /\ CancelUnknown(t)
    /\ UNCHANGED <<maps, exchange>>

\* promotePendingFromExchange: claim the entry, then look at the position.
ClaimForPromotion(t) ==
    /\ pc[t] = "claim"
    /\ IF pending = ent[t]
       THEN /\ pending' = None
            /\ promoting' = "true"
            /\ UNCHANGED <<entries, nEntries, tracked, trimmed, cooldown>>
            /\ GoOn(t, "claimGet")
       ELSE GoOn(t, onFail[t]) /\ UNCHANGED maps
    /\ UNCHANGED exchange

UnregisterAny ==    \* delete(s.pending, p.Symbol)
    /\ pending' = None
    /\ UNCHANGED <<entries, nEntries, tracked, trimmed, promoting, cooldown>>

ClaimedPosition(t) ==
    /\ pc[t] = "claimGet"
    /\ \/ PositionSeen /\ GoOnWithSize(t, "enter") /\ UNCHANGED maps
       \/ PositionNotSeen /\ UnregisterAny /\ GoOn(t, onFail[t])
    /\ UNCHANGED exchange

PollPositionAfterCancel(t) ==
    /\ pc[t] = "posPoll"
    /\ \/ PositionSeen /\ GoOnWithSize(t, "tryPromote")
       \/ PositionNotSeen /\ GoOn(t, "drop")
    /\ UNCHANGED <<maps, exchange>>

TryPromote(t) ==
    /\ pc[t] = "tryPromote"
    /\ GoOn(t, IF pending # None THEN "enter" ELSE "drop")
    /\ UNCHANGED <<maps, exchange>>

DropEntry(t) ==
    /\ pc[t] = "drop"
    /\ UnregisterAny
    /\ GoOn(t, "release")
    /\ UNCHANGED exchange

\* releasePendingEntryCancelIfStuck, deferred
Release(t) ==
    /\ pc[t] = "release"
    /\ entries' = IF EntryIsCancelling(ent[t])
                  THEN [entries EXCEPT ![ent[t]].state = "active"]
                  ELSE entries
    /\ Return(t)
    /\ UNCHANGED <<pending, nEntries, tracked, trimmed, promoting, cooldown, exchange>>

\* replacePendingEntry after the old order is dead
Recheck(t) ==
    /\ pc[t] = "recheck"
    /\ \/ /\ pending # ent[t]
          /\ GoOn(t, "release") /\ UNCHANGED maps
       \/ /\ pending = ent[t] /\ tracked
          /\ GoOn(t, "release") /\ UnregisterAny
       \/ /\ pending = ent[t] /\ ~tracked
          /\ GoOn(t, "replace") /\ UNCHANGED maps
    /\ UNCHANGED exchange

Replace(t) ==
    /\ pc[t] = "replace"
    /\ \/ /\ Accept
          /\ Goto(t, "install")
          /\ ord' = [ord EXCEPT ![t] = nOrders + 1]
          /\ UNCHANGED onFail
       \/ /\ PlaceFails
          /\ Goto(t, "claim")
          /\ onFail' = [onFail EXCEPT ![t] = "drop"]
          /\ UNCHANGED ord
    /\ UNCHANGED <<maps, ent, qty, after, trim, ghost, fillP, attempt>>

Install(t) ==
    /\ pc[t] = "install"
    /\ IF pending = ent[t]
       THEN /\ entries' = [entries EXCEPT ![ent[t]] = [state |-> "active", order |-> ord[t]]]
            /\ GoOn(t, "release")
       ELSE GoOn(t, "cancelNew") /\ UNCHANGED entries
    /\ UNCHANGED <<pending, nEntries, tracked, trimmed, promoting, cooldown, exchange>>

CancelNew(t) ==
    /\ pc[t] = "cancelNew"
    /\ TryCancel(ord[t])
    /\ GoOn(t, "release")
    /\ UNCHANGED maps
-----------------------------------------------------------------------------
(***************************************************************************)
(* promotePending and the emergency trim                                   *)
(***************************************************************************)
\* Mutant: the promoted entry stays registered.
EnterPromoteKeeps(t) ==
    /\ pc[t] = "enter"
    /\ GoOn(t, IF tracked THEN "sync" ELSE "leftover")
    /\ UNCHANGED <<maps, exchange>>

EnterPromote(t) ==
    /\ pc[t] = "enter"
    /\ UnregisterAny
    /\ GoOn(t, IF tracked THEN "sync" ELSE "leftover")
    /\ UNCHANGED exchange

\* syncActiveWithExchange
SyncActive(t) ==
    /\ pc[t] = "sync"
    /\ \/ tracked /\ PositionSeen /\ SizeCheck(t, exSize)
       \/ (~tracked \/ PositionNotSeen) /\ Return(t) /\ UNCHANGED maps
    /\ UNCHANGED exchange

CancelLeftover(t) ==
    /\ pc[t] = "leftover"
    /\ TryCancel(entries[ent[t]].order)
    /\ GoOn(t, "reread")
    /\ UNCHANGED maps

Reread(t) ==
    /\ pc[t] = "reread"
    /\ \/ PositionSeen /\ GoOnWithSize(t, "verify")
       \/ PositionNotSeen /\ GoOn(t, "verify")
    /\ UNCHANGED <<maps, exchange>>

\* Mutant: a flat answer puts the entry back before the cancel.
VerifyPutsBack(t) ==
    /\ pc[t] = "verify"
    /\ \/ (PositionSeen \/ CallsMayFail) /\ GoOn(t, "register") /\ UNCHANGED maps
       \/ /\ PositionFlat /\ GoOn(t, "begin")
          /\ pending' = ent[t]
          /\ UNCHANGED <<entries, nEntries, tracked, trimmed, promoting, cooldown>>
    /\ UNCHANGED exchange

\* An error of the last read is logged and the tracker is created; a flat answer
\* ends in a cancelPendingEntry of the entry that EnterPromote unregistered.
Verify(t) ==
    /\ pc[t] = "verify"
    /\ \/ (PositionSeen \/ CallsMayFail) /\ GoOn(t, "register")
       \/ PositionFlat /\ GoOn(t, "begin")
    /\ UNCHANGED <<maps, exchange>>

RegisterPosition(t) ==
    /\ pc[t] = "register"
    /\ IF tracked
       THEN /\ promoting' = "false"
            /\ UNCHANGED <<tracked, trimmed>>
            /\ Return(t)
       ELSE /\ tracked' = TRUE
            /\ trimmed' = FALSE
            /\ promoting' = "absent"
            /\ GoOn(t, "sizeCheck")
    /\ UNCHANGED <<pending, entries, nEntries, cooldown, exchange>>

CheckNewPosition(t) ==
    /\ pc[t] = "sizeCheck"
    /\ SizeCheck(t, qty[t])
    /\ UNCHANGED exchange

\* emergencyFlattenSizeViolation: cancel the pending entry, then trim.
Emergency(t) ==
    /\ pc[t] = "emergency"
    /\ IF pending # None
       THEN /\ Goto(t, "begin")
            /\ ent' = [ent EXCEPT ![t] = pending]
            /\ trim' = trim \cup {t}
            /\ UNCHANGED <<ord, qty, onFail, after, ghost, fillP, attempt>>
       ELSE GoOn(t, "trim")
    /\ UNCHANGED <<maps, exchange>>

\* The size after a reduce-only market order for the excess over OrderQty
Trimmed(n) ==
    LET rest == exSize - (n - OrderQty)
    IN  IF rest < 0 \/ Oversized(rest) THEN 0 ELSE rest

TrimExcess(t) ==
    /\ pc[t] = "trim"
    /\ \/ exSize' = Trimmed(qty[t])
       \/ CallsMayFail /\ exSize' \in {exSize, 0}
    /\ Goto(t, after[t])
    /\ ent' = [ent EXCEPT ![t] = None]
    /\ ord' = [ord EXCEPT ![t] = None]
    /\ qty' = [qty EXCEPT ![t] = 0]
    /\ trim' = trim \ {t}
    /\ UNCHANGED <<maps, orders, nOrders, onFail, after, ghost, fillP, attempt>>
-----------------------------------------------------------------------------
(***************************************************************************)
(* adoptExchangePosition, and the close of a tracked position              *)
(***************************************************************************)
\* Mutant: the adopted position gets its exit grid but no tracker.
AdoptUntracked(t) ==
    /\ pc[t] = "adopt"
    /\ IF tracked THEN Return(t) ELSE GoOn(t, "deploy")
    /\ UNCHANGED <<maps, exchange>>

Adopt(t) ==
    /\ pc[t] = "adopt"
    /\ IF tracked
       THEN Return(t) /\ UNCHANGED maps
       ELSE /\ tracked' = TRUE
            /\ trimmed' = FALSE
            /\ UNCHANGED <<pending, entries, nEntries, promoting, cooldown>>
            /\ GoOn(t, "deploy")
    /\ UNCHANGED exchange

\* A small orphan whose exit grid cannot be deployed is closed again.
DeployAdopted(t) ==
    /\ pc[t] = "deploy"
    /\ \/ Return(t)
       \/ CallsMayFail /\ GoOn(t, "flatten")
    /\ UNCHANGED <<maps, exchange>>

ByGhost(t) == t = "monitor" /\ ghost

\* ensureExchangeFlat; handleGhostPosition goes on when it fails.
Flatten(t) ==
    /\ pc[t] = "flatten"
    /\ \/ exSize' = 0 /\ GoOn(t, "dropPending")
       \/ ReadsMayMiss /\ UNCHANGED exSize /\ GoOn(t, "dropPending")
       \/ /\ CallsMayFail /\ UNCHANGED exSize
          /\ IF ByGhost(t) THEN GoOn(t, "dropPending") ELSE Return(t)
    /\ UNCHANGED <<maps, orders, nOrders>>

\* dropPendingEntry
DropPending(t) ==
    /\ pc[t] = "dropPending"
    /\ UnregisterAny
    /\ Call(t, "cancelAll", pending, after[t])
    /\ UNCHANGED exchange

\* The dropped entry's order is cancelled, then all open orders of the symbol.
CancelAll(t) ==
    /\ pc[t] = "cancelAll"
    /\ \/ orders' = CancelRequested(Orders)
       \/ /\ CallsMayFail /\ ent[t] # None
          /\ orders' = CancelRequested({entries[ent[t]].order})
       \/ CallsMayFail /\ UNCHANGED orders
    /\ GoOn(t, "delete")
    /\ UNCHANGED <<maps, nOrders, exSize>>

\* the end of finalizeClose
DeletePosition(t) ==
    /\ pc[t] = "delete"
    /\ tracked' = FALSE
    /\ IF ByGhost(t) THEN GoOn(t, "ghostDelete") ELSE Return(t)
    /\ UNCHANGED <<pending, entries, nEntries, trimmed, promoting, cooldown, exchange>>

\* the end of handleGhostPosition: it deletes by symbol again when the exchange
\* reported the closed PnL
GhostDelete(t) ==
    /\ pc[t] = "ghostDelete"
    /\ tracked' \in {tracked, FALSE}
    /\ cooldown' = TRUE
    /\ Return(t)
    /\ UNCHANGED <<pending, entries, nEntries, trimmed, promoting, exchange>>
-----------------------------------------------------------------------------
(***************************************************************************)
(* The fill monitor                                                        *)
(***************************************************************************)
FillTick ==
    /\ pc["fill"] = "idle" /\ pending # None
    /\ Goto("fill", "check")
    /\ fillP' = pending
    /\ UNCHANGED <<maps, exchange, ent, ord, qty, onFail, after, trim, ghost, attempt>>

\* checkPendingFill up to maybePegPendingEntry: a stale entry is cancelled, a
\* drifted one repriced.
FillCheck ==
    /\ pc["fill"] = "check"
    /\ IF EntryIsCancelling(fillP)
       THEN GoOn("fill", "idle")
       ELSE \/ Call("fill", "begin", fillP, "idle")
            \/ Call("fill", "beginReprice", fillP, "status")
            \/ GoOn("fill", "status")
    /\ UNCHANGED <<maps, exchange>>

\* Mutant: a filled order is not finalized.
FillStatusDeaf ==
    /\ pc["fill"] = "status"
    /\ Call("fill", "begin", fillP, "idle") \/ GoOn("fill", "idle")
    /\ UNCHANGED <<maps, exchange>>

\* the rest of checkPendingFill, after the optional reprice
FillStatus ==
    /\ pc["fill"] = "status"
    /\ LET o == entries[fillP].order IN
       \/ Call("fill", "begin", fillP, "idle")      \* fill timeout
       \/ orders[o].status = "filled" /\ Call("fill", "finalCancel", fillP, "idle")
       \/ Live(o) /\ Executed(o) /\ tracked /\ Call("fill", "sync", fillP, "idle")
       \/ CallsMayFail /\ GoOn("fill", "idle")
       \/ orders[o].status # "filled" /\ ~(Executed(o) /\ tracked) /\ GoOn("fill", "idle")
    /\ UNCHANGED <<maps, exchange>>

\* finalizePendingEntry
FinalCancel ==
    /\ pc["fill"] = "finalCancel"
    /\ TryCancel(entries[ent["fill"]].order)
    /\ GoOn("fill", "finalGet")
    /\ UNCHANGED maps

FinalGet ==
    /\ pc["fill"] = "finalGet"
    /\ \/ PositionSeen /\ GoOnWithSize("fill", "enter") /\ UNCHANGED maps
       \/ PositionNotSeen /\ UnregisterAny /\ Return("fill")
    /\ UNCHANGED exchange
-----------------------------------------------------------------------------
(***************************************************************************)
(* The signal loop                                                         *)
(***************************************************************************)
ReceiveAbort ==
    /\ pc["signal"] = "idle" /\ pending # None
    /\ Call("signal", "begin", pending, "idle")
    /\ UNCHANGED <<maps, exchange>>

\* Mutant: the signal loop looks at the tracked positions only.
ReceiveSignalBlind ==
    /\ pc["signal"] = "idle"
    /\ GoOn("signal", IF tracked THEN "reconcile" ELSE "guard")
    /\ UNCHANGED <<maps, exchange>>

ReceiveSignal ==
    /\ pc["signal"] = "idle"
    /\ GoOn("signal", IF tracked \/ pending # None THEN "reconcile" ELSE "guard")
    /\ UNCHANGED <<maps, exchange>>

\* reconcileExistingSignal and reconcilePendingEntry (reconcileActivePosition
\* works on exit orders only)
Reconcile ==
    /\ pc["signal"] = "reconcile"
    /\ IF cooldown \/ tracked
       THEN GoOn("signal", "idle")
       ELSE IF pending # None
            THEN \/ Call("signal", "begin", pending, "idle")
                 \/ Call("signal", "beginReprice", pending, "idle")
                 \/ GoOn("signal", "idle")
            ELSE GoOn("signal", "newCheck")
    /\ UNCHANGED <<maps, exchange>>

\* the _promoting check of handleSignal and its entry filters
Guard ==
    /\ pc["signal"] = "guard"
    /\ \/ promoting = "absent" /\ GoOn("signal", "lookup")
       \/ GoOn("signal", "idle")
    /\ UNCHANGED <<maps, exchange>>

\* A position the service does not track is adopted, or stops the entry.
Lookup ==
    /\ pc["signal"] = "lookup"
    /\ \/ PositionSeen /\ Call("signal", "adopt", None, "reconcile")
       \/ PositionNotSeen /\ GoOn("signal", "newCheck")
       \/ GoOn("signal", "idle")
    /\ UNCHANGED <<maps, exchange>>

\* placeNewEntry up to its first order
CheckNewEntry ==
    /\ pc["signal"] = "newCheck"
    /\ \/ /\ ~EntryIsCancelling(pending)
          /\ nEntries < MaxEntries
          /\ \E l \in {"market", "chase"} : Goto("signal", l)
          /\ attempt' = 1
       \/ GoOn("signal", "idle")
    /\ UNCHANGED <<maps, exchange, ent, ord, qty, onFail, after, trim, ghost, fillP>>

MarketTake ==
    /\ pc["signal"] = "market"
    /\ \/ /\ Accept
          /\ Goto("signal", "add")
          /\ ord' = [ord EXCEPT !["signal"] = nOrders + 1]
       \/ PlaceFails /\ Goto("signal", "chase") /\ UNCHANGED ord
    /\ UNCHANGED <<maps, ent, qty, onFail, after, trim, ghost, fillP, attempt>>

ChasePlace ==
    /\ pc["signal"] = "chase"
    /\ \/ /\ Accept
          /\ Goto("signal", "chasePoll")
          /\ ord' = [ord EXCEPT !["signal"] = nOrders + 1]
       \/ PlaceFails /\ Goto("signal", "idle") /\ UNCHANGED ord
    /\ UNCHANGED <<maps, ent, qty, onFail, after, trim, ghost, fillP, attempt>>

\* Mutant: one chase attempt too many.
ChasePollLate ==
    /\ pc["signal"] = "chasePoll"
    /\ \/ orders[ord["signal"]].status = "filled" /\ GoOn("signal", "add")
       \/ /\ orders[ord["signal"]].status # "filled" \/ CallsMayFail
          /\ GoOn("signal", IF attempt <= MaxChase THEN "chaseCancel" ELSE "add")
    /\ UNCHANGED <<maps, exchange>>

ChasePoll ==
    /\ pc["signal"] = "chasePoll"
    /\ \/ orders[ord["signal"]].status = "filled" /\ GoOn("signal", "add")
       \/ /\ orders[ord["signal"]].status # "filled" \/ CallsMayFail
          /\ GoOn("signal", IF attempt < MaxChase THEN "chaseCancel" ELSE "add")
    /\ UNCHANGED <<maps, exchange>>

ChaseCancel ==
    /\ pc["signal"] = "chaseCancel"
    /\ TryCancel(ord["signal"])
    /\ Goto("signal", "chase")
    /\ attempt' = attempt + 1
    /\ UNCHANGED <<maps, ent, ord, qty, onFail, after, trim, ghost, fillP>>

\* the pending entry is registered
AddPending ==
    /\ pc["signal"] = "add"
    /\ nEntries' = nEntries + 1
    /\ pending' = nEntries + 1
    /\ entries' = [entries EXCEPT
         ![nEntries + 1] = [state |-> "active", order |-> ord["signal"]]]
    /\ Goto("signal", "idle")
    /\ ord' = [ord EXCEPT !["signal"] = None]
    /\ attempt' = 0
    /\ UNCHANGED <<tracked, trimmed, promoting, cooldown, exchange,
                   ent, qty, onFail, after, trim, ghost, fillP>>
-----------------------------------------------------------------------------
(***************************************************************************)
(* The position monitor                                                    *)
(***************************************************************************)
OrphanScan ==
    /\ pc["monitor"] = "idle" /\ PositionSeen
    /\ GoOn("monitor", "orphan")
    /\ UNCHANGED <<maps, exchange>>

\* tryAdoptOrphan
OrphanCheck ==
    /\ pc["monitor"] = "orphan"
    /\ IF tracked \/ pending # None \/ promoting # "absent" \/ cooldown
       THEN GoOn("monitor", "idle")
       ELSE Call("monitor", "adopt", None, "idle")
    /\ UNCHANGED <<maps, exchange>>

\* evaluatePosition, as far as it closes or trims the position: trim an
\* oversized one, close an open one by an exit rule, close a ghost.
Evaluate ==
    /\ pc["monitor"] = "idle" /\ tracked
    /\ \/ /\ PositionSeen /\ Oversized(exSize) /\ ~trimmed
          /\ SizeCheck("monitor", exSize)
       \/ /\ PositionSeen /\ (trimmed \/ ~Oversized(exSize))
          /\ Goto("monitor", "flatten")
          /\ ghost' = FALSE
          /\ UNCHANGED <<maps, ent, ord, qty, onFail, after, trim, fillP, attempt>>
       \/ /\ PositionFlat
          /\ Goto("monitor", "flatten")
          /\ ghost' = TRUE
          /\ UNCHANGED <<maps, ent, ord, qty, onFail, after, trim, fillP, attempt>>
    /\ UNCHANGED exchange
-----------------------------------------------------------------------------
EntryStep(t) ==
    \/ BeginCancel(t) \/ BeginReprice(t) \/ CancelEntryOrder(t) \/ PollEntryOrder(t)
    \/ ClaimForPromotion(t) \/ ClaimedPosition(t) \/ PollPositionAfterCancel(t)
    \/ TryPromote(t) \/ DropEntry(t) \/ Release(t)
    \/ Recheck(t) \/ Replace(t) \/ Install(t) \/ CancelNew(t)

PositionStep(t) ==
    \/ EnterPromote(t) \/ SyncActive(t) \/ CancelLeftover(t) \/ Reread(t) \/ Verify(t)
    \/ RegisterPosition(t) \/ CheckNewPosition(t) \/ Emergency(t) \/ TrimExcess(t)
    \/ Adopt(t) \/ DeployAdopted(t)
    \/ Flatten(t) \/ DropPending(t) \/ CancelAll(t) \/ DeletePosition(t) \/ GhostDelete(t)

FillLoop == FillTick \/ FillCheck \/ FillStatus \/ FinalCancel \/ FinalGet

SignalHandler ==
    \/ Reconcile \/ Guard \/ Lookup \/ CheckNewEntry \/ MarketTake \/ ChasePlace
    \/ ChasePoll \/ ChaseCancel \/ AddPending

MonitorLoop == OrphanScan \/ OrphanCheck \/ Evaluate

Next ==
    \/ \E t \in Threads : EntryStep(t) \/ PositionStep(t)
    \/ FillLoop
    \/ ReceiveAbort \/ ReceiveSignal \/ SignalHandler
    \/ MonitorLoop
    \/ ExchangeStep \/ CooldownExpires

Spec == Init /\ [][Next]_vars

\* Every handler that has started goes on (its calls to the exchange have
\* timeouts), the tickers tick, and time passes.  OrphanScan needs strong
\* fairness: it is enabled only between two evaluations, and select picks at
\* random between the two tickers.  No fairness for signals, fills and exits.
Fairness ==
    /\ \A t \in Threads : WF_vars(EntryStep(t)) /\ WF_vars(PositionStep(t))
    /\ WF_vars(FillLoop) /\ WF_vars(SignalHandler) /\ WF_vars(MonitorLoop)
    /\ SF_vars(OrphanScan)
    /\ WF_vars(ExchangeCancel) /\ WF_vars(CooldownExpires)

FairSpec == Spec /\ Fairness
-----------------------------------------------------------------------------
(***************************************************************************)
(* Properties                                                              *)
(***************************************************************************)
\* t is between a successful beginPendingEntryCancel of e and the deferred
\* release, or about to unregister e in promotePending.
Resolving(t, e) ==
    ent[t] = e /\ pc[t] \in CancelLabels \cup RepriceLabels \cup {"enter"}

\* A registered entry marked Cancelling has a goroutine that will unmark or
\* unregister it: no interleaving of signal loop, fill monitor and position
\* monitor leaves it marked for good, deaf to fills, cancels and reprices.
NoStuckCancel ==
    pending # None /\ entries[pending].state = "cancelling"
        => \E t \in Threads : Resolving(t, pending)

\* From the moment the signal loop decides for a new entry until it registers
\* it, no entry is registered, although its placement takes many seconds and
\* registers without looking (service.go:1123): no live order loses its entry.
AddFindsNoPending ==
    pc["signal"] \in PlaceLabels \cup {"guard", "lookup"} => pending = None

\* An entry that a goroutine promotes is no longer registered, and is never
\* registered again: its deferred release is void, and so is the cancel that
\* promotePending issues when the exchange has no position.
PromotedIsUnregistered ==
    \A t \in Threads :
        pc[t] \in {"claimGet", "leftover", "reread", "verify", "register", "sizeCheck"}
            => pending # ent[t]

\* A cancel or reprice in flight comes to an end for every entry.
CancellingEnds ==
    \A e \in Entries : EntryIsCancelling(e) ~> ~EntryIsCancelling(e)

\* When calls answer and reads do not lag, an entry whose order is filled is
\* taken out of the pending map.
FilledEntryLeaves ==
    \A e \in Entries :
        (pending = e /\ orders[entries[e].order].status = "filled") ~> pending # e

\* Under the same conditions a position on the exchange is tracked, or gone,
\* or hidden by a _promoting key: the key is the only way to lose it.
ExposureManaged == exSize > 0 ~> (tracked \/ exSize = 0 \/ promoting # "absent")

\* What the pending map promises to its users, and how it keeps it.
Slot == INSTANCE PendingSlot WITH
    slot <- pending,
    last <- nEntries,
    mode <- IF pending = None THEN "none" ELSE entries[pending].state
SlotSpec == Slot!Spec
=============================================================================
