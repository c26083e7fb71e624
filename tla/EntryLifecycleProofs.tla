------------------------ MODULE EntryLifecycleProofs ------------------------
(***************************************************************************)
(* Theorems about EntryLifecycle, for any number of entries, orders, lots  *)
(* and chase attempts, with or without failing calls and lagging reads.    *)
(*                                                                         *)
(* The safety invariants are proved together: Inv is TypeOK and Safe, where*)
(* Safe adds to the three invariants what makes them inductive: a handler  *)
(* that works on an entry has one, and it is not newer than the entry made *)
(* last (EntOK, FillOK); a new entry is created only below the bounds      *)
(* (Placing).  Every action moves one goroutine from a label to a label.   *)
(* It either leaves the pending map alone (lemma Onward), unregisters the  *)
(* pending entry (lemma Unregistering), or is one of the few that claim,   *)
(* release, install or register an entry, each with a lemma of its own.    *)
(***************************************************************************)
EXTENDS EntryLifecycle, TLAPS

\* Goroutine t goes to label l with local entry e.
Moves(t, l, e) ==
    /\ pc' = [pc EXCEPT ![t] = l]
    /\ ent' = [ent EXCEPT ![t] = e]

\* Where a handler that returns can go on
Stops == Continuations \cup {"trim"}

ResolvingLabels == CancelLabels \cup RepriceLabels \cup {"enter"}
Promoted == {"claimGet", "leftover", "reread", "verify", "register", "sizeCheck"}
NewEntryLabels == PlaceLabels \cup {"guard", "lookup"}
OnEntry == {"begin", "beginReprice", "finalCancel", "finalGet"}
               \cup ResolvingLabels \cup Promoted

EntOK ==
    \A t \in Threads : ent[t] <= nEntries /\ (pc[t] \in OnEntry => ent[t] # None)
FillOK ==
    /\ pending <= nEntries
    /\ fillP <= nEntries
    /\ pc["fill"] # "idle" => fillP # None
Placing ==
    /\ pc["signal"] \in PlaceLabels \ {"newCheck"} => nEntries < MaxEntries
    /\ pc["signal"] = "chaseCancel" => attempt < MaxChase
Safe ==
    /\ EntOK /\ FillOK /\ Placing
    /\ NoStuckCancel /\ AddFindsNoPending /\ PromotedIsUnregistered
Inv == TypeOK /\ Safe

\* What EntOK, FillOK and Placing ask of a move
Fits(t, l, e) ==
    /\ e \in Entries \cup {None} /\ e <= nEntries
    /\ l \in OnEntry => e # None
    /\ t = "fill" => pc[t] # "idle"
    /\ t = "signal" /\ l \in PlaceLabels \ {"newCheck"} => nEntries < MaxEntries
    /\ t = "signal" /\ l = "chaseCancel" => attempt' < MaxChase
Leads(t, l, e) ==
    /\ Moves(t, l, e) /\ Fits(t, l, e)
    /\ UNCHANGED <<fillP, nEntries>>
    /\ t # "signal" => UNCHANGED attempt

\* What the other invariants ask of a move that keeps the pending entry
Allowed(t, l, e) ==
    /\ Fits(t, l, e)
    /\ t = "signal" /\ l \in NewEntryLabels => pending = None
    /\ l \in Promoted => pending # e
Keeps(t, l, e) == pc[t] \in ResolvingLabels => l \in ResolvingLabels /\ e = ent[t]
-----------------------------------------------------------------------------
LEMMA Frames ==
    /\ MapsOK /\ UNCHANGED maps => MapsOK'
    /\ ExchangeOK /\ UNCHANGED exchange => ExchangeOK'
    /\ ControlOK /\ UNCHANGED <<pc, locals>> => ControlOK'
  BY DEF maps, exchange, locals, MapsOK, ExchangeOK, ControlOK

LEMMA ThreadNames == "signal" \in Threads /\ "fill" \in Threads /\ "monitor" \in Threads
  BY DEF Threads

LEMMA StopsAreLabels == Stops \subseteq Labels
  BY DEF Stops, Continuations, Labels, EmergencyLabels

LEMMA CancelTypes ==
    ASSUME ExchangeOK, NEW S
    PROVE  CancelRequested(S) \in [Orders -> [status : OrderStatus, exec : 0..OrderQty]]
  BY DEF CancelRequested, ExchangeOK, OrderStatus

LEMMA AcceptTypes == ExchangeOK /\ Accept => ExchangeOK' /\ nOrders + 1 \in Orders
  BY BoundsAssumption DEF Accept, ExchangeOK, OrderStatus, Orders

LEMMA PlaceFailsTypes == ExchangeOK /\ PlaceFails => ExchangeOK'
  BY AcceptTypes, Frames DEF PlaceFails
-----------------------------------------------------------------------------
(***************************************************************************)
(* The control operators move one goroutine and keep the types.            *)
(***************************************************************************)
LEMMA GoOnMoves ==
    ASSUME ControlOK, NEW t \in Threads, NEW l \in Labels, GoOn(t, l)
    PROVE  Moves(t, l, ent[t]) /\ ControlOK'
  BY DEF GoOn, Goto, Moves, ControlOK, locals

LEMMA SizeMoves ==
    ASSUME ControlOK, ExchangeOK, NEW t \in Threads, NEW l \in Labels, GoOnWithSize(t, l)
    PROVE  Moves(t, l, ent[t]) /\ ControlOK'
  BY DEF GoOnWithSize, Goto, Moves, ControlOK, ExchangeOK

LEMMA CallMoves ==
    ASSUME ControlOK, NEW t \in Threads, NEW l \in Labels,
           NEW e \in Entries \cup {None}, NEW r \in Continuations, Call(t, l, e, r)
    PROVE  Moves(t, l, e) /\ ControlOK'
  BY DEF Call, Goto, Moves, ControlOK

LEMMA ReturnMoves ==
    ASSUME ControlOK, NEW t \in Threads, Return(t)
    PROVE  ControlOK' /\ \E l \in Stops : Moves(t, l, None)
<1> DEFINE l == IF t \in trim THEN "trim" ELSE after[t]
<1>1. l \in Stops
  BY DEF Stops, ControlOK
<1>2. Moves(t, l, None)
  BY DEF Return, Goto, Moves
<1>3. ControlOK'
  BY <1>1, StopsAreLabels DEF Return, ControlOK, None, Goto
<1> QED
  BY <1>1, <1>2, <1>3
-----------------------------------------------------------------------------
(***************************************************************************)
(* What a move does to Safe                                                *)
(***************************************************************************)
LEMMA Leading ==
    ASSUME Inv, NEW t \in Threads, NEW l \in Labels, NEW e, Leads(t, l, e),
           pending' \in {pending, None}
    PROVE  EntOK' /\ FillOK' /\ Placing'
<1> USE DEF Inv, Safe, TypeOK, Leads, Fits
<1>1. EntOK'
  <2> SUFFICES ASSUME NEW u \in Threads
               PROVE  ent[u]' <= nEntries' /\ (pc[u]' \in OnEntry => ent[u]' # None)
    BY DEF EntOK
  <2>1. CASE u = t
    BY <2>1 DEF Moves, ControlOK
  <2>2. CASE u # t
    BY <2>2 DEF EntOK, Moves, ControlOK
  <2> QED
    BY <2>1, <2>2
<1>2. FillOK'
  BY ThreadNames DEF FillOK, Moves, ControlOK, MapsOK, None
<1>3. Placing'
  BY ThreadNames DEF Placing, Moves, ControlOK
<1> QED
  BY <1>1, <1>2, <1>3

LEMMA KeepsResolving ==
    ASSUME Inv, NEW t \in Threads, NEW l \in Labels, NEW e, Moves(t, l, e), Keeps(t, l, e),
           UNCHANGED <<pending, entries>>
    PROVE  NoStuckCancel'
  BY DEF Inv, Safe, TypeOK, NoStuckCancel, Resolving, Keeps, Moves, ControlOK,
         ResolvingLabels

LEMMA Onward ==
    ASSUME Inv, NEW t \in Threads, NEW l \in Labels, NEW e, Leads(t, l, e),
           Allowed(t, l, e), UNCHANGED pending, NoStuckCancel'
    PROVE  Safe'
<1> USE DEF Inv, Safe, TypeOK
<1>1. EntOK' /\ FillOK' /\ Placing'
  BY Leading
<1>2. AddFindsNoPending'
  BY ThreadNames DEF AddFindsNoPending, NewEntryLabels, Allowed, Leads, Moves, ControlOK
<1>3. PromotedIsUnregistered'
  BY DEF PromotedIsUnregistered, Allowed, Leads, Moves, ControlOK, Promoted
<1> QED
  BY <1>1, <1>2, <1>3

LEMMA Unregistering ==
    ASSUME Inv, NEW t \in Threads, NEW l \in Labels, NEW e, Leads(t, l, e), pending' = None
    PROVE  Safe'
<1>1. EntOK' /\ FillOK' /\ Placing'
  BY Leading
<1>2. NoStuckCancel' /\ AddFindsNoPending'
  BY DEF NoStuckCancel, AddFindsNoPending
<1>3. PromotedIsUnregistered'
  BY <1>1 DEF PromotedIsUnregistered, EntOK, OnEntry, Promoted
<1> QED
  BY <1>1, <1>2, <1>3 DEF Safe

\* The two ways in which most actions treat the pending entry
KeepsEntry(t, l, e) ==
    UNCHANGED <<pending, entries, nEntries>> /\ Allowed(t, l, e) /\ Keeps(t, l, e)
DropsEntry(t, l, e) == pending' = None /\ UNCHANGED nEntries /\ Fits(t, l, e)

LEMMA MoveSafe ==
    ASSUME Inv, NEW t \in Threads, NEW l \in Labels, NEW e, Moves(t, l, e),
           UNCHANGED fillP, t # "signal" => UNCHANGED attempt,
           KeepsEntry(t, l, e) \/ DropsEntry(t, l, e)
    PROVE  Safe'
<1>1. Leads(t, l, e)
  BY DEF Leads, KeepsEntry, DropsEntry, Allowed
<1>2. KeepsEntry(t, l, e) => Safe'
  BY <1>1, Onward, KeepsResolving DEF KeepsEntry
<1>3. DropsEntry(t, l, e) => Safe'
  BY <1>1, Unregistering DEF DropsEntry
<1> QED
  BY <1>2, <1>3

LEMMA GoOnSafe ==
    ASSUME Inv, NEW t \in Threads, NEW l \in Labels, GoOn(t, l) \/ GoOnWithSize(t, l),
           KeepsEntry(t, l, ent[t]) \/ DropsEntry(t, l, ent[t])
    PROVE  ControlOK' /\ Safe'
<1>1. ControlOK' /\ Moves(t, l, ent[t])
  BY GoOnMoves, SizeMoves DEF Inv, TypeOK
<1>2. UNCHANGED <<fillP, attempt>>
  BY DEF GoOn, GoOnWithSize, locals
<1> QED
  BY <1>1, <1>2, MoveSafe

LEMMA CallSafe ==
    ASSUME Inv, NEW t \in Threads, NEW l \in Labels, NEW e \in Entries \cup {None},
           NEW r \in Continuations, Call(t, l, e, r),
           KeepsEntry(t, l, e) \/ DropsEntry(t, l, e)
    PROVE  ControlOK' /\ Safe'
<1>1. ControlOK' /\ Moves(t, l, e)
  BY CallMoves DEF Inv, TypeOK
<1>2. UNCHANGED <<fillP, attempt>>
  BY DEF Call
<1> QED
  BY <1>1, <1>2, MoveSafe

LEMMA ReturnLeads ==
    ASSUME Inv, NEW t \in Threads, Return(t), t = "fill" => pc[t] # "idle",
           UNCHANGED nEntries
    PROVE  ControlOK' /\ \E l \in Labels : /\ Leads(t, l, None)
                                           /\ Allowed(t, l, None)
                                           /\ l \notin ResolvingLabels
<1>1. PICK l \in Stops : Moves(t, l, None)
  BY ReturnMoves DEF Inv, TypeOK
<1>2. l \notin OnEntry /\ l \notin NewEntryLabels
  BY DEF Stops, Continuations, OnEntry, Promoted, ResolvingLabels, CancelLabels,
         RepriceLabels, PlaceLabels, NewEntryLabels
<1>3. Fits(t, l, None)
  BY <1>2 DEF Fits, Inv, TypeOK, MapsOK, None, NewEntryLabels, PlaceLabels
<1>4. UNCHANGED <<fillP, attempt>>
  BY DEF Return
<1>5. Leads(t, l, None) /\ Allowed(t, l, None) /\ l \notin ResolvingLabels
  BY <1>1, <1>2, <1>3, <1>4 DEF Leads, Allowed, OnEntry
<1>6. ControlOK'
  BY ReturnMoves DEF Inv, TypeOK
<1> QED
  BY <1>5, <1>6, StopsAreLabels

LEMMA ReturnSafe ==
    ASSUME Inv, NEW t \in Threads, Return(t), t = "fill" => pc[t] # "idle",
           \/ UNCHANGED <<pending, entries, nEntries>> /\ pc[t] \notin ResolvingLabels
           \/ pending' = None /\ UNCHANGED nEntries
    PROVE  ControlOK' /\ Safe'
<1>1. ControlOK'
  BY ReturnLeads
<1>2. PICK l \in Labels : Leads(t, l, None) /\ Allowed(t, l, None)
  BY ReturnLeads
<1> QED
  BY <1>1, <1>2, Onward, Unregistering, KeepsResolving DEF Leads, Keeps
-----------------------------------------------------------------------------
(***************************************************************************)
(* The operators and actions that need more than the lemmas above          *)
(***************************************************************************)
LEMMA ClaimSafe ==
    ASSUME Inv, NEW t \in Threads, NEW f \in {"posPoll", "release", "drop"},
           pc[t] \in {"begin", "beginReprice"}, Claim(t, f)
    PROVE  ControlOK' /\ Safe'
<1>1. ent[t] \in Entries /\ ent[t] <= nEntries
  BY DEF Inv, Safe, EntOK, OnEntry, TypeOK, ControlOK
<1>2. CASE pending = ent[t] /\ entries[ent[t]].state = "active"
  <2>1. /\ entries' = [entries EXCEPT ![ent[t]].state = "cancelling"]
        /\ Goto(t, "cancel")
        /\ ord' = [ord EXCEPT ![t] = entries[ent[t]].order]
        /\ onFail' = [onFail EXCEPT ![t] = f]
        /\ UNCHANGED <<pending, nEntries, ent, qty, after, trim, ghost, fillP, attempt>>
    BY <1>2 DEF Claim
  <2>2. Moves(t, "cancel", ent[t])
    BY <2>1 DEF Moves, Goto, Inv, TypeOK, ControlOK
  <2>3. "cancel" \in Labels /\ "cancel" \in CancelLabels
    BY DEF Labels, CancelLabels
  <2>4. Leads(t, "cancel", ent[t]) /\ Allowed(t, "cancel", ent[t])
    BY <1>1, <2>1, <2>2
       DEF Leads, Allowed, Fits, PlaceLabels, NewEntryLabels, Promoted, None, Entries
  <2>5. NoStuckCancel'
    BY <1>2, <2>1, <2>2, <2>3
       DEF NoStuckCancel, Resolving, Moves, Inv, TypeOK, ControlOK
  <2>6. ControlOK'
    BY <1>1, <2>1, <2>3 DEF ControlOK, Goto, Inv, TypeOK, MapsOK
  <2> QED
    BY <2>1, <2>3, <2>4, <2>5, <2>6, Onward
<1>3. CASE ~(pending = ent[t] /\ entries[ent[t]].state = "active")
  <2>1. Return(t) /\ UNCHANGED maps
    BY <1>3 DEF Claim
  <2>2. pc[t] \notin ResolvingLabels
    BY DEF ResolvingLabels, CancelLabels, RepriceLabels
  <2> QED
    BY <2>1, <2>2, ReturnSafe DEF maps
<1> QED
  BY <1>2, <1>3

LEMMA ReleaseSafe ==
    ASSUME Inv, NEW t \in Threads, Release(t)
    PROVE  ControlOK' /\ Safe'
<1>1. Return(t) /\ pc[t] = "release" /\ UNCHANGED <<pending, nEntries>>
  BY DEF Release
<1>2. ent[t] \in Entries
  BY <1>1
     DEF Inv, Safe, EntOK, OnEntry, ResolvingLabels, CancelLabels, TypeOK, ControlOK
<1>3. PICK l \in Labels : Leads(t, l, None) /\ Allowed(t, l, None)
  BY <1>1, ReturnLeads
<1>4. NoStuckCancel'
  <2>1. CASE EntryIsCancelling(ent[t])
    BY <1>1, <1>2, <2>1
       DEF EntryIsCancelling, Release, NoStuckCancel, Inv, TypeOK, MapsOK
  <2>2. CASE ~EntryIsCancelling(ent[t])
    <3>1. entries' = entries
      BY <2>2 DEF Release
    <3>2. SUFFICES ASSUME pending # None, entries[pending].state = "cancelling"
                   PROVE  \E u \in Threads : Resolving(u, pending)'
      BY <1>1, <3>1 DEF NoStuckCancel
    <3>3. PICK u \in Threads : Resolving(u, pending)
      BY <3>2 DEF NoStuckCancel, Inv, Safe
    <3>4. u # t
      BY <2>2, <3>2, <3>3 DEF Resolving, EntryIsCancelling
    <3>5. Resolving(u, pending)'
      BY <1>1, <1>3, <3>3, <3>4 DEF Resolving, Leads, Moves, Inv, TypeOK, ControlOK
    <3> QED
      BY <3>5
  <2> QED
    BY <2>1, <2>2
<1> QED
  BY <1>1, <1>3, <1>4, ReturnLeads, Onward

LEMMA InstallSafe ==
    ASSUME Inv, NEW t \in Threads, Install(t)
    PROVE  ControlOK' /\ Safe'
<1>1. pc[t] = "install" /\ UNCHANGED <<pending, nEntries>>
  BY DEF Install
<1>2. ent[t] \in Entries /\ ent[t] <= nEntries
  BY <1>1
     DEF Inv, Safe, EntOK, OnEntry, ResolvingLabels, RepriceLabels, TypeOK, ControlOK
<1>3. CASE pending = ent[t]
  <2>1. GoOn(t, "release") /\ entries'[pending].state = "active"
    BY <1>2, <1>3 DEF Install, Inv, TypeOK, MapsOK
  <2>2. NoStuckCancel'
    BY <1>1, <2>1 DEF NoStuckCancel
  <2>3. "release" \in Labels
    BY DEF Labels, CancelLabels
  <2>4. ControlOK' /\ Moves(t, "release", ent[t]) /\ UNCHANGED <<fillP, attempt>>
    BY <2>1, <2>3, GoOnMoves DEF Inv, TypeOK, GoOn, locals
  <2>5. Allowed(t, "release", ent[t])
    BY <1>1, <1>2
       DEF Allowed, Fits, PlaceLabels, NewEntryLabels, Promoted, None, Entries
  <2> QED
    BY <1>1, <2>2, <2>3, <2>4, <2>5, Onward DEF Leads, Allowed
<1>4. CASE pending # ent[t]
  <2>1. GoOn(t, "cancelNew") /\ UNCHANGED entries
    BY <1>4 DEF Install
  <2>2. KeepsEntry(t, "cancelNew", ent[t])
    BY <1>1, <1>2, <2>1
       DEF KeepsEntry, Allowed, Fits, Keeps, PlaceLabels, NewEntryLabels, Promoted,
           ResolvingLabels, RepriceLabels, None, Entries
  <2> QED
    BY <2>1, <2>2, GoOnSafe DEF Labels, RepriceLabels
<1> QED
  BY <1>3, <1>4

LEMMA SizeCheckSafe ==
    ASSUME Inv, NEW t \in Threads, NEW n \in Nat, SizeCheck(t, n),
           pc[t] \in {"sync", "sizeCheck"} \/ (t = "monitor" /\ pc[t] = "idle")
    PROVE  ControlOK' /\ Safe'
<1>1. pc[t] \notin ResolvingLabels
  BY DEF ResolvingLabels, CancelLabels, RepriceLabels
<1>2. CASE Oversized(n) /\ ~trimmed
  <2>1. /\ Goto(t, "emergency")
        /\ qty' = [qty EXCEPT ![t] = n]
        /\ UNCHANGED <<pending, entries, nEntries, ent, ord, onFail, after, trim,
                       ghost, fillP, attempt>>
    BY <1>2 DEF SizeCheck
  <2>2. Moves(t, "emergency", ent[t])
    BY <2>1 DEF Moves, Goto, Inv, TypeOK, ControlOK
  <2>3. KeepsEntry(t, "emergency", ent[t])
    BY <1>1, <2>1
       DEF KeepsEntry, Keeps, Allowed, Fits, Inv, Safe, EntOK, TypeOK, ControlOK,
           OnEntry,
           Promoted, NewEntryLabels, PlaceLabels, ResolvingLabels, CancelLabels, RepriceLabels
  <2>4. "emergency" \in Labels
    BY DEF Labels, EmergencyLabels
  <2>5. ControlOK'
    BY <2>1, <2>4 DEF ControlOK, Goto, Inv, TypeOK
  <2> QED
    BY <2>1, <2>2, <2>3, <2>4, <2>5, MoveSafe
<1>3. CASE ~(Oversized(n) /\ ~trimmed)
  BY <1>1, <1>3, ReturnSafe DEF SizeCheck, maps
<1> QED
  BY <1>2, <1>3
-----------------------------------------------------------------------------
(***************************************************************************)
(* Every action keeps the types of the control state, and Safe.            *)
(***************************************************************************)
LEMMA EntryStepSafe ==
    ASSUME Inv, NEW t \in Threads, EntryStep(t)
    PROVE  ControlOK' /\ Safe'
<1> USE ThreadNames DEF KeepsEntry, DropsEntry, Keeps, Allowed, Fits, Labels, CancelLabels,
        RepriceLabels, PromoteLabels, EmergencyLabels, CloseLabels, PlaceLabels,
        ResolvingLabels, Promoted, NewEntryLabels, OnEntry, Continuations
<1>1. CASE BeginCancel(t)
  BY <1>1, ClaimSafe DEF BeginCancel
<1>2. CASE BeginReprice(t)
  BY <1>2, ClaimSafe DEF BeginReprice
<1>3. CASE CancelEntryOrder(t)
  BY <1>3, GoOnSafe
     DEF CancelEntryOrder, CancelUnknown, maps, Inv, Safe, EntOK, TypeOK, ControlOK
<1>4. CASE PollEntryOrder(t)
  BY <1>4, GoOnSafe
     DEF PollEntryOrder, CancelUnknown, maps, Inv, Safe, EntOK, TypeOK, ControlOK
<1>5. CASE ClaimForPromotion(t)
  BY <1>5, GoOnSafe
     DEF ClaimForPromotion, maps, Inv, Safe, EntOK, TypeOK, ControlOK
<1>6. CASE ClaimedPosition(t)
  BY <1>6, GoOnSafe
     DEF ClaimedPosition, UnregisterAny, maps, Inv, Safe, EntOK, TypeOK, ControlOK
<1>7. CASE PollPositionAfterCancel(t)
  BY <1>7, GoOnSafe
     DEF PollPositionAfterCancel, maps, Inv, Safe, EntOK, TypeOK, ControlOK
<1>8. CASE TryPromote(t)
  BY <1>8, GoOnSafe
     DEF TryPromote, maps, Inv, Safe, EntOK, TypeOK, ControlOK
<1>9. CASE DropEntry(t)
  BY <1>9, GoOnSafe
     DEF DropEntry, UnregisterAny, maps, Inv, Safe, EntOK, TypeOK, ControlOK
<1>10. CASE Release(t)
  BY <1>10, ReleaseSafe
<1>11. CASE Recheck(t)
  BY <1>11, GoOnSafe
     DEF Recheck, UnregisterAny, maps, Inv, Safe, EntOK, TypeOK, ControlOK
<1>12. CASE Replace(t)
  <2>1. PICK l \in {"install", "claim"} :
            /\ Goto(t, l)
            /\ ord' \in [Threads -> Orders \cup {None}]
            /\ onFail' \in [Threads -> {"posPoll", "release", "drop"}]
    BY <1>12, AcceptTypes DEF Replace, Inv, TypeOK, ControlOK
  <2>2. UNCHANGED <<pending, entries, nEntries, ent, qty, after, trim, ghost, fillP, attempt>>
    BY <1>12 DEF Replace, maps
  <2>3. Moves(t, l, ent[t])
    BY <2>1, <2>2 DEF Moves, Goto, Inv, TypeOK, ControlOK
  <2>4. KeepsEntry(t, l, ent[t])
    BY <1>12, <2>1, <2>2 DEF Replace, Inv, Safe, EntOK, TypeOK, ControlOK
  <2>5. ControlOK'
    BY <2>1, <2>2 DEF Inv, TypeOK, ControlOK, Goto
  <2> QED
    BY <2>1, <2>2, <2>3, <2>4, <2>5, MoveSafe
<1>13. CASE Install(t)
  BY <1>13, InstallSafe
<1>14. CASE CancelNew(t)
  BY <1>14, GoOnSafe
     DEF CancelNew, maps, Inv, Safe, EntOK, TypeOK, ControlOK
<1> QED
  BY <1>1, <1>2, <1>3, <1>4, <1>5, <1>6, <1>7, <1>8, <1>9, <1>10, <1>11, <1>12, <1>13,
     <1>14
     DEF EntryStep

LEMMA PositionStepSafe ==
    ASSUME Inv, NEW t \in Threads, PositionStep(t)
    PROVE  ControlOK' /\ Safe'
<1> USE ThreadNames DEF KeepsEntry, DropsEntry, Keeps, Allowed, Fits, Labels, CancelLabels,
        RepriceLabels, PromoteLabels, EmergencyLabels, CloseLabels, PlaceLabels,
        ResolvingLabels, Promoted, NewEntryLabels, OnEntry, Continuations
<1>1. CASE EnterPromote(t)
  BY <1>1, GoOnSafe
     DEF EnterPromote, UnregisterAny, maps, Inv, Safe, EntOK, TypeOK, ControlOK
<1>2. CASE SyncActive(t)
  BY <1>2, SizeCheckSafe, ReturnSafe
     DEF SyncActive, maps, Inv, TypeOK, ControlOK, ExchangeOK
<1>3. CASE CancelLeftover(t)
  BY <1>3, GoOnSafe
     DEF CancelLeftover, maps, Inv, Safe, EntOK, PromotedIsUnregistered, TypeOK,
         ControlOK
<1>4. CASE Reread(t)
  BY <1>4, GoOnSafe
     DEF Reread, maps, Inv, Safe, EntOK, PromotedIsUnregistered, TypeOK, ControlOK
<1>5. CASE Verify(t)
  BY <1>5, GoOnSafe
     DEF Verify, maps, Inv, Safe, EntOK, PromotedIsUnregistered, TypeOK, ControlOK
<1>6. CASE RegisterPosition(t)
  BY <1>6, GoOnSafe, ReturnSafe
     DEF RegisterPosition, maps, Inv, Safe, EntOK, PromotedIsUnregistered, TypeOK,
         ControlOK
<1>7. CASE CheckNewPosition(t)
  BY <1>7, SizeCheckSafe, ReturnSafe
     DEF CheckNewPosition, maps, Inv, TypeOK, ControlOK, ExchangeOK
<1>8. CASE Emergency(t)
  <2>1. CASE pending = None
    BY <1>8, <2>1, GoOnSafe DEF Emergency, maps, Inv, Safe, EntOK, TypeOK, ControlOK
  <2>2. CASE pending # None
    <3>1. /\ Goto(t, "begin")
          /\ ent' = [ent EXCEPT ![t] = pending]
          /\ trim' = trim \cup {t}
          /\ UNCHANGED <<pending, entries, nEntries, ord, qty, onFail, after, ghost,
                         fillP, attempt>>
      BY <1>8, <2>2 DEF Emergency, maps
    <3>2. Moves(t, "begin", pending)
      BY <3>1 DEF Moves, Goto
    <3>3. KeepsEntry(t, "begin", pending)
      BY <1>8, <2>2, <3>1 DEF Emergency, Inv, Safe, FillOK, TypeOK, MapsOK
    <3>4. ControlOK'
      BY <3>1 DEF ControlOK, Goto, Inv, TypeOK, MapsOK
    <3> QED
      BY <3>1, <3>2, <3>3, <3>4, MoveSafe
  <2> QED
    BY <2>1, <2>2
<1>9. CASE TrimExcess(t)
  <2>1. /\ pc[t] = "trim"
        /\ Goto(t, after[t])
        /\ ent' = [ent EXCEPT ![t] = None]
        /\ ord' = [ord EXCEPT ![t] = None]
        /\ qty' = [qty EXCEPT ![t] = 0]
        /\ trim' = trim \ {t}
        /\ UNCHANGED <<pending, entries, nEntries, onFail, after, ghost, fillP,
                       attempt>>
    BY <1>9 DEF TrimExcess, maps
  <2>2. after[t] \in Continuations /\ after[t] \in Labels
    BY DEF Inv, TypeOK, ControlOK
  <2>3. Moves(t, after[t], None)
    BY <2>1 DEF Moves, Goto
  <2>4. KeepsEntry(t, after[t], None)
    BY <2>1, <2>2 DEF Inv, TypeOK, MapsOK, None
  <2>5. ControlOK'
    BY <2>1, <2>2 DEF ControlOK, Goto, Inv, TypeOK, None
  <2> QED
    BY <2>1, <2>2, <2>3, <2>4, <2>5, MoveSafe
<1>10. CASE Adopt(t)
  BY <1>10, GoOnSafe, ReturnSafe
     DEF Adopt, maps, Inv, Safe, EntOK, TypeOK, ControlOK
<1>11. CASE DeployAdopted(t)
  BY <1>11, GoOnSafe, ReturnSafe
     DEF DeployAdopted, maps, Inv, Safe, EntOK, TypeOK, ControlOK
<1>12. CASE Flatten(t)
  BY <1>12, GoOnSafe, ReturnSafe
     DEF Flatten, maps, Inv, Safe, EntOK, TypeOK, ControlOK
<1>13. CASE DropPending(t)
  <2>1. Call(t, "cancelAll", pending, after[t]) /\ UnregisterAny /\ pc[t] = "dropPending"
    BY <1>13 DEF DropPending
  <2>2. pending \in Entries \cup {None} /\ after[t] \in Continuations
    BY DEF Inv, TypeOK, MapsOK, ControlOK
  <2>3. DropsEntry(t, "cancelAll", pending)
    BY <2>1, <2>2 DEF UnregisterAny, Inv, Safe, FillOK
  <2> QED
    BY <2>1, <2>2, <2>3, CallSafe
<1>14. CASE CancelAll(t)
  BY <1>14, GoOnSafe
     DEF CancelAll, maps, Inv, Safe, EntOK, TypeOK, ControlOK
<1>15. CASE DeletePosition(t)
  BY <1>15, GoOnSafe, ReturnSafe
     DEF DeletePosition, maps, Inv, Safe, EntOK, TypeOK, ControlOK
<1>16. CASE GhostDelete(t)
  BY <1>16, ReturnSafe
     DEF GhostDelete, maps, Inv, Safe, EntOK, TypeOK, ControlOK
<1> QED
  BY <1>1, <1>2, <1>3, <1>4, <1>5, <1>6, <1>7, <1>8, <1>9, <1>10, <1>11, <1>12, <1>13,
     <1>14, <1>15, <1>16
     DEF PositionStep

LEMMA FillLoopSafe ==
    ASSUME Inv, FillLoop
    PROVE  ControlOK' /\ Safe'
<1> USE ThreadNames DEF KeepsEntry, DropsEntry, Keeps, Allowed, Fits, Labels, CancelLabels,
        RepriceLabels, PromoteLabels, EmergencyLabels, CloseLabels, PlaceLabels,
        ResolvingLabels, Promoted, NewEntryLabels, OnEntry, Continuations
<1>1. CASE FillTick
  <2>1. /\ pc' = [pc EXCEPT !["fill"] = "check"]
        /\ fillP' = pending /\ pending # None
        /\ UNCHANGED <<pending, entries, nEntries, ent, ord, qty, onFail, after, trim,
                       ghost, attempt>>
        /\ pc["fill"] = "idle"
    BY <1>1 DEF FillTick, Goto, maps
  <2>2. ControlOK'
    BY <2>1 DEF Inv, TypeOK, MapsOK, ControlOK
  <2>3. EntOK' /\ FillOK' /\ Placing'
    BY <2>1 DEF EntOK, FillOK, Placing, Inv, Safe, TypeOK, ControlOK
  <2>4. NoStuckCancel' /\ AddFindsNoPending' /\ PromotedIsUnregistered'
    BY <2>1 DEF NoStuckCancel, Resolving, AddFindsNoPending, PromotedIsUnregistered,
                Inv, Safe, TypeOK, ControlOK
  <2> QED
    BY <2>2, <2>3, <2>4 DEF Safe
<1>2. CASE FillCheck
  BY <1>2, CallSafe, GoOnSafe
     DEF FillCheck, maps, Inv, Safe, EntOK, TypeOK, ControlOK, MapsOK, FillOK, Placing,
         AddFindsNoPending
<1>3. CASE FillStatus
  BY <1>3, CallSafe, GoOnSafe
     DEF FillStatus, maps, Inv, Safe, EntOK, TypeOK, ControlOK, MapsOK, FillOK,
         Placing, AddFindsNoPending
<1>4. CASE FinalCancel
  BY <1>4, GoOnSafe
     DEF FinalCancel, maps, Inv, Safe, EntOK, TypeOK, ControlOK, MapsOK, FillOK,
         Placing, AddFindsNoPending
<1>5. CASE FinalGet
  BY <1>5, GoOnSafe, ReturnSafe
     DEF FinalGet, UnregisterAny, maps, Inv, Safe, EntOK, TypeOK, ControlOK, MapsOK,
         FillOK, Placing, AddFindsNoPending
<1> QED
  BY <1>1, <1>2, <1>3, <1>4, <1>5 DEF FillLoop

LEMMA SignalSafe ==
    ASSUME Inv, SignalHandler \/ ReceiveAbort \/ ReceiveSignal
    PROVE  ControlOK' /\ Safe'
<1> USE ThreadNames DEF KeepsEntry, DropsEntry, Keeps, Allowed, Fits, Labels, CancelLabels,
        RepriceLabels, PromoteLabels, EmergencyLabels, CloseLabels, PlaceLabels,
        ResolvingLabels, Promoted, NewEntryLabels, OnEntry, Continuations
<1>1. CASE Reconcile
  BY <1>1, CallSafe, GoOnSafe
     DEF Reconcile, maps, Inv, Safe, EntOK, TypeOK, ControlOK, MapsOK, FillOK, Placing,
         AddFindsNoPending
<1>2. CASE Guard
  BY <1>2, GoOnSafe
     DEF Guard, maps, Inv, Safe, EntOK, TypeOK, ControlOK, MapsOK, FillOK, Placing,
         AddFindsNoPending
<1>3. CASE Lookup
  BY <1>3, CallSafe, GoOnSafe
     DEF Lookup, maps, Inv, Safe, EntOK, TypeOK, ControlOK, MapsOK, FillOK, Placing,
         AddFindsNoPending
<1>4. CASE CheckNewEntry
  <2>1. CASE GoOn("signal", "idle")
    BY <1>4, <2>1, GoOnSafe DEF CheckNewEntry, maps, Inv, Safe, EntOK, TypeOK, ControlOK
  <2>2. CASE ~GoOn("signal", "idle")
    <3>1. PICK l \in {"market", "chase"} :
              /\ Goto("signal", l)
              /\ ord' \in [Threads -> Orders \cup {None}]
              /\ attempt' \in 0..MaxChase
              /\ UNCHANGED <<pending, entries, nEntries, ent, qty, onFail, after, trim,
                             ghost, fillP>>
      BY <1>4, <2>2, AcceptTypes, BoundsAssumption
         DEF CheckNewEntry, maps, Inv, Safe, Placing, TypeOK, ControlOK
    <3>2. Moves("signal", l, ent["signal"])
      BY <3>1 DEF Moves, Goto, Inv, TypeOK, ControlOK
    <3>3. KeepsEntry("signal", l, ent["signal"])
      BY <1>4, <2>2, <3>1
         DEF CheckNewEntry, Inv, Safe, EntOK, Placing, AddFindsNoPending, TypeOK,
             ControlOK
    <3>4. ControlOK'
      BY <3>1 DEF Inv, TypeOK, ControlOK, Goto
    <3> QED
      BY <3>1, <3>2, <3>3, <3>4, MoveSafe
  <2> QED
    BY <2>1, <2>2
<1>5. CASE MarketTake
  <2>1. PICK l \in {"add", "chase"} :
            /\ Goto("signal", l)
            /\ ord' \in [Threads -> Orders \cup {None}]
            /\ attempt' \in 0..MaxChase
            /\ UNCHANGED <<pending, entries, nEntries, ent, qty, onFail, after, trim,
                           ghost, fillP>>
    BY <1>5, AcceptTypes, BoundsAssumption
       DEF MarketTake, maps, Inv, Safe, Placing, TypeOK, ControlOK
  <2>2. Moves("signal", l, ent["signal"])
    BY <2>1 DEF Moves, Goto, Inv, TypeOK, ControlOK
  <2>3. KeepsEntry("signal", l, ent["signal"])
    BY <1>5, <2>1
       DEF MarketTake, Inv, Safe, EntOK, Placing, AddFindsNoPending, TypeOK, ControlOK
  <2>4. ControlOK'
    BY <2>1 DEF Inv, TypeOK, ControlOK, Goto
  <2> QED
    BY <2>1, <2>2, <2>3, <2>4, MoveSafe
<1>6. CASE ChasePlace
  <2>1. PICK l \in {"chasePoll", "idle"} :
            /\ Goto("signal", l)
            /\ ord' \in [Threads -> Orders \cup {None}]
            /\ attempt' \in 0..MaxChase
            /\ UNCHANGED <<pending, entries, nEntries, ent, qty, onFail, after, trim,
                           ghost, fillP>>
    BY <1>6, AcceptTypes, BoundsAssumption
       DEF ChasePlace, maps, Inv, Safe, Placing, TypeOK, ControlOK
  <2>2. Moves("signal", l, ent["signal"])
    BY <2>1 DEF Moves, Goto, Inv, TypeOK, ControlOK
  <2>3. KeepsEntry("signal", l, ent["signal"])
    BY <1>6, <2>1
       DEF ChasePlace, Inv, Safe, EntOK, Placing, AddFindsNoPending, TypeOK, ControlOK
  <2>4. ControlOK'
    BY <2>1 DEF Inv, TypeOK, ControlOK, Goto
  <2> QED
    BY <2>1, <2>2, <2>3, <2>4, MoveSafe
<1>7. CASE ChasePoll
  <2>1. UNCHANGED <<pending, entries, nEntries, attempt>> /\ pc["signal"] = "chasePoll"
    BY <1>7 DEF ChasePoll, maps, GoOn, locals
  <2>2. PICK l \in {"add", "chaseCancel"} :
            GoOn("signal", l) /\ (l = "chaseCancel" => attempt < MaxChase)
    BY <1>7 DEF ChasePoll
  <2> QED
    BY <2>1, <2>2, GoOnSafe
       DEF Inv, Safe, EntOK, Placing, AddFindsNoPending, TypeOK, ControlOK
<1>8. CASE ChaseCancel
  <2>1. PICK l \in {"chase"} :
            /\ Goto("signal", l)
            /\ ord' \in [Threads -> Orders \cup {None}]
            /\ attempt' \in 0..MaxChase
            /\ UNCHANGED <<pending, entries, nEntries, ent, qty, onFail, after, trim,
                           ghost, fillP>>
    BY <1>8, AcceptTypes, BoundsAssumption
       DEF ChaseCancel, maps, Inv, Safe, Placing, TypeOK, ControlOK
  <2>2. Moves("signal", l, ent["signal"])
    BY <2>1 DEF Moves, Goto, Inv, TypeOK, ControlOK
  <2>3. KeepsEntry("signal", l, ent["signal"])
    BY <1>8, <2>1
       DEF ChaseCancel, Inv, Safe, EntOK, Placing, AddFindsNoPending, TypeOK, ControlOK
  <2>4. ControlOK'
    BY <2>1 DEF Inv, TypeOK, ControlOK, Goto
  <2> QED
    BY <2>1, <2>2, <2>3, <2>4, MoveSafe
<1>9. CASE AddPending
  <2>1. /\ pc' = [pc EXCEPT !["signal"] = "idle"]
        /\ pc["signal"] = "add"
        /\ nEntries' = nEntries + 1 /\ pending' = nEntries + 1
        /\ ord' = [ord EXCEPT !["signal"] = None] /\ attempt' = 0
        /\ UNCHANGED <<ent, qty, onFail, after, trim, ghost, fillP>>
    BY <1>9 DEF AddPending, Goto
  <2>2. nEntries + 1 \in Entries /\ entries'[nEntries + 1].state = "active"
    BY <1>9, <2>1, BoundsAssumption
       DEF AddPending, Inv, Safe, Placing, TypeOK, MapsOK, ControlOK, Entries
  <2>3. ControlOK'
    BY <2>1, BoundsAssumption DEF Inv, TypeOK, ControlOK, None
  <2>4. EntOK' /\ FillOK' /\ Placing'
    BY <2>1, <2>2
       DEF EntOK, FillOK, Placing, Inv, Safe, TypeOK, MapsOK, ControlOK, Entries, None
  <2>5. NoStuckCancel' /\ AddFindsNoPending'
    BY <2>1, <2>2 DEF NoStuckCancel, AddFindsNoPending, Inv, TypeOK, ControlOK
  <2>6. PromotedIsUnregistered'
    BY <2>1
       DEF PromotedIsUnregistered, Inv, Safe, EntOK, TypeOK, MapsOK, ControlOK,
           Entries, None
  <2> QED
    BY <2>3, <2>4, <2>5, <2>6 DEF Safe
<1>10. CASE ReceiveAbort
  BY <1>10, CallSafe
     DEF ReceiveAbort, maps, Inv, Safe, EntOK, TypeOK, ControlOK, MapsOK, FillOK,
         Placing, AddFindsNoPending
<1>11. CASE ReceiveSignal
  BY <1>11, GoOnSafe
     DEF ReceiveSignal, maps, Inv, Safe, EntOK, TypeOK, ControlOK, MapsOK, FillOK,
         Placing, AddFindsNoPending
<1> QED
  BY <1>1, <1>2, <1>3, <1>4, <1>5, <1>6, <1>7, <1>8, <1>9, <1>10, <1>11
     DEF SignalHandler

LEMMA MonitorSafe ==
    ASSUME Inv, MonitorLoop
    PROVE  ControlOK' /\ Safe'
<1> USE ThreadNames DEF KeepsEntry, DropsEntry, Keeps, Allowed, Fits, Labels, CancelLabels,
        RepriceLabels, PromoteLabels, EmergencyLabels, CloseLabels, PlaceLabels,
        ResolvingLabels, Promoted, NewEntryLabels, OnEntry, Continuations
<1>1. CASE OrphanScan
  BY <1>1, GoOnSafe
     DEF OrphanScan, maps, Inv, Safe, EntOK, TypeOK, ControlOK, MapsOK, FillOK,
         Placing, AddFindsNoPending
<1>2. CASE OrphanCheck
  BY <1>2, CallSafe, GoOnSafe
     DEF OrphanCheck, maps, Inv, Safe, EntOK, TypeOK, ControlOK, MapsOK, FillOK,
         Placing, AddFindsNoPending
<1>3. CASE Evaluate
  <2>1. CASE SizeCheck("monitor", exSize)
    BY <1>3, <2>1, SizeCheckSafe DEF Evaluate, Inv, TypeOK, ExchangeOK
  <2>2. CASE ~SizeCheck("monitor", exSize)
    <3>1. /\ Goto("monitor", "flatten") /\ ghost' \in BOOLEAN
          /\ UNCHANGED <<pending, entries, nEntries, ent, ord, qty, onFail, after,
                         trim, fillP, attempt>>
      BY <1>3, <2>2 DEF Evaluate, maps
    <3>2. Moves("monitor", "flatten", ent["monitor"])
      BY <3>1 DEF Moves, Goto, Inv, TypeOK, ControlOK
    <3>3. KeepsEntry("monitor", "flatten", ent["monitor"])
      BY <1>3, <3>1 DEF Evaluate, Inv, Safe, EntOK, TypeOK, ControlOK
    <3>4. ControlOK'
      BY <3>1 DEF Inv, TypeOK, ControlOK, Goto
    <3> QED
      BY <3>1, <3>2, <3>3, <3>4, MoveSafe
  <2> QED
    BY <2>1, <2>2
<1> QED
  BY <1>1, <1>2, <1>3 DEF MonitorLoop
-----------------------------------------------------------------------------
LEMMA ExchangeSafe ==
    ASSUME Inv, ExchangeStep \/ CooldownExpires \/ UNCHANGED vars
    PROVE  ControlOK' /\ Safe'
<1>1. UNCHANGED <<pending, entries, nEntries, pc, locals>>
  BY DEF ExchangeStep, ExchangeFill, ExchangeCancel, ExchangeReject, ExchangeExit,
         CooldownExpires, vars, maps
<1>2. ControlOK'
  BY <1>1, Frames DEF Inv, TypeOK
<1>3. EntOK' /\ FillOK' /\ Placing'
  BY <1>1 DEF locals, EntOK, FillOK, Placing, Inv, Safe
<1>4. NoStuckCancel' /\ AddFindsNoPending' /\ PromotedIsUnregistered'
  BY <1>1
     DEF locals, NoStuckCancel, Resolving, AddFindsNoPending, PromotedIsUnregistered,
              Inv, Safe
<1> QED
  BY <1>2, <1>3, <1>4 DEF Safe

LEMMA ControlStep == Inv /\ [Next]_vars => ControlOK' /\ Safe'
  BY EntryStepSafe, PositionStepSafe, FillLoopSafe, SignalSafe, MonitorSafe,
     ExchangeSafe
     DEF Next

(***************************************************************************)
(* The types of the maps and of the exchange                               *)
(***************************************************************************)
LEMMA ClaimMaps ==
    ASSUME Inv, NEW t \in Threads, NEW f, Claim(t, f)
    PROVE  MapsOK' /\ UNCHANGED exchange
  BY Frames DEF Claim, Inv, TypeOK, MapsOK, EntryState

LEMMA SizeCheckMaps ==
    ASSUME Inv, NEW t, NEW n, SizeCheck(t, n)
    PROVE  MapsOK'
  BY Frames DEF SizeCheck, Inv, TypeOK, MapsOK

LEMMA UnregisterMaps == Inv /\ UnregisterAny => MapsOK'
  BY DEF UnregisterAny, Inv, TypeOK, MapsOK

LEMMA EntryStepTypes ==
    ASSUME Inv, NEW t \in Threads, EntryStep(t)
    PROVE  MapsOK' /\ ExchangeOK'
<1> USE Frames, CancelTypes DEF Inv, TypeOK
<1>1. CASE BeginCancel(t) \/ BeginReprice(t)
  BY <1>1, ClaimMaps DEF BeginCancel, BeginReprice
<1>2. CASE CancelEntryOrder(t)
  BY <1>2 DEF CancelEntryOrder, ExchangeOK
<1>3. CASE PollEntryOrder(t) \/ PollPositionAfterCancel(t) \/ TryPromote(t)
  BY <1>3 DEF PollEntryOrder, PollPositionAfterCancel, TryPromote
<1>4. CASE ClaimForPromotion(t)
  BY <1>4 DEF ClaimForPromotion, MapsOK
<1>5. CASE ClaimedPosition(t) \/ DropEntry(t) \/ Recheck(t)
  BY <1>5, UnregisterMaps DEF ClaimedPosition, DropEntry, Recheck
<1>6. CASE Release(t)
  BY <1>6 DEF Release, MapsOK, EntryState
<1>7. CASE Replace(t)
  BY <1>7, AcceptTypes, PlaceFailsTypes DEF Replace
<1>8. CASE Install(t)
  <2>1. ord[t] \in Orders \cup {None}
    BY DEF ControlOK
  <2> QED
    BY <1>8, <2>1 DEF Install, MapsOK, EntryState
<1>9. CASE CancelNew(t)
  BY <1>9 DEF CancelNew, TryCancel, ExchangeOK
<1> QED
  BY <1>1, <1>2, <1>3, <1>4, <1>5, <1>6, <1>7, <1>8, <1>9 DEF EntryStep

LEMMA PositionStepTypes ==
    ASSUME Inv, NEW t \in Threads, PositionStep(t)
    PROVE  MapsOK' /\ ExchangeOK'
<1> USE Frames, CancelTypes DEF Inv, TypeOK
<1>1. CASE EnterPromote(t) \/ DropPending(t)
  BY <1>1, UnregisterMaps DEF EnterPromote, DropPending
<1>2. CASE SyncActive(t) \/ CheckNewPosition(t)
  BY <1>2, SizeCheckMaps DEF SyncActive, CheckNewPosition
<1>3. CASE CancelLeftover(t)
  BY <1>3 DEF CancelLeftover, TryCancel, ExchangeOK
<1>4. CASE Reread(t) \/ Verify(t) \/ Emergency(t) \/ DeployAdopted(t)
  BY <1>4 DEF Reread, Verify, Emergency, DeployAdopted
<1>5. CASE RegisterPosition(t) \/ Adopt(t) \/ DeletePosition(t) \/ GhostDelete(t)
  BY <1>5 DEF RegisterPosition, Adopt, DeletePosition, GhostDelete, MapsOK
<1>6. CASE TrimExcess(t)
  <2>1. qty[t] \in Nat /\ OrderQty \in Nat
    BY BoundsAssumption DEF ControlOK
  <2> QED
    BY <1>6, <2>1 DEF TrimExcess, Trimmed, ExchangeOK
<1>7. CASE Flatten(t)
  BY <1>7 DEF Flatten, ExchangeOK
<1>8. CASE CancelAll(t)
  BY <1>8 DEF CancelAll, ExchangeOK
<1> QED
  BY <1>1, <1>2, <1>3, <1>4, <1>5, <1>6, <1>7, <1>8 DEF PositionStep

LEMMA LoopTypes ==
    ASSUME Inv, FillLoop \/ ReceiveAbort \/ ReceiveSignal \/ SignalHandler \/ MonitorLoop
    PROVE  MapsOK' /\ ExchangeOK'
<1> USE Frames, CancelTypes, ThreadNames DEF Inv, TypeOK
<1>1. CASE FillLoop
  BY <1>1, UnregisterMaps
     DEF FillLoop, FillTick, FillCheck, FillStatus, FinalCancel, FinalGet, TryCancel,
         ExchangeOK
<1>2. CASE ReceiveAbort \/ ReceiveSignal \/ Reconcile \/ Guard \/ Lookup \/ ChasePoll
  BY <1>2 DEF ReceiveAbort, ReceiveSignal, Reconcile, Guard, Lookup, ChasePoll
<1>3. CASE CheckNewEntry
  BY <1>3 DEF CheckNewEntry
<1>4. CASE MarketTake \/ ChasePlace
  BY <1>4, AcceptTypes, PlaceFailsTypes DEF MarketTake, ChasePlace
<1>5. CASE ChaseCancel
  BY <1>5 DEF ChaseCancel, TryCancel, ExchangeOK
<1>6. CASE AddPending
  <2>1. nEntries + 1 \in Entries /\ nEntries + 1 \in 0..MaxEntries
    BY <1>6, BoundsAssumption
       DEF AddPending, Safe, Placing, PlaceLabels, MapsOK, Entries
  <2>2. ord["signal"] \in Orders \cup {None}
    BY DEF ControlOK
  <2> QED
    BY <1>6, <2>1, <2>2 DEF AddPending, MapsOK, EntryState
<1>7. CASE MonitorLoop
  BY <1>7, SizeCheckMaps DEF MonitorLoop, OrphanScan, OrphanCheck, Evaluate
<1> QED
  BY <1>1, <1>2, <1>3, <1>4, <1>5, <1>6, <1>7 DEF SignalHandler

LEMMA ExchangeTypes ==
    ASSUME Inv, ExchangeStep \/ CooldownExpires \/ UNCHANGED vars
    PROVE  MapsOK' /\ ExchangeOK'
<1> USE Frames DEF Inv, TypeOK
<1>1. CASE ExchangeFill
  <2>1. PICK o \in Orders : \E k \in 1..(OrderQty - orders[o].exec) :
            /\ orders' = [orders EXCEPT
                 ![o].exec = @ + k,
                 ![o].status = IF orders[o].exec + k = OrderQty THEN "filled" ELSE @]
            /\ exSize' = exSize + k
            /\ UNCHANGED <<maps, nOrders>>
    BY <1>1 DEF ExchangeFill
  <2>2. PICK k \in 1..(OrderQty - orders[o].exec) :
            /\ orders' = [orders EXCEPT
                 ![o].exec = @ + k,
                 ![o].status = IF orders[o].exec + k = OrderQty THEN "filled" ELSE @]
            /\ exSize' = exSize + k
            /\ UNCHANGED <<maps, nOrders>>
    BY <2>1
  <2>3. orders[o].exec \in 0..OrderQty /\ orders[o].exec + k \in 0..OrderQty
    BY BoundsAssumption DEF ExchangeOK
  <2> QED
    <3>1. (IF orders[o].exec + k = OrderQty THEN "filled" ELSE orders[o].status) \in OrderStatus
      BY DEF ExchangeOK, OrderStatus
    <3>2. orders' \in [Orders -> [status : OrderStatus, exec : 0..OrderQty]]
      BY <2>2, <2>3, <3>1 DEF ExchangeOK
    <3>3. exSize' \in Nat /\ UNCHANGED <<maps, nOrders>>
      BY <2>2 DEF ExchangeOK
    <3> QED
      BY <3>2, <3>3 DEF ExchangeOK
<1>2. CASE ExchangeCancel \/ ExchangeReject
  BY <1>2 DEF ExchangeCancel, ExchangeReject, ExchangeOK, OrderStatus
<1>3. CASE ExchangeExit
  BY <1>3 DEF ExchangeExit, ExchangeOK
<1>4. CASE CooldownExpires
  BY <1>4 DEF CooldownExpires, MapsOK
<1>5. CASE UNCHANGED vars
  BY <1>5 DEF vars
<1> QED
  BY <1>1, <1>2, <1>3, <1>4, <1>5 DEF ExchangeStep
-----------------------------------------------------------------------------
LEMMA InitInv == Init => Inv
<1> SUFFICES ASSUME Init PROVE Inv
  OBVIOUS
<1>1. MapsOK
  <2>1. /\ pending \in Entries \cup {None}
        /\ nEntries \in 0..MaxEntries
        /\ promoting \in {"absent", "true", "false"}
    BY BoundsAssumption DEF Init
  <2>2. entries \in [Entries -> [state : EntryState, order : Orders \cup {None}]]
    BY DEF Init, EntryState
  <2>3. tracked \in BOOLEAN /\ trimmed \in BOOLEAN /\ cooldown \in BOOLEAN
    BY Zenon DEF Init
  <2> QED
    BY <2>1, <2>2, <2>3 DEF MapsOK
<1>2. ExchangeOK
  BY BoundsAssumption DEF Init, ExchangeOK, OrderStatus
<1>5. ControlOK
  <2>1. pc \in [Threads -> Labels] /\ onFail \in [Threads -> {"posPoll", "release", "drop"}]
    BY DEF Init, Labels
  <2>2. after \in [Threads -> Continuations] /\ trim \subseteq Threads /\ ghost \in BOOLEAN
    BY DEF Init, Continuations
  <2>3. /\ ent \in [Threads -> Entries \cup {None}]
        /\ ord \in [Threads -> Orders \cup {None}]
        /\ qty \in [Threads -> Nat]
        /\ fillP \in Entries \cup {None}
    BY DEF Init
  <2>4. attempt \in 0..MaxChase
    BY BoundsAssumption DEF Init
  <2> QED
    BY <2>1, <2>2, <2>3, <2>4 DEF ControlOK
<1>3. EntOK /\ FillOK /\ Placing
  BY ThreadNames
     DEF Init, EntOK, FillOK, Placing, OnEntry, ResolvingLabels, CancelLabels,
         RepriceLabels, Promoted, PlaceLabels, None
<1>4. NoStuckCancel /\ AddFindsNoPending /\ PromotedIsUnregistered
  BY ThreadNames
     DEF Init, NoStuckCancel, AddFindsNoPending, PromotedIsUnregistered, PlaceLabels
<1> QED
  BY <1>1, <1>2, <1>3, <1>4, <1>5 DEF Inv, TypeOK, Safe

LEMMA StepInv == Inv /\ [Next]_vars => Inv'
<1> SUFFICES ASSUME Inv, [Next]_vars PROVE Inv'
  OBVIOUS
<1>1. ControlOK' /\ Safe'
  BY ControlStep
<1>2. MapsOK' /\ ExchangeOK'
  BY EntryStepTypes, PositionStepTypes, LoopTypes, ExchangeTypes DEF Next
<1> QED
  BY <1>1, <1>2 DEF Inv, TypeOK

LEMMA Invariance == Spec => []Inv
  BY InitInv, StepInv, PTL DEF Spec

\* The variables of EntryLifecycle keep their types.
THEOREM TypeCorrect == Spec => []TypeOK
  BY Invariance, PTL DEF Inv

\* No interleaving leaves a registered entry marked Cancelling with nobody to
\* unmark or unregister it (beginPendingEntryCancel and its deferred release).
THEOREM CancelNeverStuck == Spec => []NoStuckCancel
<1>1. Inv => NoStuckCancel
  BY DEF Inv, Safe
<1> QED
  BY <1>1, Invariance, PTL

\* placeNewEntry never registers its entry over another one.
THEOREM AddNeverOverwrites == Spec => []AddFindsNoPending
<1>1. Inv => AddFindsNoPending
  BY DEF Inv, Safe
<1> QED
  BY <1>1, Invariance, PTL

\* An entry under promotion is out of the pending map for good.
THEOREM PromotionUnregisters == Spec => []PromotedIsUnregistered
<1>1. Inv => PromotedIsUnregistered
  BY DEF Inv, Safe
<1> QED
  BY <1>1, Invariance, PTL
-----------------------------------------------------------------------------
(***************************************************************************)
(* The pending map implements PendingSlot.                                 *)
(***************************************************************************)
OnlyLeaves == pending' \in {pending, None} /\ UNCHANGED nEntries

LEMMA EntryStepLeaves ==
    ASSUME NEW t, EntryStep(t)
    PROVE  OnlyLeaves
<1> USE DEF OnlyLeaves, maps
<1>1. CASE BeginCancel(t) \/ BeginReprice(t)
  BY <1>1 DEF BeginCancel, BeginReprice, Claim
<1>2. CASE CancelEntryOrder(t) \/ PollEntryOrder(t) \/ PollPositionAfterCancel(t) \/ TryPromote(t)
  BY <1>2 DEF CancelEntryOrder, PollEntryOrder, PollPositionAfterCancel, TryPromote
<1>3. CASE ClaimForPromotion(t) \/ ClaimedPosition(t) \/ DropEntry(t) \/ Recheck(t)
  BY <1>3 DEF ClaimForPromotion, ClaimedPosition, DropEntry, Recheck, UnregisterAny
<1>4. CASE Release(t) \/ Replace(t) \/ Install(t) \/ CancelNew(t)
  BY <1>4 DEF Release, Replace, Install, CancelNew
<1> QED
  BY <1>1, <1>2, <1>3, <1>4 DEF EntryStep

LEMMA PositionStepLeaves ==
    ASSUME NEW t, PositionStep(t)
    PROVE  OnlyLeaves
<1> USE DEF OnlyLeaves, maps
<1>1. CASE EnterPromote(t) \/ DropPending(t)
  BY <1>1 DEF EnterPromote, DropPending, UnregisterAny
<1>2. CASE SyncActive(t) \/ CheckNewPosition(t)
  BY <1>2 DEF SyncActive, CheckNewPosition, SizeCheck
<1>3. CASE CancelLeftover(t) \/ Reread(t) \/ Verify(t) \/ Emergency(t) \/ TrimExcess(t)
  BY <1>3 DEF CancelLeftover, Reread, Verify, Emergency, TrimExcess
<1>4. CASE RegisterPosition(t) \/ Adopt(t) \/ DeployAdopted(t) \/ Flatten(t)
  BY <1>4 DEF RegisterPosition, Adopt, DeployAdopted, Flatten
<1>5. CASE CancelAll(t) \/ DeletePosition(t) \/ GhostDelete(t)
  BY <1>5 DEF CancelAll, DeletePosition, GhostDelete
<1> QED
  BY <1>1, <1>2, <1>3, <1>4, <1>5 DEF PositionStep

LEMMA LoopLeaves ==
    ASSUME FillLoop \/ ReceiveAbort \/ ReceiveSignal \/ SignalHandler \/ MonitorLoop
    PROVE  AddPending \/ OnlyLeaves
<1> USE DEF OnlyLeaves, maps
<1>1. CASE FillLoop
  BY <1>1
     DEF FillLoop, FillTick, FillCheck, FillStatus, FinalCancel, FinalGet, UnregisterAny
<1>2. CASE ReceiveAbort \/ ReceiveSignal \/ Reconcile \/ Guard \/ Lookup \/ CheckNewEntry
  BY <1>2 DEF ReceiveAbort, ReceiveSignal, Reconcile, Guard, Lookup, CheckNewEntry
<1>3. CASE MarketTake \/ ChasePlace \/ ChasePoll \/ ChaseCancel
  BY <1>3 DEF MarketTake, ChasePlace, ChasePoll, ChaseCancel
<1>4. CASE MonitorLoop
  BY <1>4 DEF MonitorLoop, OrphanScan, OrphanCheck, Evaluate, SizeCheck
<1> QED
  BY <1>1, <1>2, <1>3, <1>4 DEF SignalHandler

LEMMA ExchangeLeaves ==
    ASSUME ExchangeStep \/ CooldownExpires \/ UNCHANGED vars
    PROVE  OnlyLeaves
  BY DEF OnlyLeaves, maps, vars, ExchangeStep, ExchangeFill, ExchangeCancel,
         ExchangeReject,
         ExchangeExit, CooldownExpires

LEMMA SlotStep ==
    ASSUME Inv, Inv', [Next]_vars
    PROVE  [Slot!Next]_(Slot!vars)
<1>1. AddPending \/ OnlyLeaves
  BY EntryStepLeaves, PositionStepLeaves, LoopLeaves, ExchangeLeaves DEF Next
<1>2. CASE AddPending
  <2>1. pending = None
    BY <1>2 DEF AddPending, Inv, Safe, AddFindsNoPending, PlaceLabels
  <2>2. nEntries' = nEntries + 1 /\ pending' = nEntries + 1 /\ nEntries + 1 \in Entries
    BY <1>2 DEF AddPending, Inv, TypeOK, MapsOK, Entries, None
  <2>3. entries'[nEntries + 1].state = "active" /\ nEntries + 1 # None
    BY <1>2, <2>2 DEF AddPending, Inv, TypeOK, MapsOK, Entries, None
  <2>4. Slot!Register
    BY <2>1, <2>2, <2>3 DEF Slot!Register, None
  <2> QED
    BY <2>4 DEF Slot!Next
<1>3. CASE OnlyLeaves
  <2>1. CASE pending = None
    BY <1>3, <2>1 DEF OnlyLeaves, Slot!vars
  <2>2. CASE pending # None /\ pending' = None
    BY <1>3, <2>2 DEF OnlyLeaves, Slot!Next, Slot!Leave, None
  <2>3. CASE pending # None /\ pending' = pending
    <3>1. entries'[pending'].state \in {"active", "cancelling"}
      BY <2>3 DEF Inv, TypeOK, MapsOK, EntryState
    <3>2. Slot!Mark
      BY <1>3, <2>3, <3>1 DEF OnlyLeaves, Slot!Mark, None
    <3> QED
      BY <3>2 DEF Slot!Next
  <2> QED
    BY <1>3, <2>1, <2>2, <2>3 DEF OnlyLeaves
<1> QED
  BY <1>1, <1>2, <1>3

\* The pending map of a symbol behaves as PendingSlot: one entry at a time,
\* never replaced by another, never registered again once it has left.
THEOREM PendingImplementsSlot == Spec => SlotSpec
<1>1. Init => Slot!Init
  BY DEF Init, Slot!Init, None
<1>2. Inv /\ Inv' /\ [Next]_vars => [Slot!Next]_(Slot!vars)
  BY SlotStep
<1> QED
  BY <1>1, <1>2, Invariance, PTL DEF Spec, SlotSpec, Slot!Spec
=============================================================================
