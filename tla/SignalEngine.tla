---------------------------- MODULE SignalEngine ----------------------------
(***************************************************************************)
(* From a market event to a signal, in engine.py, for one symbol: the      *)
(* market listener subscribes to the symbols of the screener, takes one    *)
(* event at a time and branches on the tables of open positions and        *)
(* pending entries; a thread scores the symbol and decides, while the      *)
(* listeners of positions, pending entries and results go on with their    *)
(* messages on the event loop; the listener publishes what the thread      *)
(* returns.  The entries of the tables are dictionaries that a message     *)
(* replaces and that the thread changes in place.                          *)
(*                                                                         *)
(* Confidences are in thousandths, predicted pnl and trends in ten-        *)
(* thousandths, limits of stops and take-profits in twenty-thousandths,    *)
(* and every threshold has its default of config.py.                       *)
(***************************************************************************)
EXTENDS ExitPlan

CONSTANTS
    Predictions,    \* the pnl the model predicts
    Books,          \* order books
    FlipTicks,      \* direction_flip_confirm_ticks
    AdverseTicks,   \* adverse_confirm_ticks
    CorrLimit,      \* CORRELATION_BLOCK_LIMIT
    MaxDicts,       \* bound: messages that open a position or place an entry
    MaxFaults       \* bound: failed publishes and restarts

ASSUME PredictionsAssumption == Predictions \subseteq Int
ASSUME BooksAssumption == \A book \in Books : WellFormed(book)
ASSUME TicksAssumption == FlipTicks \in Nat \ {0} /\ AdverseTicks \in Nat \ {0}
ASSUME BoundsAssumption == CorrLimit \in Nat /\ MaxDicts \in Nat /\ MaxFaults \in Nat

VARIABLES
    active,   \* the symbol is one of active_symbols
    tick,     \* the event that is being processed
    pos,      \* _open_positions
    pend,     \* _pending_entries
    nDicts,   \* dictionaries made so far: each has its number
    spoken,   \* dictionaries whose exit or abort signal was published
    lost,     \* those whose signal the publish lost
    cool,     \* _symbol_cooldowns: none, that of a loss or of a blocked pattern, or over
    loss,     \* the cooldown of the last loss: over, kept, or lost before its end
    held,     \* _corr_block_count_this_cycle
    faults

tables == <<pos, pend, nDicts>>
signals == <<spoken, lost>>
cooling == <<cool, loss>>
vars == <<active, tick, tables, signals, cooling, held, faults>>

Directions == Sides \cup {"HOLD"}
Regimes == {"Choppy", "Trending", "Breakout"}
Trends5 == {-40, -20, 0, 20, 40}
Trends15 == {-120, 0, 60}

ConfidenceThreshold == 550
LongThreshold == 650
BullishThreshold == 550
KillThreshold == 450
MaxConfidence == 980

NoDict == [id |-> 0, dir |-> "LONG", signaled |-> FALSE, flip |-> 0, adverse |-> 0]
IdleTick == [pc |-> "idle", kind |-> "none", trade |-> FALSE, dict |-> NoDict, dir |-> "HOLD",
             conf |-> 0, muted |-> FALSE, asks |-> FALSE, flipped |-> FALSE, t5 |-> 0, t15 |-> 0,
             impulse |-> FALSE]

DictType == [id : 0..nDicts, dir : Sides, signaled : BOOLEAN, flip : 0..(FlipTicks - 1),
             adverse : 0..AdverseTicks]
TickLabels == {"idle", "score", "decide", "recall", "cool", "forget", "judge", "plan", "publish"}
TypeOK ==
    /\ active \in BOOLEAN
    /\ tick \in [pc : TickLabels, kind : {"none", "entry", "exit", "abort"}, trade : BOOLEAN,
                 dict : DictType, dir : Directions, conf : 0..1000, muted : BOOLEAN,
                 asks : BOOLEAN, flipped : BOOLEAN, t5 : Trends5, t15 : Trends15,
                 impulse : BOOLEAN]
    /\ pos \in DictType /\ pend \in DictType
    /\ nDicts \in 0..MaxDicts
    /\ spoken \subseteq 1..nDicts /\ lost \subseteq 1..nDicts
    /\ cool \in {"none", "loss", "block", "expired"}
    /\ loss \in {"none", "kept", "lost"}
    /\ held \in 0..CorrLimit
    /\ faults \in 0..MaxFaults

Init ==
    /\ active = FALSE
    /\ tick = IdleTick
    /\ pos = NoDict /\ pend = NoDict /\ nDicts = 0
    /\ spoken = {} /\ lost = {}
    /\ cool = "none" /\ loss = "none"
    /\ held = 0
    /\ faults = 0
-----------------------------------------------------------------------------
(***************************************************************************)
(* The model's answer, and the gates of an entry signal                    *)
(***************************************************************************)
\* decide_pnl: predicted pnl and toxic flow, by the number of outputs of the model.
DecidePnl(outputs, pnl, toxic) ==
    [pnl |-> IF outputs = 3 \/ outputs >= 6 THEN pnl ELSE 0,
     toxic |-> toxic /\ (outputs = 3 \/ outputs >= 7)]
Answers == {DecidePnl(n, p, toxic) : n \in {3, 5, 6, 7}, p \in Predictions, toxic \in BOOLEAN}

Direction(p) == IF p > 0 THEN "LONG" ELSE IF p < 0 THEN "SHORT" ELSE "HOLD"
MinEdge == 35
Confidence(p) == IF Abs(p) >= MinEdge THEN Least(10 * Abs(p), 1000) ELSE 0

Opposes(dir, d) == dir \in Sides /\ dir # d

\* The imbalance is that of the last point, which is 0 when a trade came last.
ObiAgainst(d, trade, book) == ~trade /\ Outweighs(d, book, 10, 30)
TrendAgainst(d, t5, regime) == regime \in {"Trending", "Breakout"} /\ Ahead(d, t5) < -8
AdverseTick(d, trade, book, t5, regime) == ObiAgainst(d, trade, book) \/ TrendAgainst(d, t5, regime)

\* The first two levels, of the last book.
Thin(book) ==
    LET b == Volume(2, book.bids)
        a == Volume(2, book.asks)
    IN  book.bids # <<>> /\ book.asks # <<>> /\ 100 * (b - a) < 15 * (a + b)

\* [KNIFE-GUARD] and [MICRO-OBI], for LONG only.
KnifeGuard(dir, drift, trade, look) ==
    dir = "LONG" => ~drift /\ (look.asks => trade) /\ ~look.thin

\* Similar losing patterns, the most similar first: of this symbol or not, and the
\* loss in hundredths.
Total(ps) == FoldLeft(LAMBDA n, x : n + x.pnl, 0, ps)
ShouldAvoid(similar) ==
    LET mine == SelectSeq(similar, LAMBDA x : x.mine)
    IN  \/ Len(mine) >= 3
        \/ \E x \in ToSet(mine) : x.pnl < -50
        \/ Len(similar) >= 3 /\ Total(similar) < -10 * Len(similar)

\* Raised when fewer than 40 % of three or more trades were won, up to threefold ...
WinRateThreshold(wins, losses) ==
    LET n == wins + losses
        raised == Least((ConfidenceThreshold * (12 * n - 25 * wins)) \div (4 * n), 950)
    IN  IF n >= 3 /\ 10 * wins < 4 * n THEN Most(ConfidenceThreshold, raised)
        ELSE ConfidenceThreshold

\* ... and by three losses of the setup of more than 0.10 on average.
BaseThreshold(wins, losses, badSetup) ==
    Most(WinRateThreshold(wins, losses), IF badSetup THEN 800 ELSE 0)

\* The direction after the trend filter: none for SHORT in a mild uptrend.
TrendFilter(dir, t5) ==
    CASE dir = "SHORT" /\ t5 > 30 -> "LONG"
      [] dir = "SHORT" /\ t5 > 0 /\ t5 <= 30 -> "HOLD"
      [] dir = "LONG" /\ t5 < -30 -> "SHORT"
      [] OTHER -> dir

Threshold(dir, flipped, conf, base, t5, t15, longEv) ==
    IF dir = "SHORT" \/ flipped THEN base
    ELSE IF t5 > 5 /\ t15 > 0 /\ longEv /\ conf >= 500 THEN BullishThreshold
    ELSE LongThreshold

\* Mutant: the cap is forgotten.
CappedNot(dir, conf, t5, t15) == conf

\* LONG against both trends keeps at most 0.30.
Capped(dir, conf, t5, t15) ==
    IF dir = "LONG" /\ t5 < 0 /\ t15 < 0 THEN Least(conf, 300) ELSE conf

\* The mean of what was optimal for trades like this of the symbol that could have
\* been saved, 0 without one.
MemoryShare(neighbours) ==
    LET mine == {i \in DOMAIN neighbours : neighbours[i].mine /\ neighbours[i].salvageable}
        best == [i \in DOMAIN neighbours |-> IF i \in mine THEN neighbours[i].best ELSE 0]
    IN  IF mine = {} THEN 0 ELSE SumOf(best) \div Cardinality(mine)
MemoryShares ==
    {MemoryShare(s) : s \in BoundedSeq([mine : BOOLEAN, salvageable : BOOLEAN, best : {60, 100}], 2)}

\* infer_exit_params: without a model of its own, the middle of everything.
ExitParams ==
    {[sl |-> 100, tp |-> 240, score |-> 50]} \cup [sl : {20, 400}, tp : {20, 1000}, score : {20, 90}]

MinSl == 80
MaxSl == 160
MinTp == 80
MaxTp == 300

\* Clipped to the limits, or what the memory suggests if that is less.
ExitShare(model, memory, least, most) ==
    LET clipped == Most(Least(model, most), least)
    IN  IF memory >= least /\ memory < clipped THEN memory ELSE clipped

\* In hundredths; a prediction that fails counts as 55, whatever the direction.
Gatekeeper(dir, prob) == prob >= IF dir = "LONG" THEN 65 ELSE 45
-----------------------------------------------------------------------------
(***************************************************************************)
(* A market event                                                          *)
(***************************************************************************)
TickDone == tick' = IdleTick
At(l) == tick' = [tick EXCEPT !.pc = l]

\* A message of the screener that adds the symbol or leaves it out.
Actives ==
    /\ active' = ~active
    /\ UNCHANGED <<tick, tables, signals, cooling, held, faults>>

\* A trade or a book, of a symbol that the listener is subscribed to: it compares
\* the subscriptions with active_symbols before every message.
Event(trade) ==
    /\ tick.pc = "idle" /\ active
    /\ tick' = [IdleTick EXCEPT
                  !.pc = "score", !.trade = trade,
                  !.kind = IF pos # NoDict THEN "exit" ELSE IF pend # NoDict THEN "abort" ELSE "entry",
                  !.muted = pos = NoDict /\ pend = NoDict /\ loss = "kept"]
    /\ UNCHANGED <<active, tables, signals, cooling, held, faults>>

\* Mutant: a dictionary that is marked as signaled is scored again.
ScoreAgain ==
    /\ tick.pc = "score" /\ tick.kind \in {"exit", "abort"}
    /\ LET dict == IF tick.kind = "exit" THEN pos ELSE pend IN
         IF dict = NoDict THEN TickDone
         ELSE \E p \in {a.pnl : a \in Answers} :
                tick' = [tick EXCEPT !.pc = "decide", !.dict = dict,
                                     !.dir = Direction(p), !.conf = Confidence(p)]
    /\ UNCHANGED <<active, tables, signals, cooling, held, faults>>

\* _check_confidence_decay and _check_entry_abort: the dictionary is taken from the
\* table in the thread, and may be another one than the branch was for, or none.
Score ==
    /\ tick.pc = "score" /\ tick.kind \in {"exit", "abort"}
    /\ LET dict == IF tick.kind = "exit" THEN pos ELSE pend IN
         IF dict = NoDict \/ dict.signaled THEN TickDone
         ELSE \E p \in {a.pnl : a \in Answers} :
                tick' = [tick EXCEPT !.pc = "decide", !.dict = dict,
                                     !.dir = Direction(p), !.conf = Confidence(p)]
    /\ UNCHANGED <<active, tables, signals, cooling, held, faults>>

\* Mutant: the streak may be one tick too long.
FlipLate(dict) == IF dict.flip + 1 > FlipTicks
                  THEN [dict EXCEPT !.flip = 0, !.signaled = TRUE]
                  ELSE [dict EXCEPT !.flip = @ + 1]

Flip(dict) == IF dict.flip + 1 >= FlipTicks
              THEN [dict EXCEPT !.flip = 0, !.signaled = TRUE]
              ELSE [dict EXCEPT !.flip = @ + 1]

AfterExit(dict, dir, conf, adverse) ==
    LET calm == [dict EXCEPT !.flip = 0]
        n == dict.adverse + 1
    IN  IF Opposes(dir, dict.dir)
        THEN IF conf >= ConfidenceThreshold THEN Flip(dict) ELSE dict
        ELSE IF dir = "HOLD" THEN calm
        ELSE IF conf >= KillThreshold \/ ~adverse THEN [calm EXCEPT !.adverse = 0]
        ELSE [calm EXCEPT !.adverse = n, !.signaled = n >= AdverseTicks]

AfterAbort(dict, dir) == IF Opposes(dir, dict.dir) THEN Flip(dict) ELSE [dict EXCEPT !.flip = 0]

\* Mutant: the thread changes a copy of the dictionary.
StoreNowhere(new) == UNCHANGED tables

\* Mutant: the thread marks what it finds in the table when it has decided.
StoreLater(new) ==
    /\ pos' = IF tick.kind = "exit" /\ pos # NoDict THEN [new EXCEPT !.id = pos.id] ELSE pos
    /\ pend' = IF tick.kind = "abort" /\ pend # NoDict THEN [new EXCEPT !.id = pend.id] ELSE pend
    /\ UNCHANGED nDicts

\* The thread changes the dictionary it holds, in the table or not any more.
Store(new) ==
    /\ pos' = IF tick.kind = "exit" /\ pos.id = new.id THEN new ELSE pos
    /\ pend' = IF tick.kind = "abort" /\ pend.id = new.id THEN new ELSE pend
    /\ UNCHANGED nDicts

Adversities == [d \in Sides |-> [trade \in BOOLEAN |->
                  {AdverseTick(d, trade, book, t5, r) :
                     book \in Books, t5 \in Trends5, r \in Regimes}]]

Decide ==
    /\ tick.pc = "decide"
    /\ \E adverse \in Adversities[tick.dict.dir][tick.trade] :
         LET new == IF tick.kind = "exit" THEN AfterExit(tick.dict, tick.dir, tick.conf, adverse)
                    ELSE AfterAbort(tick.dict, tick.dir)
         IN  /\ Store(new)
             /\ IF new.signaled THEN tick' = [tick EXCEPT !.pc = "publish", !.trade = FALSE, !.dict = new]
                                ELSE TickDone
    /\ UNCHANGED <<active, signals, cooling, held, faults>>

\* What the first gates let through: drift, when BTC falls and the symbol follows it.
Looks == {[asks |-> Outweighs("LONG", book, 10, 10), thin |-> Thin(book)] : book \in Books}
Passed ==
    [trade \in BOOLEAN |->
       {[pnl |-> x.a.pnl, asks |-> x.look.asks] :
          x \in {x \in [a : Answers, look : Looks, drift : BOOLEAN] :
                    /\ KnifeGuard(Direction(x.a.pnl), x.drift, trade, x.look)
                    /\ ~x.a.toxic /\ Abs(x.a.pnl) >= MinEdge}}]

\* _run_tick_prediction, up to the correlation with BTC.
Predict ==
    /\ tick.pc = "score" /\ tick.kind = "entry"
    /\ \/ TickDone /\ UNCHANGED held
       \/ \E x \in Passed[tick.trade], correlated \in BOOLEAN :
            LET conf == Confidence(x.pnl)
                blocked == correlated /\ conf < 950 /\ held < CorrLimit
            IN  /\ tick' = [tick EXCEPT !.pc = "recall", !.conf = conf, !.asks = x.asks,
                                         !.trade = tick.trade /\ x.asks,
                                         !.dir = IF blocked THEN "HOLD" ELSE Direction(x.pnl)]
                /\ held' = IF blocked THEN held + 1 ELSE held
    /\ UNCHANGED <<active, tables, signals, cooling, faults>>

Patterns == [mine : BOOLEAN, pnl : {-60, -5}]
Memories == {ShouldAvoid(similar) : similar \in BoundedSeq(Patterns, 3)}

\* The pattern memory blocks the symbol for half an hour from now, whatever is left of
\* a cooldown, which two losses in a row make an hour.  The limit of blocks per cycle
\* is never reached: nothing counts them.
Recall ==
    /\ tick.pc = "recall"
    /\ \E avoid \in Memories :
         IF avoid /\ tick.dir # "HOLD"
         THEN cool' = "block" /\ TickDone
         ELSE At("cool") /\ UNCHANGED cool
    /\ UNCHANGED <<active, tables, signals, loss, held, faults>>

\* Mutant: a cooldown is deleted when it is found.
CoolOnce ==
    /\ tick.pc = "cool"
    /\ At(IF cool = "none" THEN "judge" ELSE "forget")
    /\ UNCHANGED <<active, tables, signals, cooling, held, faults>>

Cool ==
    /\ tick.pc = "cool"
    /\ IF cool \in {"loss", "block"} THEN TickDone ELSE At(IF cool = "none" THEN "judge" ELSE "forget")
    /\ UNCHANGED <<active, tables, signals, cooling, held, faults>>

\* An expired cooldown is deleted, also when a loss has just renewed it.
Forget ==
    /\ tick.pc = "forget"
    /\ cool' = "none" /\ loss' = IF loss = "kept" THEN "lost" ELSE loss
    /\ At("judge")
    /\ UNCHANGED <<active, tables, signals, held, faults>>

BaseThresholds == {BaseThreshold(w, l, bad) : w, l \in 0..3, bad \in BOOLEAN}

\* What trends and thresholds make of a direction and its confidence.
Judgements(dir, conf) ==
    LET by(t5, t15, longEv, base) ==
            LET new == TrendFilter(dir, t5)
                flipped == dir = "SHORT" /\ new = "LONG"
            IN  [pass |-> new # "HOLD" /\ conf > Threshold(new, flipped, conf, base, t5, t15, longEv),
                 dir |-> new, flipped |-> flipped, t5 |-> t5, t15 |-> t15,
                 conf |-> Capped(new, conf, t5, t15)]
    IN  {by(t5, t15, longEv, base) : t5 \in Trends5, t15 \in Trends15, longEv \in BOOLEAN,
                                     base \in BaseThresholds}
Judged == [dir \in Sides |-> [conf \in {Confidence(p) : p \in Predictions} |->
             {j \in Judgements(dir, conf) : j.pass}]]

Judge ==
    /\ tick.pc = "judge"
    /\ \/ TickDone
       \/ /\ tick.conf <= MaxConfidence /\ tick.dir # "HOLD"
          /\ \E j \in Judged[tick.dir][tick.conf] :
               tick' = [tick EXCEPT !.pc = "plan", !.dir = j.dir, !.flipped = j.flipped,
                                    !.t5 = j.t5, !.t15 = j.t15, !.conf = j.conf]
    /\ UNCHANGED <<active, tables, signals, cooling, held, faults>>

Pressures == [d \in Sides |-> {Pressed(d, book) : book \in Books}]
Verdicts == [d \in Sides |-> {TRUE} \cup {Gatekeeper(d, prob) : prob \in {40, 55, 70}}]
Scores == {exit.score : exit \in ExitParams}

\* The score of the trade, less the penalty of the exit plan, in hundredths; the event
\* gate; the gatekeeper, if it is trained.
Plan ==
    /\ tick.pc = "plan"
    /\ \/ TickDone
       \/ \E pressed \in Pressures[tick.dir], regime \in Regimes, score \in Scores, impulse \in BOOLEAN :
            /\ TRUE \in Verdicts[tick.dir]
            /\ score - Penalty(KnifeScore(tick.dir, tick.t5, tick.t15, pressed, regime)) >= 30
            /\ tick.conf >= 850 \/ impulse
            /\ tick' = [tick EXCEPT !.pc = "publish", !.impulse = impulse]
    /\ UNCHANGED <<active, tables, signals, cooling, held, faults>>

Publish ==
    /\ tick.pc = "publish"
    /\ spoken' = IF tick.kind = "entry" THEN spoken ELSE spoken \cup {tick.dict.id}
    /\ TickDone
    /\ UNCHANGED <<active, tables, lost, cooling, held, faults>>

Fault == faults < MaxFaults /\ faults' = faults + 1

\* The market listener subscribes again; nothing is sent twice.
PublishFails ==
    /\ tick.pc = "publish" /\ Fault
    /\ lost' = IF tick.kind = "entry" THEN lost ELSE lost \cup {tick.dict.id}
    /\ TickDone
    /\ UNCHANGED <<active, tables, spoken, cooling, held>>
-----------------------------------------------------------------------------
(***************************************************************************)
(* The other listeners.  Their channels have connections of their own:     *)
(* messages come in any order.                                             *)
(***************************************************************************)
NewDict(d) == [NoDict EXCEPT !.id = nDicts + 1, !.dir = d]

Opened(d) ==
    /\ nDicts < MaxDicts /\ nDicts' = nDicts + 1
    /\ pos' = NewDict(d)
    /\ UNCHANGED <<active, tick, pend, signals, cooling, held, faults>>

\* placed, or repriced: the streak starts again.
Placed(d) ==
    /\ nDicts < MaxDicts /\ nDicts' = nDicts + 1
    /\ pend' = NewDict(d)
    /\ UNCHANGED <<active, tick, pos, signals, cooling, held, faults>>

Cleared ==
    /\ pend # NoDict /\ pend' = NoDict
    /\ UNCHANGED <<active, tick, pos, nDicts, signals, cooling, held, faults>>

\* A result with a state vector, of the tracked position or of another trade.
Result ==
    /\ \/ cool' = "loss" /\ loss' = "kept"
       \/ UNCHANGED cooling
    /\ pos' = NoDict
    /\ UNCHANGED <<active, tick, pend, nDicts, signals, held, faults>>

\* A block that began during the cooldown of a loss may end before it.
CooldownEnds ==
    /\ cool \in {"loss", "block"} /\ cool' = "expired"
    /\ loss' = IF loss # "kept" THEN loss ELSE IF cool = "loss" THEN "none" ELSE "lost"
    /\ tick' = [tick EXCEPT !.muted = FALSE]
    /\ UNCHANGED <<active, tables, signals, held, faults>>

\* The time of a loss is over, whose cooldown is not in the table any more.
LossEnds ==
    /\ loss # "none" /\ cool # "loss"
    /\ loss' = "none"
    /\ tick' = [tick EXCEPT !.muted = FALSE]
    /\ UNCHANGED <<active, tables, signals, cool, held, faults>>

\* The status loop begins a new cycle.
Status ==
    /\ held > 0 /\ held' = 0
    /\ UNCHANGED <<active, tick, tables, signals, cooling, faults>>

\* The symbols of the screener are cached in Redis, if it has sent any.
Restart ==
    /\ Fault
    /\ TickDone
    /\ pos' = NoDict /\ pend' = NoDict
    /\ cool' = "none" /\ loss' = IF loss = "kept" THEN "lost" ELSE loss
    /\ held' = 0
    /\ active' \in {active, FALSE}
    /\ UNCHANGED <<nDicts, signals>>
-----------------------------------------------------------------------------
Thread == Score \/ Decide \/ Predict \/ Recall \/ Cool \/ Forget \/ Judge \/ Plan
Messages == (\E d \in Sides : Opened(d) \/ Placed(d)) \/ Cleared \/ Result

Next ==
    \/ Actives
    \/ (\E trade \in BOOLEAN : Event(trade)) \/ Thread \/ Publish \/ PublishFails
    \/ Messages \/ CooldownEnds \/ LossEnds \/ Status \/ Restart

Spec == Init /\ [][Next]_vars

\* The market listener keeps going, with events of books or of trades.
FairSpec == Spec /\ WF_vars((\E trade \in BOOLEAN : Event(trade)) \/ Thread \/ Publish)
-----------------------------------------------------------------------------
(***************************************************************************)
(* Properties                                                              *)
(***************************************************************************)
Publishing(kinds) == tick.pc = "publish" /\ tick.kind \in kinds

\* What the gates, the flip and the cap add up to: no SHORT into an uptrend, LONG
\* against both trends on an impulse of the book only, never with less than the
\* confidence of the event gate otherwise, and LONG into a book of sellers (which
\* [KNIFE-GUARD] blocks) only when a strong uptrend has flipped a SHORT, or when the
\* event is a trade, at which the guard sees no book.
SignalSound ==
    Publishing({"entry"}) =>
        /\ tick.conf <= MaxConfidence
        /\ tick.dir = "SHORT" => tick.t5 <= 0
        /\ tick.dir = "LONG" /\ tick.t5 < 0 /\ tick.t15 < 0 => tick.impulse
        /\ ~tick.impulse => tick.conf >= 850
        /\ tick.dir = "LONG" /\ tick.asks => tick.trade \/ (tick.flipped /\ tick.t5 > 30)

\* A dictionary gets at most one exit or abort signal, although messages replace it
\* while the thread decides on it.
SignaledOnce == Publishing({"exit", "abort"}) => tick.dict.id \notin spoken \cup lost

\* One that is marked as signaled, and so never looked at again, has had its signal,
\* or is about to get it, unless a failed publish has lost it.
FlaggedIsSent ==
    \A dict \in {pos, pend} : dict.signaled =>
        \/ dict.id \in spoken \cup lost
        \/ Publishing({"exit", "abort"}) /\ tick.dict.id = dict.id

\* "block re-entry after SL": an event that comes during the cooldown of the last loss
\* publishes no entry signal, unless the cooldown was lost before, in one of three ways:
\* a restart forgets it, an event deletes it in place of the expired one that it saw,
\* and a pattern block replaces it by half an hour, which is over before its hour is.
LossMutes == Publishing({"entry"}) => ~tick.muted

\* A model that keeps opposing an entry that is not repriced any more, or with
\* confidence a position, gets its signal out of the confirmation streak, as long as
\* the screener keeps the symbol: without, a position is not looked at any more.
AbortOpposes == tick.kind = "abort" /\ tick.pc = "decide" => Opposes(tick.dir, tick.dict.dir)
ExitOpposes == tick.kind = "exit" /\ tick.pc = "decide" =>
                   Opposes(tick.dir, tick.dict.dir) /\ tick.conf >= ConfidenceThreshold
PersistentFlipSignals ==
    /\ <>[](active /\ pos = NoDict /\ pend # NoDict /\ AbortOpposes) => <>[](pend.signaled)
    /\ <>[](active /\ pos # NoDict /\ ExitOpposes) => <>[](pos.signaled)

\* _handle_exit_plan_request: a plan without trends, for any multiplier and tick.
PlanRequest(d, book, vol, given) ==
    IF book.bids = <<>> \/ book.asks = <<>> THEN {}
    ELSE Plans(d, book, given, vol, MaxSl, MaxTp, 0)

\* Every plan for every book, volatility, limit and knife score, of a signal, with the
\* default tick, or on request, with the one it asks for: an order to close is on its
\* side of the entry price, at a distance that makes it worth placing, as far as the
\* price in ticks leaves room for it (TakeProfitSound): below 145 ticks, or 725 in knife
\* conditions, a take-profit may be rounded onto the entry price.
PlanCorrect ==
    Init => \A d \in Sides, book \in Books :
      /\ \A vol \in {5, 10}, score \in {0, 11},
            exitSl \in {ExitShare(e.sl, share, MinSl, MaxSl) : e \in ExitParams, share \in MemoryShares},
            exitTp \in {ExitShare(e.tp, share, MinTp, MaxTp) : e \in ExitParams, share \in MemoryShares} :
           \A plan \in Plans(d, book, DefaultTick, vol, exitSl, exitTp, score) :
             SoundPlan(plan, d, book, DefaultTick, SlLimit(vol, exitSl), exitTp, score)
      /\ \A vol \in {5, 20}, given \in {0, Dollar \div 100000, Dollar \div 1000} :
           \A plan \in PlanRequest(d, book, vol, given) :
             SoundPlan(plan, d, book, TickOf(book, given), SlLimit(vol, MaxSl), MaxTp, 0)
=============================================================================
