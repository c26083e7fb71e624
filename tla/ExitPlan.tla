------------------------------ MODULE ExitPlan ------------------------------
(***************************************************************************)
(* exit_plan.py and liquidity_tp.py: entry, stop-loss and take-profits of  *)
(* a plan from the order book.  Prices and ticks are whole numbers of a    *)
(* unit, at most 0.00001, that the prices of the book are multiples of;    *)
(* they need not be multiples of the tick of the plan, which is 0.0001 for *)
(* a signal and whatever the request says otherwise.  Shares of a price    *)
(* are in twenty-thousandths, trends in ten-thousandths and the multiplier *)
(* of the volatility in tenths.  A side of a book is a sequence of levels  *)
(* [price, size], the best first.                                          *)
(*                                                                         *)
(* The scores that rank walls are not computed: where the code takes the   *)
(* best, any is taken, and where it takes them in their order, any order.  *)
(***************************************************************************)
EXTENDS Integers, Sequences, FiniteSets, SequencesExt

CONSTANT Dollar   \* units of price in 1 USD

ASSUME DollarAssumption == Dollar \in Nat \ {0} /\ Dollar % 100000 = 0

Whole == 20000

Abs(n) == IF n < 0 THEN -n ELSE n
Least(m, n) == IF m < n THEN m ELSE n
Most(m, n) == IF m > n THEN m ELSE n

\* The nearest whole number, a half goes to the even one.
RoundDiv(a, b) ==
    LET q == a \div b
        rest == 2 * (a % b)
    IN  IF rest > b \/ (rest = b /\ q % 2 = 1) THEN q + 1 ELSE q

\* _round_tick: the price a / b on the grid of the tick.
RoundTick(a, b, tick) == tick * RoundDiv(a, b * tick)

\* By the price, given twice: 0.1 from 1000 USD, 0.01 from 100, 0.0001 from 1.
InferTick(twice) ==
    CASE twice >= 2000 * Dollar -> Dollar \div 10
      [] twice >= 200 * Dollar -> Dollar \div 100
      [] twice >= 2 * Dollar -> Dollar \div 10000
      [] OTHER -> Dollar \div 100000

DefaultTick == Dollar \div 10000

Sides == {"LONG", "SHORT"}

\* Signed with the direction: positive is profit.
Gain(d, from, to) == IF d = "LONG" THEN to - from ELSE from - to
Ahead(d, n) == IF d = "LONG" THEN n ELSE -n

\* The sum of a sequence of numbers.
SumOf(f) ==
    LET sum[n \in 0..Len(f)] == IF n = 0 THEN 0 ELSE sum[n - 1] + f[n]
    IN  sum[Len(f)]

BestPrice(side) == IF side = <<>> THEN 0 ELSE side[1].price
-----------------------------------------------------------------------------
(***************************************************************************)
(* Walls                                                                   *)
(***************************************************************************)
\* The positions of levels at least 1.2 times as large as the five before and after
\* them on average, among the first top levels.
Walls(side, top) ==
    LET near == 1..Least(top, Len(side))
        around(i) == {j \in near : j # i /\ Abs(i - j) <= 5}
        total(i) == SumOf([j \in near |-> IF j \in around(i) THEN side[j].size ELSE 0])
    IN  {i \in near : /\ around(i) # {}
                      /\ 10 * side[i].size * Cardinality(around(i)) >= 12 * total(i)}

\* Walls that are not within three ticks, as the price suggests them whatever the tick
\* of the plan is, of one kept before them.
Distinct(side, top) ==
    LET walls == Walls(side, top)
        same(i, j) == Abs(side[i].price - side[j].price) <= 3 * InferTick(2 * side[1].price)
        kept[i \in walls] == \A j \in {j \in walls : j < i} : kept[j] => ~same(i, j)
    IN  {i \in walls : kept[i]}

\* A wall joins the cluster of the one below it within 0.2 %, or three ticks.  The
\* price of a cluster is the mean, sum / n.
Clusters(side, walls, tick) ==
    LET price(i) == side[i].price
        joins(i) == \E j \in walls : /\ price(j) < price(i)
                                     /\ 1000 * (price(i) - price(j)) <= Most(3000 * tick, 2 * price(j))
        lowest == {i \in walls : ~joins(i)}
        from(i) == {j \in walls : /\ price(j) >= price(i)
                                  /\ \A k \in lowest : price(k) \notin (price(i) + 1)..price(j)}
    IN  {[sum |-> SumOf([j \in DOMAIN side |-> IF j \in from(i) THEN price(j) ELSE 0]),
          n |-> Cardinality(from(i))] : i \in lowest}
-----------------------------------------------------------------------------
(***************************************************************************)
(* Knife conditions                                                        *)
(***************************************************************************)
Points(c, n) == IF c THEN n ELSE 0

\* In tenths.
KnifeScore(d, t5, t15, pressed, regime) ==
    LET adverse(n) == -Ahead(d, n)
    IN    Points(adverse(t5) > 10, 3) + Points(adverse(t5) > 30, 2)
        + Points(adverse(t15) > 50, 3) + Points(adverse(t15) > 100, 1)
        + Points(pressed, 1)
        + Points(regime = "Breakout" /\ adverse(t5) > 10, 1)

IsKnife(score) == score >= 4

\* The share of the distance that is left to the take-profits, and what the score
\* of the trade loses, in hundredths.
Tighten(score) == IF IsKnife(score) THEN Most(25, 100 - 8 * score) ELSE 100
Penalty(score) == IF IsKnife(score) THEN Least(30, 3 * score) ELSE 0

\* The first n levels of the other side outweigh those of the own by more than
\* share hundredths of their sum.
Volume(n, side) == SumOf([i \in 1..Least(n, Len(side)) |-> side[i].size])
Outweighs(d, book, n, share) ==
    LET b == Volume(n, book.bids)
        a == Volume(n, book.asks)
    IN  100 * Ahead(d, a - b) > share * (a + b)

Pressed(d, book) == book.bids # <<>> /\ book.asks # <<>> /\ Outweighs(d, book, 10, 20)
-----------------------------------------------------------------------------
(***************************************************************************)
(* The plan                                                                *)
(***************************************************************************)
\* Twice the middle of the book, or of the last known one.
TwiceMid(book) ==
    IF book.bids = <<>> \/ book.asks = <<>> THEN 2 * book.lastMid
    ELSE BestPrice(book.bids) + BestPrice(book.asks)

TickOf(book, given) == IF given > 0 THEN given ELSE InferTick(TwiceMid(book))

\* Two ticks ahead of the own side, but behind the other one, or at the own side.
MakerEntry(d, book, tick) ==
    LET own == BestPrice(IF d = "LONG" THEN book.bids ELSE book.asks)
        other == BestPrice(IF d = "LONG" THEN book.asks ELSE book.bids)
        ahead == own + Ahead(d, 2 * tick)
        price == IF other > 0 /\ Gain(d, ahead, other) <= 0 THEN other - Ahead(d, tick) ELSE ahead
    IN  RoundTick(CASE d = "LONG" -> Most(price, own)
                    [] d = "SHORT" /\ price > 0 -> Least(price, own)
                    [] OTHER -> own, 1, tick)

\* 0.05 % behind the middle without an own side, or if that rounds to 0.
Entry(d, book, tick) ==
    LET own == IF d = "LONG" THEN book.bids ELSE book.asks
        maker == IF own = <<>> THEN 0 ELSE MakerEntry(d, book, tick)
        back == RoundTick(5 * TwiceMid(book), 20000, tick)
    IN  IF maker > 0 THEN maker ELSE RoundTick(TwiceMid(book) - Ahead(d, 2 * back), 2, tick)

\* Mutant: the volatility widens the stop without limit.
SlLimitByVolatility(vol, exitSl) == (exitSl * vol) \div 10

\* "Hard cap: never exceed this distance regardless of vol_mult"
SlLimit(vol, exitSl) == Least((exitSl * vol) \div 10, 160)

\* Behind a wall on the losing side that is neither too near nor too far, or 0.5 %.
WallStops(d, book, ref, tick, vol, exitSl) ==
    LET least == 8 * vol
        most == SlLimit(vol, exitSl)
        side == IF d = "LONG" THEN book.bids ELSE book.asks
        sl(i) == RoundTick(side[i].price - Ahead(d, 2 * tick), 1, tick)
        fit == {i \in Distinct(side, 60) :
                  LET loss == Whole * Gain(d, side[i].price, ref)
                  IN  /\ loss > 0 /\ Gain(d, sl(i), ref) > 0
                      /\ loss >= least * ref /\ loss <= most * ref}
    IN  IF fit # {} THEN {sl(i) : i \in fit}
        ELSE {RoundTick(ref * (Whole - Ahead(d, Least(most, 100))), Whole, tick)}

\* The limit itself where that gives no price.
StopLosses(d, book, ref, tick, vol, exitSl) ==
    LET last == RoundTick(ref * (Whole - Ahead(d, exitSl)), Whole, tick)
    IN  {IF sl > 0 THEN sl ELSE last :
           sl \in IF ref > 0 THEN WallStops(d, book, ref, tick, vol, exitSl) ELSE {0}}

\* Twice the price that targets are measured from: the entry price, or the middle if
\* that is rounded to 0.
TwiceRef(book, ref) ==
    IF ref > 0 THEN 2 * ref
    ELSE IF book.bids # <<>> /\ book.asks # <<>> THEN TwiceMid(book) ELSE 0

\* At least 1 %, and the fees, with half the spread or 0.01 %.  gain is 2 * n times
\* the distance.
Worthwhile(gain, n, twice, book) ==
    /\ Whole * gain >= 200 * n * twice
    /\ Whole * gain >= IF book.bids # <<>> /\ book.asks # <<>>
                       THEN n * (21 * twice + Whole * (BestPrice(book.asks) - BestPrice(book.bids)))
                       ELSE n * (23 * twice)

\* Two ticks before a wall, or a cluster of walls, on the winning side.
Targets(d, book, twice, tick, maxTp) ==
    LET side == IF d = "LONG" THEN book.asks ELSE book.bids
        tp(c) == RoundTick(c.sum - Ahead(d, 2 * c.n * tick), c.n, tick)
        gain(c) == Gain(d, twice * c.n, 2 * c.sum)
    IN  {tp(c) : c \in {c \in Clusters(side, Distinct(side, 30), tick) :
                          /\ twice > 0 /\ gain(c) > 0 /\ Gain(d, twice, 2 * tp(c)) > 0
                          /\ Worthwhile(gain(c), c.n, twice, book)
                          /\ Whole * gain(c) <= maxTp * c.n * twice}}

\* Four targets 0.1 % apart, or all that leave room for no other: the best of them,
\* by a score that is not computed.
Picked(targets, twice) ==
    LET apart(x, y) == Whole * Abs(x - y) >= 10 * twice
    IN  {C \in SUBSET targets :
           /\ Cardinality(C) <= 4
           /\ \A x, y \in C : x # y => apart(x, y)
           /\ Cardinality(C) = 4 \/ \A tp \in targets \ C : \E x \in C : ~apart(tp, x)}

\* The nearest first.
Ladders(d, C) == {tps \in [1..Cardinality(C) -> C] :
                    \A i, j \in DOMAIN tps : i < j => Gain(d, tps[i], tps[j]) > 0}

\* Without a target, the larger of three times the minimal move and 0.8 of maxTp.
FallbackTp(d, ref, tick, maxTp) ==
    RoundTick(ref * (Whole + Ahead(d, Most((4 * maxTp) \div 5, 69))), Whole, tick)

\* Knife conditions leave a share of the distance.
Tightened(d, tps, ref, tick, share) ==
    [i \in DOMAIN tps |->
       IF share = 100 THEN tps[i]
       ELSE RoundTick(100 * ref + Ahead(d, share * Abs(tps[i] - ref)), 100, tick)]

\* None without a price.
Plans(d, book, given, vol, exitSl, exitTp, score) ==
    LET tick == TickOf(book, given)
        ref == Entry(d, book, tick)
        targets == Targets(d, book, TwiceRef(book, ref), tick, exitTp)
        ladders == IF targets = {} THEN {<<FallbackTp(d, ref, tick, exitTp)>>}
                   ELSE UNION {Ladders(d, C) : C \in Picked(targets, TwiceRef(book, ref))}
    IN  IF TwiceMid(book) <= 0 THEN {}
        ELSE {[entry |-> ref, sl |-> sl, tps |-> Tightened(d, tps, ref, tick, Tighten(score))] :
                sl \in StopLosses(d, book, ref, tick, vol, exitSl), tps \in ladders}
-----------------------------------------------------------------------------
(***************************************************************************)
(* What a plan promises                                                    *)
(***************************************************************************)
\* Levels without a price or a size are skipped by the code.
WellFormed(book) ==
    LET side == Seq([price : Nat \ {0}, size : Nat \ {0}])
    IN  book.bids \in side /\ book.asks \in side /\ book.lastMid \in Nat

Spread(book) == IF book.bids = <<>> \/ book.asks = <<>> THEN 0
                ELSE BestPrice(book.asks) - BestPrice(book.bids)

\* Of a plan whose entry price does not round to 0.  The stop is never on the winning
\* side, nor further away than the hard cap and two and a half ticks; it is on the
\* losing side unless its limit (of 0.5 % at most) is half a tick or less.
StopSound(plan, d, tick, limit) ==
    LET loss == Whole * Gain(d, plan.sl, plan.entry)
    IN  /\ loss >= 0 /\ 2 * loss <= 320 * plan.entry + 5 * Whole * tick
        /\ 2 * Least(limit, 100) * plan.entry > Whole * tick => loss > 0

\* A take-profit is never on the losing side, nor a tick further away than the limit
\* or the minimum.  From 145 ticks on it pays the fees and the margin, and up to two and
\* a half ticks half the spread, unless the spread is wider than 0.48 %.  Knife
\* conditions may bring it nearer, but from 725 ticks on not onto the entry price.
TakeProfitSound(tp, plan, d, book, tick, exitTp, knife) ==
    LET gain == Whole * Gain(d, plan.entry, tp)
    IN  /\ gain >= 0 /\ gain <= Most(exitTp, 69) * plan.entry + Whole * tick
        /\ knife /\ plan.entry >= 725 * tick => gain > 0
        /\ ~knife /\ plan.entry >= 145 * tick => gain > 0 /\ gain >= 21 * plan.entry
        /\ ~knife /\ Whole * Spread(book) <= 96 * plan.entry =>
             2 * gain + 5 * Whole * tick >= 42 * plan.entry + Whole * Spread(book)

\* There is a take-profit, and the nearest is first; knife conditions may make two of
\* them one, but not beyond 4000 ticks.
SoundPlan(plan, d, book, tick, limit, exitTp, score) ==
    plan.entry > 0 =>
        /\ StopSound(plan, d, tick, limit)
        /\ plan.tps # <<>>
        /\ \A tp \in ToSet(plan.tps) :
             TakeProfitSound(tp, plan, d, book, tick, exitTp, IsKnife(score))
        /\ \A i \in 2..Len(plan.tps) :
             LET step == Gain(d, plan.tps[i - 1], plan.tps[i])
             IN  step >= 0 /\ (~IsKnife(score) \/ plan.entry > 4000 * tick => step > 0)
=============================================================================
