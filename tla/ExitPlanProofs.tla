---------------------------- MODULE ExitPlanProofs ----------------------------
(***************************************************************************)
(* Every plan is sound, whatever the book holds, at any price and with any *)
(* tick, and however the code ranks the walls.  A price of a plan is a     *)
(* quotient that is rounded to the grid of the tick, so that the argument  *)
(* is one of bounds and of the grid: rounding moves a price by half a tick *)
(* at most, and prices of the grid less than a tick apart are the same.    *)
(***************************************************************************)

EXTENDS ExitPlan, FiniteSetTheorems, FunctionTheorems, WellFoundedInduction, TLAPS

(***************************************************************************)
(* Sums of sequences.  SumOf is defined by recursion, so that a sum is a   *)
(* number is shown by induction: over the set of the lengths for which it  *)
(* holds, from the well-founded order of the finite sets of numbers.       *)
(***************************************************************************)
\* A set of natural numbers has a least element.
LEMMA NatLeast ==
    ASSUME NEW T \in SUBSET Nat, T # {}
    PROVE  \E n \in T : \A m \in T : n <= m
<1> DEFINE Down(n) == {m \in T : m <= n}
           Downs == {Down(n) : n \in T}
<1>1. Downs \subseteq FiniteSubsetsOf(Nat)
  <2> SUFFICES ASSUME NEW n \in T PROVE Down(n) \in FiniteSubsetsOf(Nat)
    OBVIOUS
  <2>1. IsFiniteSet(Down(n))
    BY FS_BoundedSetOfNaturals
  <2> QED
    BY <2>1 DEF FiniteSubsetsOf
<1>2. PICK D \in Downs : \A E \in Downs : <<E, D>> \notin StrictSubsetOrdering(Nat)
  <2>1. Downs # {}
    OBVIOUS
  <2>2. IsWellFoundedOn(StrictSubsetOrdering(Nat), FiniteSubsetsOf(Nat))
    BY FS_StrictSubsetOrderingWellFounded
  <2> HIDE DEF Downs
  <2> QED
    BY <1>1, <2>1, <2>2, WFMin
<1>3. PICK n \in T : D = Down(n)
  OBVIOUS
<1>4. ASSUME NEW m \in T, m < n PROVE FALSE
  <2>1. Down(m) \subseteq Down(n) /\ n \in Down(n) /\ n \notin Down(m)
    <3>1. \A k \in T : k \in Nat
      OBVIOUS
    <3>2. \A k \in T : k <= m => k <= n
      BY <1>4, <3>1
    <3>3. ~(n <= m) /\ n <= n
      BY <1>4, <3>1
    <3> QED
      BY <3>2, <3>3
  <2>2. Down(m) \in SUBSET Nat /\ Down(n) \in SUBSET Nat
    OBVIOUS
  <2> HIDE DEF Down
  <2>3. <<Down(m), Down(n)>> \in StrictSubsetOrdering(Nat)
    BY <2>1, <2>2 DEF StrictSubsetOrdering
  <2>4. Down(m) \in Downs
    OBVIOUS
  <2> QED
    BY <1>2, <1>3, <2>3, <2>4
<1> QED
  BY <1>4

\* Induction, for a set in place of a predicate.
LEMMA NatSet ==
    ASSUME NEW T, 0 \in T, \A n \in Nat : n \in T => n + 1 \in T
    PROVE  Nat \subseteq T
<1> SUFFICES ASSUME Nat \ T # {} PROVE FALSE
  OBVIOUS
<1>1. PICK n \in Nat \ T : \A m \in Nat \ T : n <= m
  BY NatLeast
<1>2. n # 0 /\ n - 1 \in Nat /\ n - 1 \in T
  BY <1>1
<1> QED
  BY <1>1, <1>2

\* The sums of the first 0..n members of f.
IsSumOf(sum, f, n) == sum = [i \in 0..n |-> IF i = 0 THEN 0 ELSE sum[i - 1] + f[i]]

LEMMA SumExists ==
    ASSUME NEW N \in Nat, NEW f \in [1..N -> Int]
    PROVE  \E sum \in [0..N -> Int] : IsSumOf(sum, f, N)
<1> DEFINE T == {n \in Nat : n <= N => \E sum \in [0..n -> Int] : IsSumOf(sum, f, n)}
<1>1. 0 \in T
  <2>1. [i \in 0..0 |-> 0] \in [0..0 -> Int] /\ IsSumOf([i \in 0..0 |-> 0], f, 0)
    BY DEF IsSumOf
  <2> QED
    BY <2>1
<1>2. ASSUME NEW n \in Nat, n \in T PROVE n + 1 \in T
  <2> SUFFICES ASSUME n + 1 <= N PROVE \E sum \in [0..(n + 1) -> Int] : IsSumOf(sum, f, n + 1)
    OBVIOUS
  <2>1. PICK s \in [0..n -> Int] : IsSumOf(s, f, n)
    BY <1>2
  <2> DEFINE t == [i \in 0..(n + 1) |-> IF i = n + 1 THEN s[n] + f[n + 1] ELSE s[i]]
  <2>2. n + 1 \in 1..N /\ f[n + 1] \in Int /\ s[n] \in Int
    OBVIOUS
  <2>3. t \in [0..(n + 1) -> Int]
    BY <2>2
  <2>4. \A i \in 0..(n + 1) : t[i] = IF i = 0 THEN 0 ELSE t[i - 1] + f[i]
    BY <2>1 DEF IsSumOf
  <2>5. IsSumOf(t, f, n + 1)
    BY <2>3, <2>4 DEF IsSumOf
  <2> QED
    BY <2>3, <2>5
<1> HIDE DEF T
<1>3. N \in T
  BY <1>1, <1>2, NatSet
<1> QED
  BY <1>3 DEF T

LEMMA SumUnique ==
    ASSUME NEW N \in Nat, NEW f \in [1..N -> Int], NEW s, NEW t, IsSumOf(s, f, N), IsSumOf(t, f, N)
    PROVE  s = t
<1> DEFINE T == {n \in Nat : n <= N => s[n] = t[n]}
<1>1. 0 \in T
  BY DEF IsSumOf
<1>2. ASSUME NEW n \in Nat, n \in T PROVE n + 1 \in T
  BY <1>2 DEF IsSumOf
<1> HIDE DEF T
<1>3. Nat \subseteq T
  BY <1>1, <1>2, NatSet
<1>4. \A n \in 0..N : s[n] = t[n]
  BY <1>3 DEF T
<1> QED
  BY <1>4 DEF IsSumOf

LEMMA SumType ==
    ASSUME NEW N \in Nat, NEW f \in [1..N -> Int]
    PROVE  SumOf(f) \in Int
<1>1. Len(f) = N
  OBVIOUS
<1> DEFINE sum == CHOOSE s : IsSumOf(s, f, N)
<1>2. IsSumOf(sum, f, N)
  BY SumExists
<1>3. SumOf(f) = sum[N]
  BY <1>1 DEF SumOf, IsSumOf
<1>4. PICK t \in [0..N -> Int] : IsSumOf(t, f, N)
  BY SumExists
<1> HIDE DEF sum
<1>5. sum = t
  BY <1>2, <1>4, SumUnique
<1> QED
  BY <1>3, <1>4, <1>5

-----------------------------------------------------------------------------
(***************************************************************************)
(* Rounding, products and the grid                                         *)
(***************************************************************************)
\* r is at most half of 1 away from a / b.
Nearest(r, a, b) == r \in Int /\ 2 * (b * r) <= 2 * a + b /\ 2 * a - b <= 2 * (b * r)

LEMMA RoundBounds ==
    ASSUME NEW a \in Int, NEW b \in Nat \ {0}
    PROVE  Nearest(RoundDiv(a, b), a, b)
<1> DEFINE q == a \div b
           m == a % b
<1>1. q \in Int /\ m \in 0..(b - 1) /\ a = b * q + m
  OBVIOUS
<1>2. RoundDiv(a, b) = IF 2 * m > b \/ (2 * m = b /\ q % 2 = 1) THEN q + 1 ELSE q
  BY DEF RoundDiv
<1> HIDE DEF q, m
<1>3. b * (q + 1) = b * q + b
  BY <1>1
<1>4. CASE RoundDiv(a, b) = q + 1 /\ 2 * m >= b
  BY <1>1, <1>3, <1>4 DEF Nearest
<1>5. CASE RoundDiv(a, b) = q /\ 2 * m <= b
  BY <1>1, <1>5 DEF Nearest
<1> QED
  BY <1>1, <1>2, <1>4, <1>5

LEMMA Products ==
    /\ \A a, b \in Int, n \in Nat : a <= b => n * a <= n * b
    /\ \A a, b \in Int, n \in Nat \ {0} : n * a <= n * b => a <= b
<1>1. ASSUME NEW a \in Int, NEW b \in Int, NEW n \in Nat, a <= b PROVE n * a <= n * b
  <2>1. b - a \in Nat /\ n * (b - a) \in Nat
    BY <1>1
  <2>2. n * (b - a) = n * b - n * a
    OBVIOUS
  <2> QED
    BY <2>1, <2>2
<1>2. ASSUME NEW a \in Int, NEW b \in Int, NEW n \in Nat \ {0}, n * a <= n * b PROVE a <= b
  <2> SUFFICES ASSUME b + 1 <= a PROVE FALSE
    OBVIOUS
  <2>1. n * (b + 1) <= n * a
    BY <1>1
  <2>2. n * (b + 1) = n * b + n
    OBVIOUS
  <2> QED
    BY <1>2, <2>1, <2>2
<1> QED
  BY <1>1, <1>2

\* A whole number of ticks.
OnGrid(p, tick) == \E r \in Int : p = tick * r

LEMMA TickBounds ==
    ASSUME NEW a \in Int, NEW b \in Nat \ {0}, NEW tick \in Nat \ {0}, NEW p, p = RoundTick(a, b, tick)
    PROVE  /\ p \in Int /\ OnGrid(p, tick) /\ b * p \in Int /\ b * tick \in Int
           /\ 2 * (b * p) <= 2 * a + b * tick
           /\ 2 * a - b * tick <= 2 * (b * p)
<1> DEFINE r == RoundDiv(a, b * tick)
<1>1. b * tick \in Nat \ {0}
  <2>1. b * 1 <= b * tick
    BY Products
  <2> QED
    BY <2>1
<1>2. Nearest(r, a, b * tick)
  BY <1>1, RoundBounds
<1>3. p = tick * r
  BY DEF RoundTick
<1> HIDE DEF r
<1>4. r \in Int /\ 2 * ((b * tick) * r) <= 2 * a + b * tick /\ 2 * a - b * tick <= 2 * ((b * tick) * r)
  BY <1>2 DEF Nearest
<1>5. (b * tick) * r = b * (tick * r)
  BY <1>4
<1> QED
  BY <1>1, <1>3, <1>4, <1>5 DEF OnGrid

\* Of two prices on the grid, the larger is a tick larger.
LEMMA GridGap ==
    ASSUME NEW tick \in Nat \ {0}, NEW p, NEW q, OnGrid(p, tick), OnGrid(q, tick)
    PROVE  p \in Int /\ q \in Int /\ (p < q => p + tick <= q)
<1>1. PICK r \in Int : p = tick * r
  BY DEF OnGrid
<1>2. PICK s \in Int : q = tick * s
  BY DEF OnGrid
<1>3. ASSUME p < q PROVE p + tick <= q
  <2>1. r + 1 <= s
    <3> SUFFICES ASSUME s <= r PROVE FALSE
      OBVIOUS
    <3>1. tick * s <= tick * r
      BY Products
    <3> QED
      BY <1>1, <1>2, <1>3, <3>1
  <2>2. tick * (r + 1) <= tick * s /\ tick * (r + 1) = tick * r + tick
    BY <2>1, Products
  <2> QED
    BY <1>1, <1>2, <2>2
<1> QED
  BY <1>1, <1>2, <1>3

LEMMA GridGain ==
    ASSUME NEW tick \in Nat \ {0}, NEW p, NEW q, OnGrid(p, tick), OnGrid(q, tick), NEW d \in Sides
    PROVE  /\ p \in Int /\ q \in Int /\ Gain(d, p, q) \in Int
           /\ Gain(d, p, q) > 0 => Gain(d, p, q) >= tick
           /\ Gain(d, p, q) + tick > 0 => Gain(d, p, q) >= 0
<1>1. p \in Int /\ q \in Int /\ (p < q => p + tick <= q) /\ (q < p => q + tick <= p)
  BY GridGap
<1> QED
  BY <1>1 DEF Gain, Sides

LEMMA Gains ==
    /\ \A d \in Sides, x, y \in Int : Gain(d, x, y) \in Int
    /\ \A d \in Sides, r, x, y \in Int : Gain(d, x, y) = Gain(d, r, y) - Gain(d, r, x)
  BY DEF Gain, Sides

\* The price at a share of another, in front of it.
LEMMA ShareBounds ==
    ASSUME NEW d \in Sides, NEW ref \in Int, NEW m \in Nat, NEW tick \in Nat \ {0}, NEW p,
           p = RoundTick(ref * (Whole + Ahead(d, m)), Whole, tick)
    PROVE  /\ OnGrid(p, tick) /\ Gain(d, ref, p) \in Int /\ ref * m \in Int
           /\ 40000 * Gain(d, ref, p) <= 2 * (ref * m) + 20000 * tick
           /\ 2 * (ref * m) - 20000 * tick <= 40000 * Gain(d, ref, p)
<1> DEFINE x == ref * (Whole + Ahead(d, m))
<1>1. x = 20000 * ref + Ahead(d, ref * m) /\ ref * m \in Int /\ x \in Int
  <2>1. ref * (20000 + Ahead(d, m)) = 20000 * ref + ref * Ahead(d, m)
    BY DEF Ahead
  <2>2. ref * Ahead(d, m) = Ahead(d, ref * m)
    BY DEF Ahead
  <2>3. ref * m \in Int
    OBVIOUS
  <2> QED
    BY <2>1, <2>2, <2>3 DEF Whole, Ahead
<1> HIDE DEF x
<1>2. /\ p \in Int /\ OnGrid(p, tick)
      /\ 2 * (20000 * p) <= 2 * x + 20000 * tick
      /\ 2 * x - 20000 * tick <= 2 * (20000 * p)
  <2>1. p = RoundTick(x, Whole, tick) /\ Whole \in Nat \ {0}
    BY DEF x, Whole
  <2>2. x \in Int
    BY <1>1
  <2>3. /\ p \in Int /\ OnGrid(p, tick)
        /\ 2 * (Whole * p) <= 2 * x + Whole * tick
        /\ 2 * x - Whole * tick <= 2 * (Whole * p)
    BY ONLY <2>1, <2>2, tick \in Nat \ {0}, TickBounds
  <2> QED
    BY <2>3 DEF Whole
<1> QED
  BY <1>1, <1>2 DEF Gain, Ahead, Sides
-----------------------------------------------------------------------------
(***************************************************************************)
(* The book, the tick and the entry price                                  *)
(***************************************************************************)
LEMMA Levels ==
    ASSUME NEW book, WellFormed(book), NEW side \in {book.bids, book.asks}
    PROVE  /\ Len(side) \in Nat /\ DOMAIN side = 1..Len(side)
           /\ \A i \in 1..Len(side) : side[i].price \in Nat \ {0}
           /\ BestPrice(side) \in Nat
<1> DEFINE Level == [price : Nat \ {0}, size : Nat \ {0}]
<1>1. side \in Seq(Level)
  BY DEF WellFormed
<1>2. Len(side) \in Nat /\ DOMAIN side = 1..Len(side) /\ \A i \in 1..Len(side) : side[i] \in Level
  <2> HIDE DEF Level
  <2> QED
    BY <1>1
<1>3. side # <<>> => side[1] \in Level
  <2> HIDE DEF Level
  <2> QED
    BY <1>1
<1> QED
  BY <1>2, <1>3 DEF BestPrice

LEMMA Mids ==
    ASSUME NEW book, WellFormed(book)
    PROVE  /\ BestPrice(book.bids) \in Nat /\ BestPrice(book.asks) \in Nat
           /\ TwiceMid(book) \in Nat /\ Spread(book) \in Int
<1>1. BestPrice(book.bids) \in Nat /\ BestPrice(book.asks) \in Nat
  BY Levels
<1> QED
  BY <1>1 DEF TwiceMid, Spread, WellFormed

LEMMA TickPositive ==
    ASSUME NEW book, NEW given \in Int
    PROVE  TickOf(book, given) \in Nat \ {0}
<1>1. PICK k \in Nat \ {0} : Dollar = 100000 * k
  <2>1. Dollar \in Int /\ 100000 \in Nat \ {0} /\ Dollar % 100000 = 0 /\ Dollar > 0
    BY DollarAssumption
  <2> DEFINE q == Dollar \div 100000
             m == Dollar % 100000
  <2>2. q \in Int /\ Dollar = 100000 * q + m /\ m = 0
    BY <2>1
  <2> QED
    BY <2>1, <2>2
<1>2. /\ Dollar \div 10 = 10000 * k /\ Dollar \div 100 = 1000 * k
      /\ Dollar \div 10000 = 10 * k /\ Dollar \div 100000 = k
  BY <1>1
<1> QED
  BY <1>2 DEF TickOf, InferTick

\* The entry price is on the grid.
LEMMA EntryGrid ==
    ASSUME NEW book, WellFormed(book), NEW d \in Sides, NEW tick \in Nat \ {0}
    PROVE  OnGrid(Entry(d, book, tick), tick)
<1> DEFINE own == IF d = "LONG" THEN book.bids ELSE book.asks
           maker == IF own = <<>> THEN 0 ELSE MakerEntry(d, book, tick)
           back == RoundTick(5 * TwiceMid(book), 20000, tick)
<1>1. BestPrice(book.bids) \in Int /\ BestPrice(book.asks) \in Int /\ TwiceMid(book) \in Int
  BY Mids
<1>2. OnGrid(MakerEntry(d, book, tick), tick)
  <2>1. PICK a \in Int : MakerEntry(d, book, tick) = RoundTick(a, 1, tick)
    BY <1>1 DEF MakerEntry, Gain, Ahead, Most, Least, Sides
  <2> QED
    BY <2>1, TickBounds
<1>3. OnGrid(RoundTick(TwiceMid(book) - Ahead(d, 2 * back), 2, tick), tick)
  <2>1. 5 * TwiceMid(book) \in Int /\ 20000 \in Nat \ {0}
    BY <1>1
  <2>2. back \in Int
    BY <2>1, TickBounds
  <2> HIDE DEF back
  <2>3. TwiceMid(book) - Ahead(d, 2 * back) \in Int
    BY <1>1, <2>2 DEF Ahead
  <2> QED
    BY <2>3, TickBounds
<1>4. Entry(d, book, tick) = IF maker > 0 THEN maker ELSE RoundTick(TwiceMid(book) - Ahead(d, 2 * back), 2, tick)
  BY DEF Entry
<1>5. own # <<>> => maker = MakerEntry(d, book, tick)
  OBVIOUS
<1>6. own = <<>> => ~(maker > 0)
  OBVIOUS
<1> HIDE DEF own, maker, back
<1> QED
  BY <1>2, <1>3, <1>4, <1>5, <1>6 DEF back

-----------------------------------------------------------------------------
(***************************************************************************)
(* The stop                                                                *)
(***************************************************************************)
\* What StopSound says, by the distance of the stop.
StopsAt(loss, ref, tick, limit) ==
    /\ loss \in Int /\ loss >= 0 /\ 40000 * loss <= 320 * ref + 100000 * tick
    /\ 2 * (Least(limit, 100) * ref) > 20000 * tick => loss > 0

LEMMA StopGain ==
    ASSUME NEW d \in Sides, NEW ref, NEW sl, NEW tick \in Nat \ {0}, NEW limit \in Nat, limit <= 160,
           StopsAt(Gain(d, sl, ref), ref, tick, limit), ref \in Int, NEW plan,
           plan.entry = ref, plan.sl = sl
    PROVE  StopSound(plan, d, tick, limit)
<1> DEFINE g == Gain(d, sl, ref)
<1>1. g \in Int /\ g >= 0 /\ 40000 * g <= 320 * ref + 100000 * tick
      /\ (2 * (Least(limit, 100) * ref) > 20000 * tick => g > 0)
  BY DEF StopsAt
<1>2. g = Gain(d, plan.sl, plan.entry)
  OBVIOUS
<1>3. Least(limit, 100) \in Int /\ 2 * Least(limit, 100) * plan.entry = 2 * (Least(limit, 100) * ref)
  BY DEF Least
<1> HIDE DEF g
<1> QED
  BY <1>1, <1>2, <1>3 DEF StopSound, Whole

\* A limit of the stop without a wall.
LEMMA StopAtShare ==
    ASSUME NEW d \in Sides, NEW ref, NEW m \in Nat, NEW tick \in Nat \ {0}, NEW sl, ref \in Int,
           sl = RoundTick(ref * (Whole - Ahead(d, m)), Whole, tick)
    PROVE  /\ OnGrid(sl, tick) /\ Gain(d, sl, ref) \in Int /\ ref * m \in Int
           /\ 40000 * Gain(d, sl, ref) <= 2 * (ref * m) + 20000 * tick
           /\ 2 * (ref * m) - 20000 * tick <= 40000 * Gain(d, sl, ref)
<1>1. PICK e \in Sides : e # d
  BY DEF Sides
<1>2. Whole - Ahead(d, m) = Whole + Ahead(e, m)
  BY <1>1 DEF Ahead, Sides, Whole
<1>3. /\ OnGrid(sl, tick) /\ Gain(e, ref, sl) \in Int /\ ref * m \in Int
      /\ 40000 * Gain(e, ref, sl) <= 2 * (ref * m) + 20000 * tick
      /\ 2 * (ref * m) - 20000 * tick <= 40000 * Gain(e, ref, sl)
  BY <1>2, ShareBounds
<1>4. Gain(e, ref, sl) = Gain(d, sl, ref)
  BY <1>1 DEF Gain, Sides
<1> QED
  BY <1>3, <1>4

LEMMA DistinctLevels ==
    ASSUME NEW side, NEW top \in Nat, Len(side) \in Nat
    PROVE  Distinct(side, top) \subseteq 1..Len(side)
<1>1. Walls(side, top) \subseteq 1..Least(top, Len(side))
  BY DEF Walls
<1>2. Distinct(side, top) \subseteq Walls(side, top)
  BY DEF Distinct
<1> QED
  BY <1>1, <1>2 DEF Least

LEMMA WallStopBounds ==
    ASSUME NEW book, WellFormed(book), NEW d \in Sides, NEW tick \in Nat \ {0},
           NEW ref, ref > 0, OnGrid(ref, tick), ref \in Int,
           NEW vol \in Nat, NEW exitSl \in Nat, NEW sl \in WallStops(d, book, ref, tick, vol, exitSl)
    PROVE  /\ OnGrid(sl, tick) /\ sl \in Int
           /\ StopsAt(Gain(d, sl, ref), ref, tick, SlLimit(vol, exitSl))
<1> DEFINE most == SlLimit(vol, exitSl)
           side == IF d = "LONG" THEN book.bids ELSE book.asks
           at(i) == RoundTick(side[i].price - Ahead(d, 2 * tick), 1, tick)
           loss(i) == Whole * Gain(d, side[i].price, ref)
           m == Least(most, 100)
<1>1. most \in Nat /\ most <= 160 /\ m \in Nat /\ m <= 100
  BY DEF SlLimit, Least
<1>2. \/ \E i \in Distinct(side, 60) : /\ loss(i) <= most * ref /\ Gain(d, at(i), ref) > 0
                                       /\ sl = at(i)
      \/ sl = RoundTick(ref * (Whole - Ahead(d, m)), Whole, tick)
  BY DEF WallStops
<1>3. ASSUME NEW i \in Distinct(side, 60), loss(i) <= most * ref, Gain(d, at(i), ref) > 0, sl = at(i)
      PROVE  OnGrid(sl, tick) /\ StopsAt(Gain(d, sl, ref), ref, tick, most)
  <2> DEFINE price == side[i].price
             g == Gain(d, price, ref)
             h == Gain(d, sl, ref)
  <2>1. price \in Int
    <3>1. side \in {book.bids, book.asks}
      OBVIOUS
    <3> HIDE DEF side
    <3>2. Len(side) \in Nat /\ \A j \in 1..Len(side) : side[j].price \in Nat
      BY <3>1, Levels
    <3> QED
      BY <3>2, DistinctLevels
  <2>2. sl = RoundTick(price - Ahead(d, 2 * tick), 1, tick)
    BY <1>3
  <2>3. 20000 * g <= most * ref /\ h > 0
    BY <1>3 DEF Whole
  <2> HIDE DEF price, most, m
  <2>4. price - Ahead(d, 2 * tick) \in Int /\ 1 \in Nat \ {0}
    BY <2>1 DEF Ahead
  <2> DEFINE y == price - Ahead(d, 2 * tick)
  <2> HIDE DEF y
  <2>9. /\ sl \in Int /\ OnGrid(sl, tick)
        /\ 2 * (1 * sl) <= 2 * y + 1 * tick
        /\ 2 * y - 1 * tick <= 2 * (1 * sl)
    <3>1. y \in Int /\ 1 \in Nat \ {0} /\ sl = RoundTick(y, 1, tick)
      BY <2>2, <2>4 DEF y
    <3> QED
      BY ONLY <3>1, tick \in Nat \ {0}, TickBounds
  <2>5. /\ sl \in Int /\ OnGrid(sl, tick)
        /\ 2 * sl <= 2 * (price - Ahead(d, 2 * tick)) + tick
        /\ 2 * (price - Ahead(d, 2 * tick)) - tick <= 2 * sl
    BY <2>4, <2>9 DEF y
  <2>6. g \in Int /\ h \in Int /\ 2 * h <= 2 * g + 5 * tick
    BY <2>1, <2>5 DEF Gain, Ahead, Sides
  <2>7. most * ref <= 160 * ref /\ most * ref \in Int
    <3>1. ref * most <= ref * 160
      BY <1>1, Products
    <3> QED
      BY <1>1, <3>1
  <2>8. 40000 * h <= 320 * ref + 100000 * tick
    <3> HIDE DEF g, h
    <3> QED
      BY <2>3, <2>6, <2>7
  <2> HIDE DEF g
  <2> QED
    BY <2>3, <2>5, <2>6, <2>8 DEF StopsAt
<1>4. ASSUME sl = RoundTick(ref * (Whole - Ahead(d, m)), Whole, tick)
      PROVE  OnGrid(sl, tick) /\ StopsAt(Gain(d, sl, ref), ref, tick, most)
  <2> DEFINE h == Gain(d, sl, ref)
  <2> HIDE DEF m, most
  <2>1. /\ OnGrid(sl, tick) /\ h \in Int /\ ref * m \in Int
        /\ 40000 * h <= 2 * (ref * m) + 20000 * tick
        /\ 2 * (ref * m) - 20000 * tick <= 40000 * h
    BY <1>1, <1>4, StopAtShare
  <2>2. ref * m <= ref * 100 /\ 0 <= ref * m /\ m * ref = ref * m
    <3>1. ref * 0 <= ref * m /\ ref * m <= ref * 100
      BY <1>1, Products
    <3> QED
      BY <1>1, <3>1
  <2>3. h + tick > 0 => h >= 0
    BY <2>1, GridGain
  <2> HIDE DEF h
  <2>4. h >= 0 /\ 40000 * h <= 320 * ref + 100000 * tick
    BY <2>1, <2>2, <2>3
  <2>5. 2 * (m * ref) > 20000 * tick => h > 0
    BY <2>1, <2>2
  <2>6. m = Least(most, 100) /\ h = Gain(d, sl, ref)
    BY DEF m, h
  <2> QED
    BY <2>1, <2>4, <2>5, <2>6 DEF StopsAt
<1>5. OnGrid(sl, tick) /\ StopsAt(Gain(d, sl, ref), ref, tick, most)
  BY <1>2, <1>3, <1>4
<1>6. sl \in Int
  BY <1>5, GridGap
<1> QED
  BY <1>5, <1>6

\* A stop that is no price is that of a price of two and a half ticks at most, where
\* no limit is more than half a tick.
LEMMA StopBounds ==
    ASSUME NEW book, WellFormed(book), NEW d \in Sides, NEW tick \in Nat \ {0},
           NEW ref, ref > 0, OnGrid(ref, tick),
           NEW vol \in Nat, NEW exitSl \in Nat, exitSl <= 160,
           NEW sl \in StopLosses(d, book, ref, tick, vol, exitSl)
    PROVE  StopsAt(Gain(d, sl, ref), ref, tick, SlLimit(vol, exitSl))
<1> DEFINE limit == SlLimit(vol, exitSl)
           m == Least(limit, 100)
           last == RoundTick(ref * (Whole - Ahead(d, exitSl)), Whole, tick)
<1>1. ref \in Int
  BY GridGap
<1>2. limit \in Nat /\ limit <= 160 /\ m \in Nat /\ m <= 100
  BY DEF SlLimit, Least
<1>3. PICK x \in WallStops(d, book, ref, tick, vol, exitSl) : sl = IF x > 0 THEN x ELSE last
  BY DEF StopLosses
<1>4. x \in Int /\ StopsAt(Gain(d, x, ref), ref, tick, limit)
  BY <1>1, WallStopBounds
<1>5. CASE ~(x > 0)
  <2> DEFINE g == Gain(d, x, ref)
             h == Gain(d, sl, ref)
  <2>1. g \in Int /\ 0 <= g /\ 40000 * g <= 320 * ref + 100000 * tick
    BY <1>4 DEF StopsAt
  <2>2. ref <= g
    BY <1>1, <1>4, <1>5, <2>1 DEF Gain, Sides
  <2> HIDE DEF g, m, last
  <2>3. 39680 * ref <= 100000 * tick
    BY <1>1, <2>1, <2>2
  <2>4. sl = last
    BY <1>3, <1>5
  <2>5. /\ OnGrid(sl, tick) /\ h \in Int /\ ref * exitSl \in Int
        /\ 40000 * h <= 2 * (ref * exitSl) + 20000 * tick
        /\ 2 * (ref * exitSl) - 20000 * tick <= 40000 * h
    BY <1>1, <2>4, StopAtShare DEF last
  <2>6. 0 <= ref * exitSl /\ ref * exitSl <= ref * 160
    <3>1. ref * 0 <= ref * exitSl /\ ref * exitSl <= ref * 160
      BY <1>1, Products
    <3> QED
      BY <1>1, <3>1
  <2>10. OnGrid(sl, tick) /\ OnGrid(ref, tick)
    BY <2>5
  <2>7. h + tick > 0 => h >= 0
    BY ONLY <2>10, d \in Sides, tick \in Nat \ {0}, GridGain
  <2> HIDE DEF h
  <2>8. h >= 0 /\ 40000 * h <= 320 * ref + 100000 * tick
    BY <1>1, <2>5, <2>6, <2>7
  <2>9. ~(2 * (m * ref) > 20000 * tick)
    <3>1. ref * m <= ref * 100 /\ m * ref = ref * m /\ ref * m \in Int
      BY <1>1, <1>2, Products
    <3> QED
      BY <1>1, <2>3, <3>1
  <2>11. m = Least(limit, 100) /\ h = Gain(d, sl, ref)
    BY DEF m, h
  <2> QED
    BY <2>5, <2>8, <2>9, <2>11 DEF StopsAt
<1> QED
  BY <1>3, <1>4, <1>5
-----------------------------------------------------------------------------
(***************************************************************************)
(* The take-profits before the knife conditions                            *)
(***************************************************************************)
LEMMA ImageFinite ==
    ASSUME NEW S, IsFiniteSet(S), NEW f
    PROVE  IsFiniteSet({f[x] : x \in S})
<1> DEFINE T == {f[x] : x \in S}
           g == [x \in S |-> f[x]]
<1>1. g \in Surjection(S, T)
  BY DEF Surjection
<1> HIDE DEF g, T
<1>2. IsFiniteSet(T)
  BY <1>1, FS_Surjection
<1> QED
  BY <1>2 DEF T

\* A cluster has at least one wall, so that its mean exists.
LEMMA ClusterType ==
    ASSUME NEW book, WellFormed(book), NEW side \in {book.bids, book.asks}, NEW tick \in Nat \ {0}
    PROVE  /\ IsFiniteSet(Clusters(side, Distinct(side, 30), tick))
           /\ \A c \in Clusters(side, Distinct(side, 30), tick) : c.sum \in Int /\ c.n \in Nat \ {0}
<1> DEFINE walls == Distinct(side, 30)
           price(i) == side[i].price
           joins(i) == \E j \in walls : /\ price(j) < price(i)
                                        /\ 1000 * (price(i) - price(j)) <= Most(3000 * tick, 2 * price(j))
           lowest == {i \in walls : ~joins(i)}
           from(i) == {j \in walls : /\ price(j) >= price(i)
                                     /\ \A k \in lowest : price(k) \notin (price(i) + 1)..price(j)}
           prices(i) == [j \in DOMAIN side |-> IF j \in from(i) THEN price(j) ELSE 0]
           cluster == [i \in lowest |-> [sum |-> SumOf(prices(i)), n |-> Cardinality(from(i))]]
<1>1. Clusters(side, walls, tick) = {cluster[i] : i \in lowest}
  BY DEF Clusters
<1>2. /\ Len(side) \in Nat /\ DOMAIN side = 1..Len(side)
      /\ \A i \in 1..Len(side) : price(i) \in Nat
  BY Levels
<1>3. walls \subseteq 1..Len(side)
  BY <1>2, DistinctLevels
<1>4. IsFiniteSet(walls)
  <2>1. IsFiniteSet(1..Len(side))
    BY <1>2, FS_Interval
  <2> HIDE DEF walls
  <2> QED
    BY <1>3, <2>1, FS_Subset
<1>5. ASSUME NEW i \in lowest
      PROVE  cluster[i].sum \in Int /\ cluster[i].n \in Nat \ {0}
  <2>1. prices(i) \in [1..Len(side) -> Int]
    <3> HIDE DEF from, price
    <3> QED
      BY <1>2
  <2>2. SumOf(prices(i)) \in Int
    <3> HIDE DEF prices
    <3> QED
      BY <1>2, <2>1, SumType
  <2>3. i \in from(i) /\ from(i) \subseteq walls
    <3>1. i \in walls /\ price(i) \in Nat
      BY <1>2, <1>3
    <3> HIDE DEF price
    <3> QED
      BY <3>1
  <2>4. IsFiniteSet(from(i)) /\ Cardinality(from(i)) \in Nat /\ Cardinality(from(i)) # 0
    <3> HIDE DEF from, walls
    <3> QED
      BY <1>4, <2>3, FS_Subset, FS_CardinalityType, FS_EmptySet
  <2>5. cluster[i] = [sum |-> SumOf(prices(i)), n |-> Cardinality(from(i))]
    OBVIOUS
  <2> HIDE DEF cluster, from, prices
  <2> QED
    BY <2>2, <2>4, <2>5
<1>6. IsFiniteSet({cluster[i] : i \in lowest})
  <2>1. IsFiniteSet(lowest)
    BY <1>4, FS_Subset
  <2> HIDE DEF cluster, lowest
  <2> QED
    BY <2>1, ImageFinite
<1> HIDE DEF cluster, lowest
<1> QED
  BY <1>1, <1>5, <1>6

\* What a take-profit is before the knife conditions tighten it: a target, at least 1 %
\* away but for the two and a half ticks that it is placed before its wall, or 0.345 %
\* away but for half a tick.
Pays(d, ref, tick, spread, maxTp, tp) ==
    /\ OnGrid(tp, tick) /\ Gain(d, ref, tp) >= 0
    /\ 40000 * Gain(d, ref, tp) <= 2 * (Most(maxTp, 69) * ref) + 20000 * tick
    /\ 20000 * spread <= 96 * ref =>
         40000 * Gain(d, ref, tp) + 100000 * tick >= 42 * ref + 20000 * spread
    /\ \/ Gain(d, ref, tp) > 0 /\ 40000 * Gain(d, ref, tp) + 100000 * tick >= 400 * ref
       \/ 40000 * Gain(d, ref, tp) + 20000 * tick >= 138 * ref

\* A target two ticks before a cluster of n walls, whose prices have the sum.
Before(d, sum, n, tick) == sum - Ahead(d, 2 * n * tick)
Far(d, ref, sum, n) == Gain(d, n * ref, sum)
InReach(d, ref, sum, n, maxTp, spread) ==
    LET far == Far(d, ref, sum, n)
    IN  /\ 20000 * far >= 200 * (n * ref) /\ 20000 * far <= maxTp * (n * ref)
        /\ 40000 * far >= n * (42 * ref + 20000 * spread)
TargetAt(d, ref, sum, n, tick, tp) ==
    /\ OnGrid(tp, tick) /\ Gain(d, ref, tp) \in Int
    /\ Far(d, ref, sum, n) \in Int /\ n * Gain(d, ref, tp) \in Int /\ n * tick \in Int
    /\ 2 * (n * Gain(d, ref, tp)) <= 2 * Far(d, ref, sum, n)
    /\ 2 * Far(d, ref, sum, n) - 5 * (n * tick) <= 2 * (n * Gain(d, ref, tp))

LEMMA TargetGain ==
    ASSUME NEW d \in Sides, NEW ref \in Int, NEW sum \in Int, NEW n \in Nat \ {0},
           NEW tick \in Nat \ {0}, NEW tp, tp = RoundTick(Before(d, sum, n, tick), n, tick)
    PROVE  TargetAt(d, ref, sum, n, tick, tp)
<1> DEFINE x == Before(d, sum, n, tick)
<1>1. n * tick \in Int /\ n * tick >= 0 /\ x = sum - Ahead(d, 2 * (n * tick)) /\ x \in Int
  <2>1. n * tick \in Int /\ 2 * n * tick = 2 * (n * tick)
    OBVIOUS
  <2>2. n * 0 <= n * tick
    BY Products
  <2> QED
    BY <2>1, <2>2 DEF Ahead, Before
<1> HIDE DEF x
<1>2. /\ tp \in Int /\ OnGrid(tp, tick) /\ n * tp \in Int
      /\ 2 * (n * tp) <= 2 * x + n * tick /\ 2 * x - n * tick <= 2 * (n * tp)
  <2>1. tp = RoundTick(x, n, tick) /\ x \in Int
    BY <1>1 DEF x
  <2> QED
    BY ONLY <2>1, n \in Nat \ {0}, tick \in Nat \ {0}, TickBounds
<1>3. n * Gain(d, ref, tp) = Gain(d, n * ref, n * tp) /\ Gain(d, ref, tp) \in Int /\ n * ref \in Int
  BY <1>2 DEF Gain
<1> QED
  BY <1>1, <1>2, <1>3 DEF TargetAt, Far, Gain, Ahead, Sides

LEMMA OneTargetPays ==
    ASSUME NEW d \in Sides, NEW ref \in Int, ref > 0, NEW sum \in Int,
           NEW n \in Nat \ {0}, NEW tick \in Nat \ {0}, NEW tp, tp = RoundTick(Before(d, sum, n, tick), n, tick),
           NEW maxTp \in Nat, NEW spread \in Int, Gain(d, ref, tp) > 0,
           InReach(d, ref, sum, n, maxTp, spread)
    PROVE  Pays(d, ref, tick, spread, maxTp, tp)
<1> DEFINE g == Gain(d, ref, tp)
           far == Far(d, ref, sum, n)
           k == maxTp * ref
           s == 42 * ref + 20000 * spread
<1>1. /\ OnGrid(tp, tick) /\ g \in Int /\ far \in Int /\ n * g \in Int /\ n * tick \in Int
      /\ 2 * (n * g) <= 2 * far /\ 2 * far - 5 * (n * tick) <= 2 * (n * g)
  <2>1. TargetAt(d, ref, sum, n, tick, tp)
    BY TargetGain
  <2> QED
    BY <2>1 DEF TargetAt
<1>11. /\ 20000 * far >= 200 * (n * ref) /\ 20000 * far <= maxTp * (n * ref)
       /\ 40000 * far >= n * s
  BY DEF InReach
<1> HIDE DEF far
<1>2. k \in Int /\ maxTp * (n * ref) = n * k /\ s \in Int /\ n * k \in Int /\ n * s \in Int
      /\ n * ref \in Int
  BY SMT
<1>3. n * (20000 * g) <= n * k
  BY <1>1, <1>2, <1>11
<1>4. n * (400 * ref) <= n * (40000 * g + 100000 * tick)
  BY <1>1, <1>2, <1>11
<1>5. n * s <= n * (40000 * g + 100000 * tick)
  <2>1. n * s <= 40000 * far
    BY <1>1, <1>2, <1>11
  <2> HIDE DEF g, s
  <2> QED
    BY <1>1, <1>2, <2>1
<1>6. 400 * ref \in Int /\ 40000 * g + 100000 * tick \in Int /\ 20000 * g \in Int
  BY <1>1
<1> HIDE DEF k, s
<1>7. /\ 20000 * g <= k /\ 400 * ref <= 40000 * g + 100000 * tick
      /\ s <= 40000 * g + 100000 * tick
  <2> HIDE DEF g
  <2> QED
    BY <1>2, <1>3, <1>4, <1>5, <1>6, Products
<1>8. k <= Most(maxTp, 69) * ref /\ Most(maxTp, 69) * ref \in Int
  <2>1. Most(maxTp, 69) \in Nat /\ maxTp <= Most(maxTp, 69)
    BY DEF Most
  <2>2. ref * maxTp <= ref * Most(maxTp, 69)
    BY <2>1, Products
  <2> QED
    BY <2>1, <2>2 DEF k
<1>9. s = 42 * ref + 20000 * spread /\ g > 0
  BY DEF s
<1>10. g = Gain(d, ref, tp)
  BY DEF g
<1> HIDE DEF g
<1> QED
  BY <1>1, <1>2, <1>7, <1>8, <1>9, <1>10 DEF Pays

\* Every target pays.
LEMMA TargetsPay ==
    ASSUME NEW book, WellFormed(book), NEW d \in Sides, NEW ref, ref > 0, NEW tick \in Nat \ {0},
           OnGrid(ref, tick), NEW maxTp \in Nat
    PROVE  /\ IsFiniteSet(Targets(d, book, 2 * ref, tick, maxTp))
           /\ \A tp \in Targets(d, book, 2 * ref, tick, maxTp) :
                 Pays(d, ref, tick, Spread(book), maxTp, tp)
<1> DEFINE side == IF d = "LONG" THEN book.asks ELSE book.bids
           clusters == Clusters(side, Distinct(side, 30), tick)
           gain(c) == Gain(d, (2 * ref) * c.n, 2 * c.sum)
           tp(c) == RoundTick(c.sum - Ahead(d, 2 * c.n * tick), c.n, tick)
           fit == {c \in clusters : /\ 2 * ref > 0 /\ gain(c) > 0 /\ Gain(d, 2 * ref, 2 * tp(c)) > 0
                                    /\ Worthwhile(gain(c), c.n, 2 * ref, book)
                                    /\ Whole * gain(c) <= maxTp * c.n * (2 * ref)}
           tps == [c \in fit |-> tp(c)]
           spread == Spread(book)
<1>1. Targets(d, book, 2 * ref, tick, maxTp) = {tps[c] : c \in fit}
  BY DEF Targets
<1>2. IsFiniteSet(clusters) /\ \A c \in clusters : c.sum \in Int /\ c.n \in Nat \ {0}
  <2>1. side \in {book.bids, book.asks}
    OBVIOUS
  <2> HIDE DEF side
  <2> QED
    BY <2>1, ClusterType
<1>3. IsFiniteSet({tps[c] : c \in fit})
  <2>1. IsFiniteSet(fit)
    <3> HIDE DEF clusters
    <3> QED
      BY <1>2, FS_Subset
  <2> HIDE DEF tps, fit
  <2> QED
    BY <2>1, ImageFinite
<1>4. ref \in Int
  BY GridGap
<1>5. spread \in Int
  BY Mids
<1>6. ASSUME NEW c \in fit PROVE Pays(d, ref, tick, spread, maxTp, tps[c])
  <2> DEFINE n == c.n
             sum == c.sum
             t == tps[c]
             far == Far(d, ref, sum, n)
             g2 == gain(c)
  <2>1. n \in Nat \ {0} /\ sum \in Int
    <3> HIDE DEF clusters
    <3> QED
      BY <1>2
  <2>2. t = RoundTick(Before(d, sum, n, tick), n, tick)
    BY DEF Before
  <2>3. /\ g2 = Gain(d, (2 * ref) * n, 2 * sum) /\ Gain(d, 2 * ref, 2 * t) > 0
        /\ Worthwhile(g2, n, 2 * ref, book) /\ Whole * g2 <= maxTp * n * (2 * ref)
    OBVIOUS
  <2> HIDE DEF t, n, sum, g2
  <2>4. far \in Int /\ g2 = 2 * far /\ n * ref \in Int
    <3>1. (2 * ref) * n = 2 * (n * ref) /\ n * ref \in Int
      BY <1>4, <2>1
    <3> QED
      BY <2>1, <2>3, <3>1 DEF Gain, Far
  <2>5. t \in Int
    <3>1. Gain(d, ref, t) \in Int /\ OnGrid(t, tick)
      BY <1>4, <2>1, <2>2, TargetGain DEF TargetAt
    <3> QED
      BY <3>1, GridGap
  <2>6. Gain(d, ref, t) > 0
    BY <1>4, <2>3, <2>5 DEF Gain, Sides
  <2> HIDE DEF far, spread
  <2>7. 20000 * far >= 200 * (n * ref)
    <3>1. 20000 * (2 * far) >= 200 * n * (2 * ref)
      BY <2>3, <2>4 DEF Worthwhile, Whole
    <3>2. 200 * n * (2 * ref) = 400 * (n * ref)
      BY <1>4, <2>1
    <3> QED
      BY <2>4, <3>1, <3>2
  <2>8. 20000 * far <= maxTp * (n * ref)
    <3>1. 20000 * (2 * far) <= maxTp * n * (2 * ref)
      BY <2>3, <2>4 DEF Whole
    <3>2. maxTp * n * (2 * ref) = 2 * (maxTp * (n * ref)) /\ maxTp * (n * ref) \in Int
      BY <1>4, <2>1
    <3> QED
      BY <2>4, <3>1, <3>2
  <2>9. 40000 * far >= n * (42 * ref + 20000 * spread)
    <3>1. CASE book.bids = <<>> \/ book.asks = <<>>
      <4>1. spread = 0
        BY <3>1 DEF Spread, spread
      <4>2. 20000 * (2 * far) >= n * (23 * (2 * ref))
        BY <2>3, <2>4, <3>1 DEF Worthwhile, Whole
      <4>3. n * (23 * (2 * ref)) = 46 * (n * ref) /\ n * (42 * ref + 20000 * 0) = 42 * (n * ref)
        BY <1>4, <2>1
      <4>4. n * ref >= 0
        <5>1. n * 0 <= n * ref
          BY <1>4, <2>1, Products
        <5> QED
          BY <2>1, <5>1
      <4> QED
        BY <2>4, <4>1, <4>2, <4>3, <4>4
    <3>2. CASE book.bids # <<>> /\ book.asks # <<>>
      <4>1. spread = BestPrice(book.asks) - BestPrice(book.bids)
        BY <3>2 DEF Spread, spread
      <4>2. 20000 * (2 * far) >= n * (21 * (2 * ref) + 20000 * spread)
        BY <2>3, <2>4, <3>2, <4>1 DEF Worthwhile, Whole
      <4>3. 21 * (2 * ref) + 20000 * spread = 42 * ref + 20000 * spread
        BY <1>4, <1>5
      <4> QED
        BY <2>4, <4>2, <4>3
    <3> QED
      BY <3>1, <3>2
  <2>10. InReach(d, ref, sum, n, maxTp, spread)
    BY <2>7, <2>8, <2>9 DEF InReach, far
  <2>11. Pays(d, ref, tick, spread, maxTp, t)
    BY <1>4, <1>5, <2>1, <2>2, <2>6, <2>10, OneTargetPays
  <2> QED
    BY <2>11 DEF t
<1> HIDE DEF tps, fit
<1> QED
  BY <1>1, <1>3, <1>6

LEMMA FallbackPays ==
    ASSUME NEW d \in Sides, NEW ref, ref > 0, NEW tick \in Nat \ {0}, OnGrid(ref, tick),
           NEW maxTp \in Nat, NEW spread \in Int
    PROVE  Pays(d, ref, tick, spread, maxTp, FallbackTp(d, ref, tick, maxTp))
<1> DEFINE m == Most((4 * maxTp) \div 5, 69)
           tp == FallbackTp(d, ref, tick, maxTp)
           g == Gain(d, ref, tp)
<1>1. m \in Nat /\ m >= 69 /\ m <= Most(maxTp, 69)
  BY DEF Most
<1>2. tp = RoundTick(ref * (Whole + Ahead(d, m)), Whole, tick) /\ ref \in Int
  BY GridGap DEF FallbackTp
<1> HIDE DEF m, tp
<1>3. /\ OnGrid(tp, tick) /\ g \in Int /\ ref * m \in Int
      /\ 40000 * g <= 2 * (ref * m) + 20000 * tick
      /\ 2 * (ref * m) - 20000 * tick <= 40000 * g
  BY <1>1, <1>2, ShareBounds
<1>4. ref * 69 <= ref * m /\ ref * m <= Most(maxTp, 69) * ref /\ Most(maxTp, 69) * ref \in Int
  <2>1. Most(maxTp, 69) \in Nat
    BY DEF Most
  <2>2. ref * 69 <= ref * m /\ ref * m <= ref * Most(maxTp, 69)
    BY <1>1, <1>2, <2>1, Products
  <2> QED
    BY <1>2, <2>1, <2>2
<1>5. g + tick > 0 => g >= 0
  BY <1>3, GridGain
<1>6. g = Gain(d, ref, tp)
  OBVIOUS
<1> HIDE DEF g
<1>7. g >= 0 /\ 40000 * g + 20000 * tick >= 138 * ref
  BY <1>2, <1>3, <1>4, <1>5
<1>8. Pays(d, ref, tick, spread, maxTp, tp)
  BY <1>2, <1>3, <1>4, <1>6, <1>7 DEF Pays
<1> QED
  BY <1>8 DEF tp

\* The take-profits of a plan before they are tightened: at least one, and the next
\* always 0.1 % further than the last.
Apart(d, x, y, ref) == Gain(d, x, y) > 0 /\ 20000 * Gain(d, x, y) >= 20 * ref
Climbs(d, tps, n, ref) ==
    /\ n \in Nat \ {0} /\ tps \in [1..n -> Int]
    /\ \A i, j \in 1..n : i < j => Apart(d, tps[i], tps[j], ref)

LEMMA PickedSome ==
    ASSUME NEW twice, NEW targets \in SUBSET Int, IsFiniteSet(targets), targets # {},
           NEW C \in Picked(targets, twice)
    PROVE  Cardinality(C) \in Nat \ {0} /\ \A x \in C : x \in targets /\ x \in Int
<1> DEFINE apart(x, y) == Whole * Abs(x - y) >= 10 * twice
           room(tp) == \A x \in C : apart(tp, x)
<1>1. C \subseteq targets /\ IsFiniteSet(C) /\ Cardinality(C) \in Nat
  BY FS_Subset, FS_CardinalityType DEF Picked
<1>2. Cardinality(C) = 4 \/ \A tp \in targets \ C : ~room(tp)
  BY DEF Picked
<1>3. ASSUME C = {} PROVE Cardinality(C) # 0
  <2>1. \A tp : room(tp)
    <3> HIDE DEF apart
    <3> QED
      BY <1>3
  <2> HIDE DEF room
  <2>2. \E tp \in targets \ C : room(tp)
    BY <1>3, <2>1
  <2>3. Cardinality(C) = 4
    BY <1>2, <2>2
  <2> QED
    BY <2>3
<1>4. Cardinality(C) # 0
  BY <1>1, <1>3, FS_EmptySet
<1> QED
  BY <1>1, <1>4

LEMMA LaddersClimb ==
    ASSUME NEW d \in Sides, NEW ref \in Int,
           NEW targets \in SUBSET Int, IsFiniteSet(targets), targets # {},
           NEW C \in Picked(targets, 2 * ref), NEW tps \in Ladders(d, C)
    PROVE  /\ Climbs(d, tps, Cardinality(C), ref)
           /\ \A i \in 1..Cardinality(C) : tps[i] \in targets
<1> DEFINE n == Cardinality(C)
           apart(x, y) == Whole * Abs(x - y) >= 10 * (2 * ref)
<1>1. n \in Nat \ {0} /\ \A x \in C : x \in targets /\ x \in Int
  BY PickedSome
<1>2. \A x, y \in C : x # y => apart(x, y)
  BY DEF Picked
<1>3. tps \in [1..n -> C] /\ \A i, j \in 1..n : i < j => Gain(d, tps[i], tps[j]) > 0
  BY DEF Ladders
<1> HIDE DEF n, apart
<1>4. \A i \in 1..n : tps[i] \in C
  BY <1>3
<1>5. \A i \in 1..n : tps[i] \in targets /\ tps[i] \in Int
  BY <1>1, <1>4
<1>6. ASSUME NEW i \in 1..n, NEW j \in 1..n, i < j
      PROVE  Apart(d, tps[i], tps[j], ref)
  <2> DEFINE x == tps[i]
             y == tps[j]
  <2>1. x \in C /\ y \in C /\ x \in Int /\ y \in Int
    BY <1>4, <1>5
  <2>2. Gain(d, x, y) > 0
    BY <1>3, <1>6
  <2> HIDE DEF x, y
  <2>3. x # y
    BY <2>1, <2>2 DEF Gain, Sides
  <2>4. apart(x, y)
    BY <1>2, <2>1, <2>3
  <2>5. 20000 * Gain(d, x, y) >= 20 * ref
    BY <2>1, <2>2, <2>4 DEF Gain, Abs, Whole, Sides, apart
  <2> QED
    BY <2>2, <2>5 DEF x, y, Apart
<1>7. tps \in [1..n -> Int]
  BY <1>3, <1>5
<1>8. Climbs(d, tps, n, ref)
  BY <1>1, <1>6, <1>7 DEF Climbs
<1> QED
  BY <1>5, <1>8 DEF n

LEMMA SingleClimbs ==
    ASSUME NEW d, NEW ref, NEW tp \in Int
    PROVE  Climbs(d, <<tp>>, 1, ref)
  BY DEF Climbs

-----------------------------------------------------------------------------
(***************************************************************************)
(* Knife conditions                                                        *)
(***************************************************************************)
LEMMA TightenType ==
    \A score \in Nat : Tighten(score) \in 25..100 /\ (~IsKnife(score) => Tighten(score) = 100)
  BY DEF Tighten, Most

LEMMA Shares ==
    ASSUME NEW share \in 25..100, NEW g \in Nat
    PROVE  share * g \in Int /\ 25 * g <= share * g /\ share * g <= 100 * g
<1>1. g * 25 <= g * share /\ g * share <= g * 100
  BY Products
<1> QED
  BY <1>1

\* A share of the distance g, rounded.
ShareAt(d, ref, tick, share, g, t) ==
    /\ OnGrid(t, tick) /\ t \in Int /\ Gain(d, ref, t) \in Int /\ Gain(d, ref, t) >= 0
    /\ 200 * Gain(d, ref, t) <= 2 * (share * g) + 100 * tick
    /\ 2 * (share * g) - 100 * tick <= 200 * Gain(d, ref, t)

LEMMA OneTightened ==
    ASSUME NEW d \in Sides, NEW ref, NEW tick \in Nat \ {0}, OnGrid(ref, tick), NEW tp \in Int,
           Gain(d, ref, tp) >= 0, NEW share \in 25..100, NEW t,
           t = RoundTick(100 * ref + Ahead(d, share * Abs(tp - ref)), 100, tick)
    PROVE  ShareAt(d, ref, tick, share, Gain(d, ref, tp), t)
<1> DEFINE g == Gain(d, ref, tp)
           h == Gain(d, ref, t)
           x == 100 * ref + Ahead(d, share * g)
<1>1. ref \in Int
  BY GridGap
<1>2. g \in Nat /\ Abs(tp - ref) = g
  BY <1>1 DEF Gain, Abs, Sides
<1> HIDE DEF g
<1>3. share * g \in Int /\ 0 <= share * g
  BY <1>2, Shares
<1>4. x \in Int
  BY <1>1, <1>3 DEF Ahead
<1>5. t = RoundTick(x, 100, tick) /\ 100 \in Nat \ {0}
  BY <1>2
<1> HIDE DEF x
<1>6. /\ t \in Int /\ OnGrid(t, tick)
      /\ 2 * (100 * t) <= 2 * x + 100 * tick /\ 2 * x - 100 * tick <= 2 * (100 * t)
  BY ONLY <1>4, <1>5, tick \in Nat \ {0}, TickBounds
<1>7. h \in Int /\ 200 * h <= 2 * (share * g) + 100 * tick /\ 2 * (share * g) - 100 * tick <= 200 * h
  BY <1>1, <1>3, <1>6 DEF x, Gain, Ahead, Sides
<1>8. h + tick > 0 => h >= 0
  BY <1>6, GridGain
<1> HIDE DEF h
<1>9. h >= 0
  BY <1>3, <1>7, <1>8
<1> QED
  BY <1>6, <1>7, <1>9 DEF ShareAt, g, h

\* What a take-profit of the plan is, without and with knife conditions.
PaysStill(d, ref, tick, spread, maxTp, knife, t) ==
    /\ OnGrid(t, tick) /\ Gain(d, ref, t) >= 0
    /\ 20000 * Gain(d, ref, t) <= Most(maxTp, 69) * ref + 20000 * tick
    /\ knife /\ ref >= 725 * tick => Gain(d, ref, t) > 0
    /\ ~knife => Pays(d, ref, tick, spread, maxTp, t)

LEMMA PaysTightened ==
    ASSUME NEW d \in Sides, NEW ref, ref > 0, NEW tick \in Nat \ {0}, OnGrid(ref, tick), NEW tp,
           NEW spread, NEW maxTp \in Nat, Pays(d, ref, tick, spread, maxTp, tp),
           NEW share \in 25..100, NEW t, ShareAt(d, ref, tick, share, Gain(d, ref, tp), t)
    PROVE  PaysStill(d, ref, tick, spread, maxTp, TRUE, t)
<1> DEFINE g == Gain(d, ref, tp)
           h == Gain(d, ref, t)
           m == Most(maxTp, 69) * ref
<1>1. ref \in Int /\ tp \in Int /\ g \in Int
  BY GridGain DEF Pays
<1>2. m \in Int
  BY <1>1 DEF Most
<1>3. /\ g >= 0 /\ 40000 * g <= 2 * m + 20000 * tick
      /\ 40000 * g + 100000 * tick >= 400 * ref \/ 40000 * g + 20000 * tick >= 138 * ref
  BY DEF Pays
<1>4. /\ OnGrid(t, tick) /\ h \in Int /\ h >= 0
      /\ 200 * h <= 2 * (share * g) + 100 * tick /\ 2 * (share * g) - 100 * tick <= 200 * h
  BY DEF ShareAt
<1> HIDE DEF g
<1>5. share * g \in Int /\ 25 * g <= share * g /\ share * g <= 100 * g
  BY <1>1, <1>3, Shares
<1> HIDE DEF h, m
<1>6. 20000 * h <= m + 20000 * tick
  BY <1>1, <1>2, <1>3, <1>4, <1>5
<1>7. ref >= 725 * tick => h > 0
  BY <1>1, <1>3, <1>4, <1>5
<1> QED
  BY <1>4, <1>6, <1>7 DEF PaysStill, h, m

LEMMA PaysUntouched ==
    ASSUME NEW d \in Sides, NEW ref, ref > 0, NEW tick \in Nat \ {0}, OnGrid(ref, tick),
           NEW spread, NEW maxTp \in Nat, NEW t, Pays(d, ref, tick, spread, maxTp, t)
    PROVE  PaysStill(d, ref, tick, spread, maxTp, FALSE, t)
<1> DEFINE g == Gain(d, ref, t)
           m == Most(maxTp, 69) * ref
<1>1. ref \in Int /\ g \in Int
  BY GridGain DEF Pays
<1>2. m \in Int
  BY <1>1 DEF Most
<1>3. OnGrid(t, tick) /\ g >= 0 /\ 40000 * g <= 2 * m + 20000 * tick
  BY DEF Pays
<1> HIDE DEF g, m
<1>4. 20000 * g <= m + 20000 * tick
  BY <1>1, <1>2, <1>3
<1> QED
  BY <1>3, <1>4 DEF PaysStill, g, m

\* What remains of the order of two take-profits.
Ordered(d, ref, tick, knife, t1, t2) ==
    Gain(d, t1, t2) >= 0 /\ (~knife \/ ref > 4000 * tick => Gain(d, t1, t2) > 0)

LEMMA OrderTightened ==
    ASSUME NEW d \in Sides, NEW ref, NEW tick \in Nat \ {0}, OnGrid(ref, tick),
           NEW x \in Int, NEW y \in Int, Gain(d, ref, x) >= 0, Apart(d, x, y, ref),
           NEW share \in 25..100, NEW t1, NEW t2,
           ShareAt(d, ref, tick, share, Gain(d, ref, x), t1),
           ShareAt(d, ref, tick, share, Gain(d, ref, y), t2)
    PROVE  Ordered(d, ref, tick, TRUE, t1, t2)
<1> DEFINE a == Gain(d, ref, x)
           b == Gain(d, ref, y)
           u == Gain(d, ref, t1)
           v == Gain(d, ref, t2)
           gap == Gain(d, x, y)
<1>1. ref \in Int
  BY GridGap
<1>2. a \in Int /\ b \in Int /\ gap = b - a /\ gap > 0 /\ a >= 0 /\ 20000 * gap >= 20 * ref
  BY <1>1, Gains DEF Apart
<1>3. /\ OnGrid(t1, tick) /\ OnGrid(t2, tick) /\ t1 \in Int /\ t2 \in Int
      /\ u \in Int /\ 200 * u <= 2 * (share * a) + 100 * tick
      /\ v \in Int /\ 2 * (share * b) - 100 * tick <= 200 * v
  BY DEF ShareAt
<1>4. Gain(d, t1, t2) = v - u /\ (Gain(d, t1, t2) + tick > 0 => Gain(d, t1, t2) >= 0)
  <2>1. OnGrid(t1, tick) /\ OnGrid(t2, tick) /\ t1 \in Int /\ t2 \in Int
    BY <1>3
  <2>2. Gain(d, t1, t2) + tick > 0 => Gain(d, t1, t2) >= 0
    BY ONLY <2>1, d \in Sides, tick \in Nat \ {0}, GridGain
  <2>3. Gain(d, t1, t2) = v - u
    BY <1>1, <2>1, Gains
  <2> QED
    BY <2>2, <2>3
<1> HIDE DEF a, b, u, v, gap
<1>5. share * gap \in Int /\ 25 * gap <= share * gap /\ share * gap = share * b - share * a
  <2>1. gap \in Nat
    BY <1>2
  <2>2. share * (b - a) = share * b - share * a
    BY <1>2
  <2> QED
    BY <1>2, <2>1, <2>2, Shares
<1>6. share * a \in Int /\ share * b \in Int
  BY <1>2
<1>7. v - u + tick > 0
  BY <1>2, <1>3, <1>5, <1>6
<1>8. ref > 4000 * tick => v - u > 0
  BY <1>1, <1>2, <1>3, <1>5, <1>6
<1> QED
  BY <1>4, <1>7, <1>8 DEF Ordered

\* Take-profits that climb and pay, when they are tightened, or left as they are.
LEMMA TightenedSound ==
    ASSUME NEW d \in Sides, NEW ref, ref > 0, NEW tick \in Nat \ {0}, OnGrid(ref, tick),
           NEW maxTp \in Nat, NEW spread, NEW n, NEW tps, Climbs(d, tps, n, ref),
           \A i \in 1..n : Pays(d, ref, tick, spread, maxTp, tps[i]), NEW score \in Nat, NEW ts,
           ts = Tightened(d, tps, ref, tick, Tighten(score))
    PROVE  /\ n \in Nat \ {0} /\ Len(ts) = n /\ DOMAIN ts = 1..n
           /\ \A i \in 1..n : PaysStill(d, ref, tick, spread, maxTp, IsKnife(score), ts[i])
           /\ \A i \in 2..n : Ordered(d, ref, tick, IsKnife(score), ts[i - 1], ts[i])
<1> DEFINE share == Tighten(score)
           tight(i) == RoundTick(100 * ref + Ahead(d, share * Abs(tps[i] - ref)), 100, tick)
<1>1. /\ n \in Nat \ {0} /\ DOMAIN tps = 1..n /\ \A i \in 1..n : tps[i] \in Int
      /\ \A i \in 1..n : Gain(d, ref, tps[i]) >= 0
  BY DEF Climbs, Pays
<1>2. share \in 25..100 /\ (~IsKnife(score) => share = 100)
  BY TightenType
<1>3. ts = [i \in 1..n |-> IF share = 100 THEN tps[i] ELSE tight(i)]
  BY <1>1 DEF Tightened
<1> HIDE DEF share
<1>4. DOMAIN ts = 1..n /\ Len(ts) = n
  BY <1>1, <1>3
<1>5. ASSUME share # 100, NEW i \in 1..n
      PROVE  ShareAt(d, ref, tick, share, Gain(d, ref, tps[i]), ts[i])
  <2> DEFINE x == tps[i]
             t == ts[i]
  <2>1. t = RoundTick(100 * ref + Ahead(d, share * Abs(x - ref)), 100, tick)
    BY <1>3, <1>5
  <2>2. x \in Int /\ Gain(d, ref, x) >= 0 /\ share \in 25..100
    BY <1>1, <1>2
  <2> HIDE DEF x, t
  <2>3. ShareAt(d, ref, tick, share, Gain(d, ref, x), t)
    BY ONLY <2>1, <2>2, d \in Sides, tick \in Nat \ {0}, OnGrid(ref, tick), OneTightened
  <2> QED
    BY <2>3 DEF x, t
<1>6. ASSUME NEW j \in 2..n PROVE j - 1 \in 1..n /\ j \in 1..n /\ j - 1 < j
  BY <1>1
<1>7. ASSUME NEW j \in 2..n
      PROVE  Apart(d, tps[j - 1], tps[j], ref)
  BY <1>6 DEF Climbs
<1>8. CASE share # 100
  <2>1. IsKnife(score)
    BY <1>2, <1>8
  <2>2. ASSUME NEW i \in 1..n PROVE PaysStill(d, ref, tick, spread, maxTp, TRUE, ts[i])
    BY <1>2, <1>5, <1>8, PaysTightened
  <2>3. ASSUME NEW j \in 2..n PROVE Ordered(d, ref, tick, TRUE, ts[j - 1], ts[j])
    <3> DEFINE x == tps[j - 1]
               y == tps[j]
    <3>1. ShareAt(d, ref, tick, share, Gain(d, ref, x), ts[j - 1])
          /\ ShareAt(d, ref, tick, share, Gain(d, ref, y), ts[j])
      BY <1>5, <1>6, <1>8
    <3>2. x \in Int /\ y \in Int /\ Gain(d, ref, x) >= 0
      BY <1>1, <1>6
    <3>3. Apart(d, x, y, ref)
      BY <1>7
    <3> DEFINE t1 == ts[j - 1]
               t2 == ts[j]
    <3>4. share \in 25..100
      BY <1>2
    <3> HIDE DEF x, y, t1, t2
    <3>5. ShareAt(d, ref, tick, share, Gain(d, ref, x), t1) /\ ShareAt(d, ref, tick, share, Gain(d, ref, y), t2)
      BY <3>1 DEF t1, t2
    <3>6. Ordered(d, ref, tick, TRUE, t1, t2)
      <4>1. /\ d \in Sides /\ tick \in Nat \ {0} /\ OnGrid(ref, tick)
            /\ x \in Int /\ y \in Int /\ share \in 25..100
        BY <3>2, <3>4
      <4> QED
        BY ONLY <4>1, <3>2, <3>3, <3>5, OrderTightened
    <3> QED
      BY <3>6 DEF t1, t2
  <2>4. IsKnife(score) = TRUE
    BY <2>1 DEF IsKnife
  <2> QED
    BY <1>1, <1>4, <2>2, <2>3, <2>4
<1>9. CASE share = 100
  <2>1. \A i \in 1..n : ts[i] = tps[i]
    BY <1>3, <1>9
  <2>2. ASSUME NEW i \in 1..n PROVE PaysStill(d, ref, tick, spread, maxTp, FALSE, ts[i])
    BY <2>1, PaysUntouched
  <2>3. ASSUME NEW i \in 1..n PROVE PaysStill(d, ref, tick, spread, maxTp, IsKnife(score), ts[i])
    <3>1. CASE IsKnife(score)
      <4>1. share = Most(25, 100 - 8 * score) /\ score >= 4
        BY <3>1 DEF share, Tighten, IsKnife
      <4> QED
        BY <1>9, <4>1 DEF Most
    <3>2. CASE ~IsKnife(score)
      <4>1. IsKnife(score) = FALSE
        BY <3>2 DEF IsKnife
      <4> QED
        BY <2>2, <4>1
    <3> QED
      BY <3>1, <3>2
  <2>4. ASSUME NEW j \in 2..n PROVE Ordered(d, ref, tick, IsKnife(score), ts[j - 1], ts[j])
    <3>1. Gain(d, ts[j - 1], ts[j]) > 0
      BY <1>6, <1>7, <2>1 DEF Apart
    <3>2. Gain(d, ts[j - 1], ts[j]) \in Int
      BY <1>1, <1>6, <2>1, Gains
    <3> HIDE DEF share
    <3> QED
      BY <3>1, <3>2 DEF Ordered
  <2> QED
    BY <1>1, <1>4, <2>3, <2>4
<1> QED
  BY <1>8, <1>9

-----------------------------------------------------------------------------
(***************************************************************************)
(* The plan                                                                *)
(***************************************************************************)
LEMMA StillSound ==
    ASSUME NEW d \in Sides, NEW book, WellFormed(book), NEW ref, ref > 0, NEW tick \in Nat \ {0},
           OnGrid(ref, tick), NEW maxTp \in Nat, NEW knife \in BOOLEAN, NEW t,
           PaysStill(d, ref, tick, Spread(book), maxTp, knife, t), NEW plan, plan.entry = ref
    PROVE  TakeProfitSound(t, plan, d, book, tick, maxTp, knife)
<1> DEFINE g == Gain(d, ref, t)
           m == Most(maxTp, 69) * ref
           spread == Spread(book)
<1>1. ref \in Int /\ g \in Int
  BY GridGain DEF PaysStill
<1>2. spread \in Int
  BY Mids
<1>3. m \in Int
  BY <1>1 DEF Most
<1>4. g >= 0 /\ 20000 * g <= m + 20000 * tick /\ (knife /\ ref >= 725 * tick => g > 0)
  BY DEF PaysStill
<1>5. g > 0 => g >= tick
  <2>1. OnGrid(t, tick) /\ OnGrid(ref, tick)
    BY DEF PaysStill
  <2> QED
    BY ONLY <2>1, d \in Sides, tick \in Nat \ {0}, GridGain
<1>6. ~knife => /\ 40000 * g + 100000 * tick >= 42 * ref + 20000 * spread \/ 20000 * spread > 96 * ref
                /\ \/ g > 0 /\ 40000 * g + 100000 * tick >= 400 * ref
                   \/ 40000 * g + 20000 * tick >= 138 * ref
  <2>1. 20000 * spread <= 96 * ref \/ 20000 * spread > 96 * ref
    <3> HIDE DEF spread
    <3> QED
      BY <1>1, <1>2
  <2> QED
    BY <2>1 DEF PaysStill, Pays
<1> HIDE DEF g, m, spread
<1>7. ~knife /\ ref >= 145 * tick => g > 0 /\ 20000 * g >= 21 * ref
  BY <1>1, <1>4, <1>5, <1>6
<1>8. ~knife /\ 20000 * spread <= 96 * ref => 2 * (20000 * g) + 100000 * tick >= 42 * ref + 20000 * spread
  BY <1>1, <1>2, <1>6
<1>9. g > 0 => 20000 * g > 0
  BY <1>1
<1>10. 20000 * g >= 0
  BY <1>1, <1>4
<1>11. /\ 5 * Whole * tick = 100000 * tick /\ Whole = 20000 /\ g = Gain(d, plan.entry, t)
       /\ spread = Spread(book) /\ m = Most(maxTp, 69) * ref
  BY DEF Whole, g, spread, m
<1> QED
  BY <1>4, <1>7, <1>8, <1>9, <1>10, <1>11 DEF TakeProfitSound

\* What becomes of take-profits that pay: the plan that has them, tightened.
LEMMA PlanOf ==
    ASSUME NEW book, WellFormed(book), NEW d \in Sides, NEW ref, ref > 0, NEW tick \in Nat \ {0},
           OnGrid(ref, tick), NEW sl, NEW limit \in Nat, limit <= 160,
           StopsAt(Gain(d, sl, ref), ref, tick, limit),
           NEW maxTp \in Nat, NEW score \in Nat, NEW n, NEW tps, Climbs(d, tps, n, ref),
           \A i \in 1..n : Pays(d, ref, tick, Spread(book), maxTp, tps[i]), NEW plan,
           plan = [entry |-> ref, sl |-> sl, tps |-> Tightened(d, tps, ref, tick, Tighten(score))]
    PROVE  SoundPlan(plan, d, book, tick, limit, maxTp, score)
<1> DEFINE spread == Spread(book)
           ts == Tightened(d, tps, ref, tick, Tighten(score))
           knife == IsKnife(score)
<1>1. ref \in Int /\ plan.entry = ref /\ plan.sl = sl /\ plan.tps = ts
  BY GridGap
<1>2. StopSound(plan, d, tick, limit)
  BY <1>1, StopGain
<1>3. /\ n \in Nat \ {0} /\ Len(ts) = n /\ DOMAIN ts = 1..n
      /\ \A i \in 1..n : PaysStill(d, ref, tick, spread, maxTp, knife, ts[i])
      /\ \A i \in 2..n : Ordered(d, ref, tick, knife, ts[i - 1], ts[i])
  <2> HIDE DEF spread
  <2>1. \A i \in 1..n : Pays(d, ref, tick, spread, maxTp, tps[i])
    BY DEF spread
  <2> QED
    BY <2>1, TightenedSound
<1> HIDE DEF ts
<1>4. knife \in BOOLEAN
  BY DEF IsKnife
<1> HIDE DEF knife
<1>5. \A tp \in ToSet(ts) : TakeProfitSound(tp, plan, d, book, tick, maxTp, knife)
  <2> SUFFICES ASSUME NEW i \in 1..n PROVE TakeProfitSound(ts[i], plan, d, book, tick, maxTp, knife)
    BY <1>3 DEF ToSet
  <2>1. PaysStill(d, ref, tick, Spread(book), maxTp, knife, ts[i])
    BY <1>3
  <2> QED
    BY <1>1, <1>4, <2>1, StillSound
<1>6. ts # <<>>
  BY <1>3
<1>7. \A i \in 2..Len(ts) : Gain(d, ts[i - 1], ts[i]) >= 0
                            /\ (~knife \/ ref > 4000 * tick => Gain(d, ts[i - 1], ts[i]) > 0)
  BY <1>3 DEF Ordered
<1> QED
  BY <1>1, <1>2, <1>5, <1>6, <1>7 DEF SoundPlan, knife

\* exit_plan.py promises that the orders of a plan are on their sides of the entry
\* price, at distances that make them worth placing: so they are in every plan, for any
\* book, at any price and with any tick, as far as the tick itself allows it.
THEOREM PlansSound ==
    ASSUME NEW book, WellFormed(book), NEW d \in Sides, NEW given \in Int,
           NEW vol \in Nat, NEW exitSl \in Nat, exitSl <= 160, NEW exitTp \in Nat, NEW score \in Nat,
           NEW plan \in Plans(d, book, given, vol, exitSl, exitTp, score)
    PROVE  SoundPlan(plan, d, book, TickOf(book, given), SlLimit(vol, exitSl), exitTp, score)
<1> DEFINE tick == TickOf(book, given)
           ref == Entry(d, book, tick)
           twice == TwiceRef(book, ref)
           targets == Targets(d, book, twice, tick, exitTp)
           ladders == IF targets = {} THEN {<<FallbackTp(d, ref, tick, exitTp)>>}
                      ELSE UNION {Ladders(d, C) : C \in Picked(targets, twice)}
           spread == Spread(book)
           limit == SlLimit(vol, exitSl)
<1>1. PICK sl \in StopLosses(d, book, ref, tick, vol, exitSl), tps \in ladders :
        plan = [entry |-> ref, sl |-> sl, tps |-> Tightened(d, tps, ref, tick, Tighten(score))]
  BY DEF Plans
<1>2. tick \in Nat \ {0} /\ limit \in Nat /\ limit <= 160
  BY TickPositive DEF SlLimit, Least
<1> HIDE DEF tick, limit
<1>3. OnGrid(ref, tick)
  BY <1>2, EntryGrid
<1>4. plan.entry = ref
  BY <1>1
<1> HIDE DEF ref
<1>5. ref \in Int
  BY <1>2, <1>3, GridGap
<1>6. CASE ~(ref > 0)
  BY <1>4, <1>6 DEF SoundPlan, tick, limit
<1>7. CASE ref > 0
  <2>1. twice = 2 * ref
    BY <1>7 DEF TwiceRef
  <2> HIDE DEF twice
  <2>2. StopsAt(Gain(d, sl, ref), ref, tick, limit)
    BY <1>2, <1>3, <1>7, StopBounds DEF limit
  <2>3. IsFiniteSet(targets) /\ \A tp \in targets : Pays(d, ref, tick, spread, exitTp, tp)
    BY <1>2, <1>3, <1>7, <2>1, TargetsPay
  <2>4. spread \in Int
    BY Mids
  <2> HIDE DEF targets, spread
  <2>5. PICK n : Climbs(d, tps, n, ref) /\ \A i \in 1..n : Pays(d, ref, tick, spread, exitTp, tps[i])
    <3>1. CASE targets = {}
      <4> DEFINE tp == FallbackTp(d, ref, tick, exitTp)
      <4>1. tps = <<tp>> /\ Pays(d, ref, tick, spread, exitTp, tp)
        BY <1>2, <1>3, <1>7, <2>4, <3>1, FallbackPays
      <4> HIDE DEF tp
      <4>2. tp \in Int
        BY <1>2, <1>3, <4>1, GridGap DEF Pays
      <4>3. Climbs(d, tps, 1, ref)
        BY <4>1, <4>2, SingleClimbs
      <4>4. \A i \in 1..1 : tps[i] = tp
        BY <4>1
      <4> QED
        BY <4>1, <4>3, <4>4
    <3>2. CASE targets # {}
      <4>1. PICK C \in Picked(targets, 2 * ref) : tps \in Ladders(d, C)
        BY <2>1, <3>2
      <4>2. targets \in SUBSET Int
        <5> SUFFICES ASSUME NEW tp \in targets PROVE tp \in Int
          OBVIOUS
        <5>1. OnGrid(tp, tick)
          BY <2>3 DEF Pays
        <5> QED
          BY <1>2, <1>3, <5>1, GridGap
      <4> DEFINE m == Cardinality(C)
      <4>3. /\ ref \in Int /\ IsFiniteSet(targets) /\ targets # {}
            /\ C \in Picked(targets, 2 * ref) /\ tps \in Ladders(d, C)
        BY <1>5, <2>3, <3>2, <4>1
      <4>4. Climbs(d, tps, m, ref) /\ \A i \in 1..m : tps[i] \in targets
        BY ONLY <4>2, <4>3, d \in Sides, LaddersClimb
      <4> HIDE DEF m
      <4> QED
        BY <2>3, <4>4
    <3> QED
      BY <3>1, <3>2
  <2>6. \A i \in 1..n : Pays(d, ref, tick, Spread(book), exitTp, tps[i])
    BY <2>5 DEF spread
  <2>7. SoundPlan(plan, d, book, tick, limit, exitTp, score)
    BY <1>1, <1>2, <1>3, <1>7, <2>2, <2>5, <2>6, PlanOf
  <2> QED
    BY <2>7 DEF tick, limit
<1> QED
  BY <1>6, <1>7
=============================================================================
