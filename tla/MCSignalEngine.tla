--------------------------- MODULE MCSignalEngine ---------------------------
(***************************************************************************)
(* SignalEngine for TLC.                                                   *)
(***************************************************************************)
EXTENDS SignalEngine

\* Below the minimal edge, below and above the thresholds, and above the maximum.
MCPredictions == {-90, -20, 0, 40, 60, 90, 99}

\* Seven levels a side around a middle of 1 USD, of which six may be walls, the same on
\* both sides; more buyers, more sellers, and more sellers behind buyers; a book
\* without asks.  And books of cheaper symbols: the prices of CRVUSDT and MONUSDT, and
\* one that is 72 ticks.  Prices are in 0.00001 USD, distances in ten-thousandths.
MCDollar == 100000
Level(price, size) == [price |-> price, size |-> size]
Offsets == <<30, 45, 60, 105, 125, 145>>
MCSide(mid, d, large) ==
    <<Level(mid + Ahead(d, Most(mid \div 20000, 1)), 1)>>
    \o [i \in 1..6 |-> Level(mid + Ahead(d, (Offsets[i] * mid) \div 10000), IF i \in large THEN 5 ELSE 1)]
MCBook(mid, bids, asks) ==
    [bids |-> MCSide(mid, "SHORT", bids), asks |-> MCSide(mid, "LONG", asks), lastMid |-> mid]
MCBooks ==
    {MCBook(100000, large, large) : large \in {S \in SUBSET (1..6) : Cardinality(S) <= 3}}
    \cup {MCBook(100000, {1, 4}, {5}), MCBook(100000, {4}, {1, 3, 5}),
          MCBook(100000, {1}, {2, 3, 4, 5, 6})}
    \cup {[MCBook(100000, {2, 5}, {}) EXCEPT !.asks = <<>>]}
    \cup {MCBook(mid, large, large) : mid \in {21510, 2409, 720},
                                      large \in {{}, {2}, {4}, {2, 4, 6}, {4, 5, 6}}}
    \cup {[MCBook(2409, {2, 5}, {}) EXCEPT !.asks = <<>>]}
=============================================================================
