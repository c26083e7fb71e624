-------------------------- MODULE TradeLearningProofs --------------------------
(***************************************************************************)
(* Proofs about TradeLearning, for any signals, of which any are traded    *)
(* twice, any thresholds and any number of faults.                         *)
(***************************************************************************)
EXTENDS TradeLearning, TLAPS, FiniteSetTheorems

(***************************************************************************)
(* Types, in parts: a step has to show only those it disturbs.  A listener *)
(* that is at work has something to work on.                               *)
(***************************************************************************)
ResultRecords == [pc : ResultLabels, t : MaybeTrade]
MaeRecords == [pc : {"idle", "probe", "delete", "purge", "end"}, key : Keys \cup {None},
               of : MaybeTrade, got : MaybeTrade, suffix : BOOLEAN, kept : BOOLEAN,
               failed : BOOLEAN]

ExchangeType ==
    /\ status \in [Trades -> {"new", "open", "closed"}]
    /\ info \in [Trades -> [exchange : BOOLEAN, pnl : {"win", "loss"}, vector : BOOLEAN]]
    /\ tracked \in MaybeTrade
MessageType ==
    /\ inbox \in Seq(Trades)
    /\ measured \in [Keys -> MaybeTrade]
    /\ mbox \in Seq([key : Keys, of : Trades])
StoreType ==
    /\ pending \in [Keys -> MaybeTrade] /\ redis \in [Keys -> MaybeTrade]
    /\ aged \subseteq Trades
    /\ learned \subseteq Trades \X MaybeTrade
    /\ overtaken \subseteq Trades
CounterType ==
    /\ losses \in [{"engine", "worker"} -> Nat]
    /\ wins \in Nat
    /\ cooling \in BOOLEAN
ResultType ==
    /\ rl \in ResultRecords
    /\ rl.pc = "idle" => rl = IdleResults
    /\ rl.pc # "idle" => rl.t \in Trades
    /\ training \in {None, "results", "timer"}
    /\ training = "results" <=> rl.pc \in Waiting
MaeType ==
    /\ ml \in MaeRecords
    /\ ml.pc = "idle" => ml = IdleMae
    /\ ml.pc # "idle" => ml.key \in Keys /\ ml.of \in Trades
FaultType == faults \in 0..MaxFaults

Typed ==
    /\ ExchangeType /\ MessageType /\ StoreType /\ CounterType /\ ResultType /\ MaeType
    /\ FaultType

LEMMA TypedIsType == Typed => TypeOK
  BY DEF Typed, TypeOK, ExchangeType, MessageType, StoreType, CounterType, ResultType, MaeType,
         FaultType, ResultRecords, MaeRecords

LEMMA NoTradeIsNone == NoTrade \notin Trades
  BY NoneAssumption, SignalsAssumption DEF NoTrade, Trades

LEMMA SignalOf == ASSUME NEW t \in Trades PROVE t[1] \in Signals
  BY SignalsAssumption DEF Trades

LEMMA KeyType == ASSUME ExchangeType, NEW t \in Trades PROVE Key(t) \in Keys
<1>1. t[1] \in Signals
  BY SignalOf
<1>2. info[t].exchange \in BOOLEAN
  BY DEF ExchangeType
<1> QED
  BY <1>1, <1>2 DEF Key, Keys

LEMMA IdleTypes == IdleResults \in ResultRecords /\ IdleMae \in MaeRecords
  BY DEF IdleResults, IdleMae, ResultRecords, MaeRecords, ResultLabels, MaybeTrade

LEMMA TypedInit == Init => Typed
<1> SUFFICES ASSUME Init PROVE Typed
  OBVIOUS
<1>1. NoTrade \in MaybeTrade
  BY DEF MaybeTrade
<1>2. ExchangeType
  BY <1>1 DEF Init, ExchangeType
<1>3. MessageType
  BY <1>1 DEF Init, MessageType
<1>4. StoreType
  BY <1>1 DEF Init, StoreType
<1>5. CounterType
  <2>1. losses \in [{"engine", "worker"} -> Nat] /\ wins \in Nat
    BY DEF Init
  <2>2. cooling \in BOOLEAN
    BY DEF Init
  <2> QED
    BY <2>1, <2>2 DEF CounterType
<1>6. ResultType
  BY IdleTypes, NoneAssumption DEF Init, ResultType, IdleResults, Waiting
<1>7. MaeType
  BY IdleTypes DEF Init, MaeType, IdleMae
<1>8. FaultType
  BY MaxFaultsAssumption DEF Init, FaultType
<1> QED
  BY <1>2, <1>3, <1>4, <1>5, <1>6, <1>7, <1>8 DEF Typed

LEMMA FaultKeeps == ASSUME FaultType, Fault \/ UNCHANGED faults PROVE FaultType'
  BY MaxFaultsAssumption DEF FaultType, Fault

LEMMA ExchangeTyped == ASSUME Typed, Exchange PROVE Typed'
<1> USE DEF Typed
<1>1. ASSUME NEW t \in Trades, Open(t) PROVE Typed'
  <2>1. ExchangeType'
    BY <1>1 DEF Open, ExchangeType, MaybeTrade
  <2>2. MessageType' /\ StoreType' /\ CounterType' /\ ResultType' /\ MaeType' /\ FaultType'
    BY <1>1 DEF Open, MessageType, StoreType, CounterType, ResultType, MaeType, FaultType, store,
                learning, counters
  <2> QED
    BY <2>1, <2>2
<1>2. ASSUME NEW t \in Trades, NEW e \in BOOLEAN, NEW p \in {"win", "loss"},
             NEW v \in BOOLEAN, Close(t, e, p, v)
      PROVE  Typed'
  <2>1. ExchangeType'
    BY <1>2 DEF Close, ExchangeType
  <2>2. <<t[1], e>> \in Keys /\ t \in MaybeTrade
    BY SignalOf DEF Keys, MaybeTrade
  <2>3. MessageType'
    <3>1. inbox' \in Seq(Trades)
      <4>1. inbox \in Seq(Trades) /\ Append(inbox, t) \in Seq(Trades)
        BY DEF MessageType
      <4>2. inbox' = inbox \/ inbox' = Append(inbox, t)
        BY <1>2 DEF Close
      <4> QED
        BY <4>1, <4>2
    <3>2. measured' \in [Keys -> MaybeTrade]
      BY <1>2, <2>2 DEF Close, MessageType
    <3>3. mbox' = mbox
      BY <1>2 DEF Close
    <3> QED
      BY <3>1, <3>2, <3>3 DEF MessageType
  <2>4. FaultType'
    BY <1>2, FaultKeeps DEF Close
  <2>5. StoreType' /\ CounterType' /\ ResultType' /\ MaeType'
    BY <1>2 DEF Close, StoreType, CounterType, ResultType, MaeType, store, learning, counters
  <2> QED
    BY <2>1, <2>3, <2>4, <2>5
<1>3. ASSUME NEW k \in Keys, Measured(k) PROVE Typed'
  <2>1. NoTrade \in MaybeTrade
    BY DEF MaybeTrade
  <2>2. measured[k] \in Trades
    BY <1>3 DEF Measured, MessageType, MaybeTrade
  <2>3. mbox' \in Seq([key : Keys, of : Trades])
    BY <1>3, <2>2 DEF Measured, MessageType
  <2>4. MessageType'
    BY <1>3, <2>1, <2>3 DEF Measured, MessageType
  <2>5. ExchangeType' /\ StoreType' /\ CounterType' /\ ResultType' /\ MaeType' /\ FaultType'
    BY <1>3 DEF Measured, ExchangeType, StoreType, CounterType, ResultType, MaeType, FaultType,
                exchange, store, learning, counters
  <2> QED
    BY <2>4, <2>5
<1>4. ASSUME NEW k \in Keys, MeasureLost(k) PROVE Typed'
  <2>1. NoTrade \in MaybeTrade
    BY DEF MaybeTrade
  <2>2. MessageType'
    BY <1>4, <2>1 DEF MeasureLost, MessageType
  <2>3. FaultType'
    BY <1>4, FaultKeeps DEF MeasureLost
  <2>4. ExchangeType' /\ StoreType' /\ CounterType' /\ ResultType' /\ MaeType'
    BY <1>4 DEF MeasureLost, ExchangeType, StoreType, CounterType, ResultType, MaeType, exchange,
                store, learning, counters
  <2> QED
    BY <2>2, <2>3, <2>4
<1>5. ASSUME NEW k \in Keys, Expire(k) PROVE Typed'
  <2>1. NoTrade \in MaybeTrade
    BY DEF MaybeTrade
  <2>2. StoreType'
    BY <1>5, <2>1 DEF Expire, StoreType, learning
  <2>3. ExchangeType' /\ MessageType' /\ CounterType' /\ ResultType' /\ MaeType' /\ FaultType'
    BY <1>5 DEF Expire, ExchangeType, MessageType, CounterType, ResultType, MaeType, FaultType,
                exchange, counters
  <2> QED
    BY <2>2, <2>3
<1>6. ASSUME NEW t \in Trades, Age(t) PROVE Typed'
  <2>1. StoreType'
    BY <1>6 DEF Age, StoreType, learning
  <2>2. ExchangeType' /\ MessageType' /\ CounterType' /\ ResultType' /\ MaeType' /\ FaultType'
    BY <1>6 DEF Age, ExchangeType, MessageType, CounterType, ResultType, MaeType, FaultType,
                exchange, counters
  <2> QED
    BY <2>1, <2>2
<1> QED
  BY <1>1, <1>2, <1>3, <1>4, <1>5, <1>6 DEF Exchange

\* What the result listener may become, while the training stays or is awaited.
LEMMA AtResultTyped ==
    ASSUME ResultType, rl.pc # "idle", NEW l \in ResultLabels \ {"idle"}, AtResult(l),
           training' \in {None, "results", "timer"}, training' = "results" <=> l \in Waiting
    PROVE  ResultType'
<1>1. rl' = [rl EXCEPT !.pc = l] /\ rl \in ResultRecords /\ rl.t \in Trades
  BY DEF AtResult, ResultType
<1>2. rl' \in ResultRecords /\ rl'.pc = l /\ rl'.t = rl.t
  BY <1>1 DEF ResultRecords
<1> QED
  BY <1>1, <1>2 DEF ResultType

LEMMA IdleResultTyped ==
    ASSUME rl' = IdleResults, training' \in {None, "timer"}
    PROVE  ResultType'
  BY IdleTypes, NoneAssumption DEF ResultType, IdleResults, Waiting

LEMMA IdleMaeTyped == ASSUME ml' = IdleMae PROVE MaeType'
  BY IdleTypes DEF MaeType, IdleMae

LEMMA ResultsTyped == ASSUME Typed, Results PROVE Typed'
<1> USE DEF Typed
<1>0. ASSUME rl.pc # "idle" PROVE rl.t \in Trades /\ Key(rl.t) \in Keys
  BY <1>0, KeyType DEF ResultType
<1>1. CASE Take
  <2>1. Head(inbox) \in Trades /\ Tail(inbox) \in Seq(Trades)
    BY <1>1 DEF Take, MessageType
  <2>2. MessageType'
    BY <1>1, <2>1 DEF Take, MessageType
  <2>3. rl' \in ResultRecords /\ rl'.pc = "store" /\ rl'.t \in Trades
    BY <1>1, <2>1 DEF Take, ResultRecords, ResultLabels, MaybeTrade
  <2>4. ResultType'
    BY <1>1, <2>3 DEF Take, ResultType, Waiting
  <2>5. ExchangeType' /\ StoreType' /\ CounterType' /\ MaeType' /\ FaultType'
    BY <1>1 DEF Take, ExchangeType, StoreType, CounterType, MaeType, FaultType, exchange, store,
                learning, counters
  <2> QED
    BY <2>2, <2>4, <2>5
<1>2. CASE Store
  <2>1. rl.t \in Trades /\ Key(rl.t) \in Keys /\ rl.t \in MaybeTrade
    BY <1>0, <1>2 DEF Store, MaybeTrade
  <2>2. StoreType'
    <3>1. pending' \in [Keys -> MaybeTrade]
      BY <1>2, <2>1 DEF Store, StoreType
    <3> QED
      BY <1>2, <3>1 DEF Store, StoreType, learning
  <2>3. training' = training /\ training \in {None, "timer"}
    BY <1>2 DEF Store, ResultType, Waiting
  <2>4. ResultType'
    <3>1. CASE info[rl.t].vector
      <4>1. AtResult("mirror")
        BY <1>2, <3>1 DEF Store
      <4>2. training' \in {None, "results", "timer"} /\ training' # "results"
        BY <2>3, NoneAssumption
      <4> QED
        BY <1>2, <4>1, <4>2, AtResultTyped DEF Store, ResultLabels, Waiting
    <3>2. CASE ~info[rl.t].vector
      BY <1>2, <3>2, <2>3, IdleResultTyped DEF Store
    <3> QED
      BY <3>1, <3>2
  <2>5. ExchangeType' /\ MessageType' /\ CounterType' /\ MaeType' /\ FaultType'
    BY <1>2 DEF Store, ExchangeType, MessageType, CounterType, MaeType, FaultType, exchange,
                counters
  <2> QED
    BY <2>2, <2>4, <2>5
<1>3. CASE Mirror
  <2>1. rl.t \in MaybeTrade /\ Key(rl.t) \in Keys
    BY <1>0, <1>3 DEF Mirror, MaybeTrade
  <2>2. StoreType'
    <3>1. redis' \in [Keys -> MaybeTrade]
      BY <1>3, <2>1 DEF Mirror, StoreType
    <3> QED
      BY <1>3, <3>1 DEF Mirror, StoreType, learning
  <2>3. ResultType'
    <3>1. training' = training /\ training \in {None, "timer"} /\ AtResult("count")
      BY <1>3 DEF Mirror, ResultType, Waiting
    <3> QED
      BY <1>3, <3>1, AtResultTyped, NoneAssumption DEF Mirror, ResultLabels, Waiting
  <2>4. FaultType'
    BY <1>3, FaultKeeps DEF Mirror
  <2>5. ExchangeType' /\ MessageType' /\ CounterType' /\ MaeType'
    BY <1>3 DEF Mirror, ExchangeType, MessageType, CounterType, MaeType, exchange, counters
  <2> QED
    BY <2>2, <2>3, <2>4, <2>5
<1>4. CASE Count
  <2>1. losses' \in [{"engine", "worker"} -> Nat]
    BY <1>4 DEF Count, CounterType
  <2>2. CounterType'
    BY <1>4, <2>1 DEF Count, CounterType
  <2>3. training' = training /\ training \in {None, "timer"}
    BY <1>4 DEF Count, ResultType, Waiting
  <2>4. AtResult("streak") \/ AtResult("pop")
    BY <1>4 DEF Count
  <2>5. ResultType'
    BY <1>4, <2>3, <2>4, AtResultTyped, NoneAssumption DEF Count, ResultLabels, Waiting
  <2>6. ExchangeType' /\ MessageType' /\ StoreType' /\ MaeType' /\ FaultType'
    BY <1>4 DEF Count, ExchangeType, MessageType, StoreType, MaeType, FaultType, exchange, store,
                learning
  <2> QED
    BY <2>2, <2>5, <2>6
<1>5. CASE Streak
  <2>1. training \in {None, "timer"}
    BY <1>5 DEF Streak, ResultType, Waiting
  <2>2. losses' \in [{"engine", "worker"} -> Nat]
    BY <1>5 DEF Streak, CounterType
  <2>3. CounterType'
    BY <1>5, <2>2 DEF Streak, CounterType
  <2>4. \/ AtResult("pop") /\ training' = training
        \/ AtResult("trainLosses") /\ training' = "results"
    BY <1>5 DEF Streak, Trigger, AtResult
  <2>5. ResultType'
    BY <1>5, <2>1, <2>4, AtResultTyped, NoneAssumption DEF Streak, ResultLabels, Waiting
  <2>6. ExchangeType' /\ MessageType' /\ StoreType' /\ MaeType' /\ FaultType'
    BY <1>5 DEF Streak, ExchangeType, MessageType, StoreType, MaeType, FaultType, exchange, store,
                learning
  <2> QED
    BY <2>3, <2>5, <2>6
<1>6. CASE Pop
  <2>1. training \in {None, "timer"}
    BY <1>6 DEF Pop, ResultType, Waiting
  <2>2. tracked' \in MaybeTrade
    BY <1>6 DEF Pop, PopPosition, MaybeTrade
  <2>3. ExchangeType'
    BY <1>6, <2>2 DEF Pop, ExchangeType, exchange
  <2>4. losses' \in [{"engine", "worker"} -> Nat] /\ wins' \in Nat
    BY <1>6 DEF Pop, CounterType
  <2>5. cooling' \in BOOLEAN
    BY <1>6 DEF Pop, CounterType
  <2>6. CounterType'
    BY <2>4, <2>5 DEF CounterType
  <2>7. \/ rl' = IdleResults /\ training' = training
        \/ AtResult("trainStreak") /\ training' = "results"
        \/ AtResult("trainWins") /\ training' = "results"
    BY <1>6 DEF Pop, Trigger, AtResult
  <2>8. ResultType'
    BY <1>6, <2>1, <2>7, AtResultTyped, IdleResultTyped, NoneAssumption
    DEF Pop, ResultLabels, Waiting
  <2>9. MessageType' /\ StoreType' /\ MaeType' /\ FaultType'
    BY <1>6 DEF Pop, MessageType, StoreType, MaeType, FaultType, store, learning
  <2> QED
    BY <2>3, <2>6, <2>8, <2>9
<1> QED
  BY <1>1, <1>2, <1>3, <1>4, <1>5, <1>6 DEF Results

\* A key of the entry that is looked for, under either spelling.
LEMMA SuffixedKey ==
    ASSUME MaeType, ml.pc # "idle", NEW b \in BOOLEAN
    PROVE  <<ml.key[1], b>> \in Keys
  BY DEF MaeType, Keys

LEMMA NonEmptySeq ==
    ASSUME NEW S, NEW s \in Seq(S), s # <<>>
    PROVE  Head(s) \in S /\ Tail(s) \in Seq(S)
  OBVIOUS

LEMMA ExcursionsTyped == ASSUME Typed, Excursions \/ RedisFails PROVE Typed'
<1> USE DEF Typed
<1>0. NoTrade \in MaybeTrade
  BY DEF MaybeTrade
<1>1. CASE TakeMae
  <2> DEFINE m == Head(mbox)
             found == IF m.key \in Stale THEN NoTrade ELSE pending[m.key]
             stale == {<<pending[k], NoTrade>> : k \in Stale}
  <2>1. m \in [key : Keys, of : Trades] /\ Tail(mbox) \in Seq([key : Keys, of : Trades])
    BY <1>1, NonEmptySeq DEF TakeMae, MessageType
  <2>2. m.key \in Keys /\ m.of \in Trades
    BY <2>1
  <2>3. MessageType'
    BY <1>1, <2>1 DEF TakeMae, MessageType
  <2>4. pending' \in [Keys -> MaybeTrade]
    BY <1>0, <1>1 DEF TakeMae, PendingWithout, StoreType
  <2>5. \A k \in Stale : pending[k] \in Trades
    BY DEF Stale, StoreType
  <2>6. stale \subseteq Trades \X MaybeTrade
    BY <1>0, <2>5
  <2>7. found # NoTrade => <<found, m.of>> \in Trades \X MaybeTrade
    BY <2>2 DEF StoreType, MaybeTrade
  <2>8. \/ found # NoTrade /\ learned' = learned \cup stale \cup {<<found, m.of>>}
        \/ learned' = learned \cup stale
    BY <1>1 DEF TakeMae
  <2>9. learned' \subseteq Trades \X MaybeTrade
    <3> HIDE DEF found, stale, m
    <3> QED
      BY <2>6, <2>7, <2>8 DEF StoreType
  <2>10. overtaken' \subseteq Trades
    BY <1>1, <2>2 DEF TakeMae, StoreType
  <2>11. StoreType'
    BY <1>1, <2>4, <2>9, <2>10 DEF TakeMae, StoreType
  <2>12. MaeType'
    <3>1. CASE ml' = IdleMae
      BY <3>1, IdleMaeTyped
    <3>2. CASE ml' = [IdleMae EXCEPT !.pc = "probe", !.key = m.key, !.of = m.of,
                                     !.kept = \E k \in Keys : redis[k] = m.of]
      <4>1. ml' = [pc |-> "probe", key |-> m.key, of |-> m.of, got |-> NoTrade, suffix |-> TRUE,
                   kept |-> (\E k \in Keys : redis[k] = m.of), failed |-> FALSE]
        BY <3>2 DEF IdleMae
      <4>2. (\E k \in Keys : redis[k] = m.of) \in BOOLEAN
        OBVIOUS
      <4> QED
        BY <1>0, <2>2, <4>1, <4>2 DEF MaeType, MaeRecords, MaybeTrade
    <3> QED
      BY <1>1, <3>1, <3>2 DEF TakeMae, MaeDone
  <2>13. ExchangeType' /\ CounterType' /\ ResultType' /\ FaultType'
    BY <1>1 DEF TakeMae, ExchangeType, CounterType, ResultType, FaultType, exchange, counters
  <2> QED
    BY <2>3, <2>11, <2>12, <2>13
<1>2. CASE Probe
  <2>1. <<ml.key[1], ml.suffix>> \in Keys
    BY <1>2, SuffixedKey DEF Probe, MaeType, MaeRecords
  <2>2. redis[<<ml.key[1], ml.suffix>>] \in MaybeTrade
    BY <2>1 DEF StoreType
  <2>3. MaeType'
    BY <1>2, <2>2 DEF Probe, NextSuffix, MaeType, MaeRecords
  <2>4. /\ ExchangeType' /\ MessageType' /\ StoreType' /\ CounterType' /\ ResultType'
        /\ FaultType'
    BY <1>2 DEF Probe, ExchangeType, MessageType, StoreType, CounterType, ResultType, FaultType,
                exchange, store, learning, counters
  <2> QED
    BY <2>3, <2>4
<1>3. CASE Delete \/ Purge
  <2>1. redis' \in [Keys -> MaybeTrade]
    BY <1>0, <1>3 DEF Delete, Purge, StoreType
  <2>2. StoreType'
    BY <1>3, <2>1 DEF Delete, Purge, StoreType, learning
  <2>3. MaeType'
    BY <1>3 DEF Delete, Purge, MaeType, MaeRecords
  <2>4. ExchangeType' /\ MessageType' /\ CounterType' /\ ResultType' /\ FaultType'
    BY <1>3 DEF Delete, Purge, ExchangeType, MessageType, CounterType, ResultType, FaultType,
                exchange, counters
  <2> QED
    BY <2>2, <2>3, <2>4
<1>4. CASE EndMae
  <2>1. ml.of \in MaybeTrade /\ ml.got \in MaybeTrade
    BY DEF MaeType, MaeRecords
  <2>2. learned' \subseteq Trades \X MaybeTrade
    <3>1. CASE ml.got = NoTrade
      BY <1>4, <3>1 DEF EndMae, StoreType
    <3>2. CASE ml.got # NoTrade
      <4>1. ml.got \in Trades
        BY <2>1, <3>2 DEF MaybeTrade
      <4>2. learned' = learned \cup {<<ml.got, ml.of>>}
        BY <1>4, <3>2 DEF EndMae, Learn
      <4> QED
        BY <2>1, <4>1, <4>2 DEF StoreType
    <3> QED
      BY <3>1, <3>2
  <2>3. StoreType'
    BY <1>4, <2>2 DEF EndMae, StoreType
  <2>4. MaeType'
    BY <1>4, IdleMaeTyped DEF EndMae, MaeDone
  <2>5. ExchangeType' /\ MessageType' /\ CounterType' /\ ResultType' /\ FaultType'
    BY <1>4 DEF EndMae, ExchangeType, MessageType, CounterType, ResultType, FaultType, exchange,
                counters
  <2> QED
    BY <2>3, <2>4, <2>5
<1>5. CASE RedisFails
  <2>1. MaeType'
    BY <1>5 DEF RedisFails, MaeType, MaeRecords
  <2>2. FaultType'
    BY <1>5, FaultKeeps DEF RedisFails
  <2>3. ExchangeType' /\ MessageType' /\ StoreType' /\ CounterType' /\ ResultType'
    BY <1>5 DEF RedisFails, ExchangeType, MessageType, StoreType, CounterType, ResultType,
                exchange, store, learning, counters
  <2> QED
    BY <2>1, <2>2, <2>3
<1> QED
  BY <1>1, <1>2, <1>3, <1>4, <1>5 DEF Excursions

LEMMA TrainingsTyped == ASSUME Typed, Timers \/ TrainEnds \/ TrainRaises PROVE Typed'
<1> USE DEF Typed
<1>1. CASE Cooled
  <2>1. CounterType'
    BY <1>1 DEF Cooled, CounterType
  <2>2. /\ ExchangeType' /\ MessageType' /\ StoreType' /\ ResultType' /\ MaeType'
        /\ FaultType'
    BY <1>1 DEF Cooled, ExchangeType, MessageType, StoreType, ResultType, MaeType, FaultType,
                exchange, store, learning
  <2> QED
    BY <2>1, <2>2
<1>2. CASE Timer
  <2>1. ResultType'
    BY <1>2, NoneAssumption DEF Timer, ResultType
  <2>2. /\ ExchangeType' /\ MessageType' /\ StoreType' /\ CounterType' /\ MaeType'
        /\ FaultType'
    BY <1>2 DEF Timer, ExchangeType, MessageType, StoreType, CounterType, MaeType, FaultType,
                exchange, store, learning, counters
  <2> QED
    BY <2>1, <2>2
<1>3. CASE TrainEnds
  <2>1. losses' \in [{"engine", "worker"} -> Nat] /\ wins' \in Nat
    BY <1>3 DEF TrainEnds, CounterType
  <2>2. CounterType'
    BY <1>3, <2>1 DEF TrainEnds, CounterType
  <2>3. ResultType'
    <3>1. CASE training # "results"
      BY <1>3, <3>1, NoneAssumption DEF TrainEnds, ResultType
    <3>2. CASE training = "results" /\ rl.pc = "trainLosses"
      <4>1. AtResult("pop") /\ training' = None
        BY <1>3, <3>2 DEF TrainEnds, AtResult
      <4> QED
        BY <3>2, <4>1, AtResultTyped, NoneAssumption DEF ResultLabels, Waiting
    <3>3. CASE training = "results" /\ rl.pc # "trainLosses"
      BY <1>3, <3>3, IdleResultTyped DEF TrainEnds
    <3> QED
      BY <3>1, <3>2, <3>3
  <2>4. ExchangeType' /\ MessageType' /\ StoreType' /\ MaeType' /\ FaultType'
    BY <1>3 DEF TrainEnds, ExchangeType, MessageType, StoreType, MaeType, FaultType, exchange,
                store, learning
  <2> QED
    BY <2>2, <2>3, <2>4
<1>4. CASE TrainRaises
  <2>1. MessageType' /\ ResultType' /\ FaultType'
    BY <1>4, IdleResultTyped, FaultKeeps DEF TrainRaises, MessageType
  <2>2. ExchangeType' /\ StoreType' /\ CounterType' /\ MaeType'
    BY <1>4 DEF TrainRaises, ExchangeType, StoreType, CounterType, MaeType, exchange, store,
                learning, counters
  <2> QED
    BY <2>1, <2>2
<1> QED
  BY <1>1, <1>2, <1>3, <1>4 DEF Timers

LEMMA RestartTyped == ASSUME Typed, Restart PROVE Typed'
<1> USE DEF Typed
<1>0. NoTrade \in MaybeTrade
  BY DEF MaybeTrade
<1>1. ExchangeType' /\ MessageType'
  BY <1>0 DEF Restart, ExchangeType, MessageType, exchange
<1>2. StoreType'
  BY <1>0 DEF Restart, StoreType, learning
<1>3. CounterType'
  <2>1. losses' \in [{"engine", "worker"} -> Nat] /\ wins' \in Nat
    BY DEF Restart
  <2>2. cooling' \in BOOLEAN
    BY DEF Restart
  <2> QED
    BY <2>1, <2>2 DEF CounterType
<1>4. ResultType' /\ MaeType' /\ FaultType'
  BY IdleResultTyped, IdleMaeTyped, FaultKeeps DEF Restart
<1> QED
  BY <1>1, <1>2, <1>3, <1>4

LEMMA TypedStep == ASSUME Typed, [Next]_vars PROVE Typed'
<1>1. CASE UNCHANGED vars
  BY <1>1 DEF vars, exchange, store, learning, counters, Typed, ExchangeType, MessageType,
              StoreType, CounterType, ResultType, MaeType, FaultType
<1> QED
  BY <1>1, ExchangeTyped, ResultsTyped, ExcursionsTyped, TrainingsTyped, RestartTyped DEF Next

\* The listeners, the stores they share and the training that one of them awaits keep
\* to their types: the result listener waits for a training exactly when one runs that
\* it has started (engine.py 523, retrain_worker.py 92).
THEOREM LearningTypeCorrect == Spec => []TypeOK
<1>1. Spec => []Typed
  <2>1. Init => Typed
    BY TypedInit
  <2>2. Typed /\ [Next]_vars => Typed'
    BY TypedStep
  <2> QED
    BY <2>1, <2>2, PTL DEF Spec
<1> QED
  BY <1>1, TypedIsType, PTL

(***************************************************************************)
(* LearnedOnce.  Where the copies of a trade may be, for all trades, also  *)
(* those of a signal that is traded twice: only Single is not about these. *)
(***************************************************************************)
Closed(t) == status[t] = "closed"

\* Whatever is kept of a trade is kept under its key, and only once it has closed.
Keyed ==
    /\ \A k \in Keys, t \in Trades :
         t \in {measured[k], pending[k], redis[k]} => Closed(t) /\ k = Key(t)
    /\ \A i \in DOMAIN mbox : Closed(mbox[i].of) /\ mbox[i].key = Key(mbox[i].of)
    /\ ml.pc # "idle" => Closed(ml.of) /\ ml.key = Key(ml.of)
    /\ ml.got # NoTrade => ml.pc # "idle" /\ Closed(ml.got) /\ ml.got[1] = ml.key[1]
    /\ \A i \in DOMAIN inbox : Closed(inbox[i])
    /\ rl.pc # "idle" => Closed(rl.t)
    /\ \A t \in aged : Closed(t)
    /\ \A l \in learned : Closed(l[1]) /\ (l[2] # NoTrade => l[2][1] = l[1][1])

\* A trade has one result and one excursion.
OneMessage ==
    /\ \A k \in Keys, i \in DOMAIN mbox : measured[k] # mbox[i].of
    /\ \A k \in Keys : measured[k] # NoTrade => measured[k] # ml.of
    /\ \A i \in DOMAIN mbox : mbox[i].of # ml.of
    /\ \A i, j \in DOMAIN mbox : mbox[i].of = mbox[j].of => i = j
OneResult ==
    /\ \A i \in DOMAIN inbox : inbox[i] # rl.t
    /\ \A i, j \in DOMAIN inbox : inbox[i] = inbox[j] => i = j

HasMessage(t) ==
    \/ \E k \in Keys : measured[k] = t
    \/ \E i \in DOMAIN mbox : mbox[i].of = t
    \/ ml.of = t
IsPending(t) == \E k \in Keys : pending[k] = t
IsLearned(t) == \E l \in learned : l[1] = t

\* A trade that is not stored yet is nowhere else.
Fresh ==
    \A t \in Trades : Unstored(t) =>
        /\ ~IsPending(t) /\ \A k \in Keys : redis[k] # t
        /\ ml.got # t
        /\ t \notin aged /\ ~IsLearned(t)

\* An old one has no excursion to wait for.
Gone == \A t \in aged : ~HasMessage(t)

\* A trade is in memory, or with the listener, or learned.
Single ==
    \A t \in Trades : ~HasTwin(t) /\ t \notin overtaken =>
        /\ ml.of = t => ~IsPending(t) /\ ~IsLearned(t) /\ ~Unstored(t)
        /\ IsLearned(t) => ~IsPending(t) /\ ~HasMessage(t)
        /\ \A l, n \in learned : l[1] = t /\ n[1] = t => l = n

OnceInv == Keyed /\ OneMessage /\ OneResult /\ Fresh /\ Gone /\ Single

LEMMA ElementOf == ASSUME NEW S, NEW s \in Seq(S), NEW i \in DOMAIN s PROVE s[i] \in S
  OBVIOUS

LEMMA InboxTyped ==
    ASSUME Typed
    PROVE  /\ \A i \in DOMAIN inbox : inbox[i] \in Trades
           /\ \A i \in DOMAIN mbox : mbox[i].of \in Trades /\ mbox[i].key \in Keys
<1>1. inbox \in Seq(Trades) /\ mbox \in Seq([key : Keys, of : Trades])
  BY DEF Typed, MessageType
<1>2. \A i \in DOMAIN mbox : mbox[i] \in [key : Keys, of : Trades]
  BY <1>1, ElementOf
<1>3. \A i \in DOMAIN inbox : inbox[i] \in Trades
  BY <1>1, ElementOf
<1> QED
  BY <1>2, <1>3

LEMMA OneTrade ==
    ASSUME NEW t \in Trades, NEW u \in Trades, ~HasTwin(t), u[1] = t[1]
    PROVE  u = t
<1>1. ASSUME NEW w \in Trades, w[1] = t[1] PROVE w = <<t[1], "live">>
  BY <1>1 DEF Trades, HasTwin
<1> QED
  BY <1>1

\* Steps that only take things away.
Fewer(new, old) == \A k \in Keys : new[k] \in {old[k], NoTrade}
Shrinks ==
    /\ UNCHANGED <<exchange, aged, learning>>
    /\ Fewer(measured', measured) /\ Fewer(pending', pending) /\ Fewer(redis', redis)
    /\ mbox' \in {mbox, <<>>} /\ inbox' \in {inbox, <<>>}
    /\ \/ rl' = IdleResults
       \/ rl' = rl
       \/ rl.pc # "idle" /\ rl'.pc \notin {"idle", "store"} /\ rl'.t = rl.t
    /\ \/ ml' = IdleMae
       \/ ml' = ml
       \/ ml.pc # "idle" /\ ml'.pc # "idle" /\ ml'.key = ml.key /\ ml'.of = ml.of /\ ml'.got = ml.got

LEMMA ShrinksKeeps == ASSUME Typed, OnceInv, Shrinks PROVE OnceInv'
<1> USE NoTradeIsNone, InboxTyped
<1> USE DEF OnceInv
<1>1. /\ UNCHANGED <<status, info, aged, learned, overtaken>>
      /\ Fewer(measured', measured) /\ Fewer(pending', pending) /\ Fewer(redis', redis)
      /\ mbox' \in {mbox, <<>>} /\ inbox' \in {inbox, <<>>}
  BY DEF Shrinks, exchange, learning
<1>2. \/ ml'.pc = "idle" /\ ml'.of = NoTrade /\ ml'.got = NoTrade
      \/ /\ ml.pc # "idle" /\ ml'.pc # "idle"
         /\ ml'.key = ml.key /\ ml'.of = ml.of /\ ml'.got = ml.got
  BY DEF Shrinks, IdleMae, Typed, MaeType
<1>3. \/ rl'.pc = "idle" /\ rl'.t = NoTrade
      \/ /\ rl.pc # "idle" /\ rl'.pc # "idle" /\ rl'.t = rl.t
         /\ rl'.pc = "store" => rl.pc = "store"
  BY DEF Shrinks, IdleResults, Typed, ResultType
<1>4. \A t \in Trades : Unstored(t)' => Unstored(t)
  BY <1>1, <1>3 DEF Unstored, Range
<1>5. \A t \in Trades : /\ HasMessage(t)' => HasMessage(t)
                        /\ IsPending(t)' => IsPending(t)
                        /\ IsLearned(t)' <=> IsLearned(t)
  BY <1>1, <1>2 DEF HasMessage, IsPending, IsLearned, Fewer
<1>6. Keyed'
  <2>1. \A k \in Keys, t \in Trades :
          t \in {measured'[k], pending'[k], redis'[k]} => t \in {measured[k], pending[k], redis[k]}
    BY <1>1 DEF Fewer
  <2>2. \A k \in Keys, t \in Trades :
          t \in {measured'[k], pending'[k], redis'[k]} => Closed(t)' /\ k = Key(t)'
    BY <1>1, <2>1 DEF Keyed, Closed, Key
  <2>3. \A i \in DOMAIN mbox' : Closed(mbox[i].of)' /\ mbox'[i].key = Key(mbox[i].of)'
    BY <1>1 DEF Keyed, Closed, Key
  <2> QED
    BY <1>1, <1>2, <1>3, <2>2 DEF Keyed, Closed, Key
<1>7. OneMessage'
  BY <1>1, <1>2 DEF OneMessage, Fewer
<1>8. OneResult'
  BY <1>1, <1>3 DEF OneResult
<1>9. Fresh'
  BY <1>1, <1>2, <1>4, <1>5 DEF Fresh, Fewer
<1>10. Gone'
  BY <1>1, <1>5 DEF Gone, Typed, StoreType
<1>11. Single'
  BY <1>1, <1>2, <1>4, <1>5 DEF Single, HasTwin
<1> QED
  BY <1>6, <1>7, <1>8, <1>9, <1>10, <1>11

LEMMA RemovalsShrink ==
    ASSUME Typed,
           \/ \E k \in Keys : MeasureLost(k) \/ Expire(k)
           \/ Count \/ Streak \/ Pop \/ Timers \/ TrainEnds \/ TrainRaises
           \/ Delete \/ Purge \/ RedisFails \/ Restart
    PROVE  Shrinks
<1> USE DEF Shrinks, Fewer, exchange, store, learning, counters
<1>1. ASSUME NEW k \in Keys, MeasureLost(k) PROVE Shrinks
  BY <1>1 DEF MeasureLost, Typed, MessageType
<1>2. ASSUME NEW k \in Keys, Expire(k) PROVE Shrinks
  BY <1>2 DEF Expire, Typed, StoreType
<1>3. ASSUME Count \/ Streak PROVE Shrinks
  <2>1. rl.pc # "idle" /\ rl'.pc \in {"streak", "pop", "trainLosses"} /\ rl'.t = rl.t
    BY <1>3 DEF Count, Streak, AtResult, Trigger, Typed, ResultType, ResultRecords
  <2> QED
    BY <1>3, <2>1 DEF Count, Streak
<1>4. CASE Pop
  <2>1. \/ rl' = IdleResults
        \/ rl.pc # "idle" /\ rl'.pc \in {"trainStreak", "trainWins"} /\ rl'.t = rl.t
    BY <1>4 DEF Pop, Trigger, Typed, ResultType, ResultRecords
  <2> QED
    BY <1>4, <2>1 DEF Pop
<1>5. CASE Timers
  BY <1>5 DEF Timers, Cooled, Timer
<1>6. CASE TrainEnds
  <2>1. \/ rl' = IdleResults \/ rl' = rl
        \/ rl.pc # "idle" /\ rl'.pc = "pop" /\ rl'.t = rl.t
    BY <1>6 DEF TrainEnds, Typed, ResultType, ResultRecords
  <2> QED
    BY <1>6, <2>1 DEF TrainEnds
<1>7. CASE TrainRaises
  BY <1>7 DEF TrainRaises
<1>8. ASSUME Delete \/ Purge PROVE Shrinks
  <2>1. Fewer(redis', redis)
    BY <1>8 DEF Delete, Purge, Typed, StoreType
  <2>2. /\ ml.pc # "idle" /\ ml'.pc # "idle"
        /\ ml'.key = ml.key /\ ml'.of = ml.of /\ ml'.got = ml.got
    BY <1>8 DEF Delete, Purge, Typed, MaeType, MaeRecords
  <2> QED
    BY <1>8, <2>1, <2>2 DEF Delete, Purge
<1>9. CASE RedisFails
  <2>1. /\ ml.pc # "idle" /\ ml'.pc # "idle"
        /\ ml'.key = ml.key /\ ml'.of = ml.of /\ ml'.got = ml.got
    BY <1>9 DEF RedisFails, Typed, MaeType, MaeRecords
  <2> QED
    BY <1>9, <2>1 DEF RedisFails
<1>10. CASE Restart
  BY <1>10 DEF Restart
<1> QED
  BY <1>1, <1>2, <1>3, <1>4, <1>5, <1>6, <1>7, <1>8, <1>9, <1>10

LEMMA AppendElements ==
    ASSUME NEW S, NEW s \in Seq(S), NEW e \in S
    PROVE  /\ DOMAIN s \subseteq DOMAIN Append(s, e) /\ Len(s) + 1 \notin DOMAIN s
           /\ \A i \in DOMAIN Append(s, e) :
                \/ i \in DOMAIN s /\ Append(s, e)[i] = s[i]
                \/ i = Len(s) + 1 /\ Append(s, e)[i] = e
  OBVIOUS

LEMMA TailElements ==
    ASSUME NEW S, NEW s \in Seq(S), s # <<>>
    PROVE  /\ 1 \in DOMAIN s /\ Head(s) = s[1]
           /\ \A i \in DOMAIN Tail(s) : i + 1 \in DOMAIN s /\ i + 1 # 1 /\ Tail(s)[i] = s[i + 1]
  OBVIOUS

\* What the steps of the exchange and of the tracker leave.
LEMMA OpenKeeps == ASSUME Typed, OnceInv, NEW u \in Trades, Open(u) PROVE OnceInv'
<1>1. /\ UNCHANGED <<info, inbox, measured, mbox, pending, redis, aged, learned, overtaken, rl, ml>>
      /\ \A t \in Trades : Closed(t) => Closed(t)'
  BY DEF Open, store, learning, Closed, Typed, ExchangeType
<1>2. Keyed'
  <2>1. \A t \in Trades : Closed(t) => status'[t] = "closed"
    BY <1>1 DEF Closed
  <2>2. ml.got # NoTrade => ml.got \in Trades
    BY DEF Typed, MaeType, MaeRecords, MaybeTrade
  <2>3. ml'.got # NoTrade => ml'.pc # "idle" /\ Closed(ml.got)' /\ ml'.got[1] = ml'.key[1]
    BY <1>1, <2>1, <2>2 DEF OnceInv, Keyed, Closed
  <2>4. /\ \A k \in Keys, t \in Trades :
              t \in {measured'[k], pending'[k], redis'[k]} => Closed(t)' /\ k = Key(t)'
        /\ ml'.pc # "idle" => Closed(ml.of)' /\ ml'.key = Key(ml.of)'
    BY <1>1, <2>1 DEF OnceInv, Keyed, Closed, Key, Typed, MaeType
  <2>5. /\ \A i \in DOMAIN mbox' : Closed(mbox[i].of)' /\ mbox'[i].key = Key(mbox[i].of)'
        /\ \A i \in DOMAIN inbox' : Closed(inbox[i])'
    BY <1>1, <2>1, InboxTyped DEF OnceInv, Keyed, Closed, Key
  <2>6. /\ rl'.pc # "idle" => Closed(rl.t)'
        /\ \A t \in aged' : Closed(t)'
        /\ \A l \in learned' : Closed(l[1])' /\ (l[2] # NoTrade => l[2][1] = l[1][1])
    BY <1>1, <2>1 DEF OnceInv, Keyed, Closed, Typed, StoreType, ResultType
  <2> QED
    BY <2>3, <2>4, <2>5, <2>6 DEF Keyed
<1>3. OneMessage' /\ OneResult'
  BY <1>1 DEF OnceInv, OneMessage, OneResult
<1>4. Fresh' /\ Gone' /\ Single'
  BY <1>1 DEF OnceInv, Fresh, Gone, Single, HasMessage, IsPending, IsLearned, Unstored, Range
<1> QED
  BY <1>2, <1>3, <1>4 DEF OnceInv

LEMMA CloseKeeps ==
    ASSUME Typed, OnceInv, NEW u \in Trades, NEW e \in BOOLEAN, NEW p \in {"win", "loss"},
           NEW v \in BOOLEAN, Close(u, e, p, v)
    PROVE  OnceInv'
<1> USE NoTradeIsNone, InboxTyped
<1>1. /\ UNCHANGED <<mbox, pending, redis, aged, learned, overtaken, rl, ml>>
      /\ inbox \in Seq(Trades)
      /\ inbox' = inbox \/ inbox' = Append(inbox, u)
      /\ measured' = measured \/ measured' = [measured EXCEPT ![<<u[1], e>>] = u]
  BY DEF Close, store, learning, Typed, MessageType
<1>2. /\ ~Closed(u) /\ Closed(u)' /\ Key(u)' = <<u[1], e>> /\ <<u[1], e>> \in Keys
      /\ \A t \in Trades \ {u} : (Closed(t)' <=> Closed(t)) /\ Key(t)' = Key(t)
  <2>1. status' = [status EXCEPT ![u] = "closed"] /\ status[u] # "closed"
    BY DEF Close
  <2>2. info' = [info EXCEPT ![u] = [exchange |-> e, pnl |-> p, vector |-> v]]
    BY DEF Close
  <2>3. u[1] \in Signals
    BY SignalOf
  <2> QED
    BY <2>1, <2>2, <2>3 DEF Closed, Key, Keys, Typed, ExchangeType
<1>3. /\ ~HasMessage(u) /\ ~IsPending(u) /\ ~IsLearned(u) /\ u \notin aged /\ ml.got # u
      /\ rl.t # u
      /\ \A k \in Keys : redis[k] # u /\ measured[k] # u
      /\ \A i \in DOMAIN inbox : inbox[i] # u
      /\ \A i \in DOMAIN mbox : mbox[i].of # u
      /\ ml.of # u
  <2>1. ml.pc = "idle" => ml.of = NoTrade
    BY DEF Typed, MaeType, IdleMae
  <2>2. rl.pc = "idle" => rl.t = NoTrade
    BY DEF Typed, ResultType, IdleResults
  <2> QED
    BY <1>2, <2>1, <2>2 DEF OnceInv, Keyed, HasMessage, IsPending, IsLearned
<1>4. \A i \in DOMAIN inbox' : \/ i \in DOMAIN inbox /\ inbox'[i] = inbox[i]
                               \/ i = Len(inbox) + 1 /\ inbox'[i] = u /\ i \notin DOMAIN inbox
  BY <1>1, AppendElements
<1>5. \A k \in Keys : measured'[k] = measured[k] \/ (measured'[k] = u /\ k = <<u[1], e>>)
  BY <1>1 DEF Typed, MessageType
<1>6. \A t \in Trades \ {u} : /\ Unstored(t)' => Unstored(t)
                              /\ HasMessage(t)' => HasMessage(t)
                              /\ IsPending(t)' <=> IsPending(t)
                              /\ IsLearned(t)' <=> IsLearned(t)
  <2>1. ASSUME NEW t \in Trades \ {u}, Unstored(t)' PROVE Unstored(t)
    BY <1>1, <1>4, <2>1 DEF Unstored, Range
  <2>2. ASSUME NEW t \in Trades \ {u} PROVE HasMessage(t)' => HasMessage(t)
    BY <1>1, <1>5 DEF HasMessage
  <2> QED
    BY <1>1, <2>1, <2>2 DEF IsPending, IsLearned
<1>7. Keyed'
  <2>1. \A k \in Keys, t \in Trades :
          t \in {measured'[k], pending'[k], redis'[k]} => Closed(t)' /\ k = Key(t)'
    BY <1>1, <1>2, <1>3, <1>5 DEF OnceInv, Keyed
  <2>2. \A i \in DOMAIN mbox' : Closed(mbox[i].of)' /\ mbox'[i].key = Key(mbox[i].of)'
    <3>1. ASSUME NEW i \in DOMAIN mbox PROVE Closed(mbox[i].of)' /\ mbox[i].key = Key(mbox[i].of)'
      <4> DEFINE t == mbox[i].of
      <4>1. t \in Trades \ {u} /\ Closed(t) /\ mbox[i].key = Key(t)
        BY <1>3 DEF OnceInv, Keyed
      <4>2. status'[t] = status[t] /\ info'[t] = info[t]
        BY <4>1 DEF Close, Typed, ExchangeType
      <4> QED
        BY <1>1, <4>1, <4>2 DEF Closed, Key
    <3> QED
      BY <1>1, <3>1
  <2>3. ml'.pc # "idle" => Closed(ml.of)' /\ ml'.key = Key(ml.of)'
    <3>1. ASSUME ml.pc # "idle" PROVE status'[ml.of] = status[ml.of] /\ info'[ml.of] = info[ml.of]
      BY <1>3, <3>1 DEF Close, Typed, ExchangeType, MaeType
    <3> QED
      BY <1>1, <3>1 DEF OnceInv, Keyed, Closed, Key
  <2>4. ml'.got # NoTrade => ml'.pc # "idle" /\ Closed(ml.got)' /\ ml'.got[1] = ml'.key[1]
    <3>1. ASSUME ml.got # NoTrade PROVE status'[ml.got] = status[ml.got]
      BY <1>3, <3>1 DEF Close, Typed, ExchangeType, MaeType, MaeRecords, MaybeTrade
    <3> QED
      BY <1>1, <3>1 DEF OnceInv, Keyed, Closed
  <2>5. /\ \A i \in DOMAIN inbox' : Closed(inbox[i])'
        /\ rl'.pc # "idle" => Closed(rl.t)'
    <3>1. \A t \in Trades : Closed(t) => status'[t] = "closed"
      BY <1>2 DEF Closed
    <3>2. status'[u] = "closed"
      BY <1>2 DEF Closed
    <3> QED
      BY <1>1, <1>4, <3>1, <3>2 DEF OnceInv, Keyed, Closed, Typed, ResultType
  <2>6. /\ \A t \in aged' : Closed(t)'
        /\ \A l \in learned' : Closed(l[1])' /\ (l[2] # NoTrade => l[2][1] = l[1][1])
    <3>1. \A t \in Trades : Closed(t) => status'[t] = "closed"
      BY <1>2 DEF Closed
    <3> QED
      BY <1>1, <3>1 DEF OnceInv, Keyed, Closed, Typed, StoreType
  <2> QED
    BY <2>1, <2>2, <2>3, <2>4, <2>5, <2>6 DEF Keyed
<1>8. OneMessage'
  BY <1>1, <1>3, <1>5 DEF OnceInv, OneMessage
<1>9. OneResult'
  BY <1>1, <1>3, <1>4 DEF OnceInv, OneResult
<1>10. Fresh'
  <2>1. ASSUME NEW t \in Trades, Unstored(t)'
        PROVE  ~IsPending(t)' /\ (\A k \in Keys : redis'[k] # t) /\ ml'.got # t /\ t \notin aged'
               /\ ~IsLearned(t)'
    <3>1. CASE t = u
      BY <1>1, <1>3, <3>1 DEF IsPending, IsLearned
    <3>2. CASE t # u
      BY <1>1, <1>6, <2>1, <3>2 DEF OnceInv, Fresh
    <3> QED
      BY <3>1, <3>2
  <2> QED
    BY <2>1 DEF Fresh
<1>11. Gone'
  BY <1>1, <1>3, <1>6 DEF OnceInv, Gone, Typed, StoreType
<1>12. Single'
  <2>1. ~IsLearned(u)' /\ ml'.of # u
    BY <1>1, <1>3 DEF IsLearned
  <2>2. ASSUME NEW t \in Trades, ~HasTwin(t), t \notin overtaken, t # u
        PROVE  /\ ml'.of = t => ~IsPending(t)' /\ ~IsLearned(t)' /\ ~Unstored(t)'
               /\ IsLearned(t)' => ~IsPending(t)' /\ ~HasMessage(t)'
               /\ \A l, n \in learned' : l[1] = t /\ n[1] = t => l = n
    BY <1>1, <1>6, <2>2 DEF OnceInv, Single
  <2>3. \A l \in learned' : l[1] # u
    BY <2>1 DEF IsLearned
  <2> QED
    BY <1>1, <2>1, <2>2, <2>3 DEF Single, HasTwin
<1> QED
  BY <1>7, <1>8, <1>9, <1>10, <1>11, <1>12 DEF OnceInv

LEMMA MeasuredKeeps == ASSUME Typed, OnceInv, NEW k \in Keys, Measured(k) PROVE OnceInv'
<1> USE NoTradeIsNone, InboxTyped
<1> DEFINE u == measured[k]
<1>1. /\ UNCHANGED <<status, info, inbox, pending, redis, aged, learned, overtaken, rl, ml>>
      /\ mbox' = Append(mbox, [key |-> k, of |-> u])
      /\ \A j \in Keys : measured'[j] = IF j = k THEN NoTrade ELSE measured[j]
  BY DEF Measured, exchange, store, learning, Typed, MessageType
<1>2. u \in Trades /\ Closed(u) /\ k = Key(u)
  <2>1. u \in Trades
    BY DEF Measured, Typed, MessageType, MaybeTrade
  <2> QED
    BY <2>1 DEF OnceInv, Keyed
<1>3. /\ u # ml.of
      /\ \A i \in DOMAIN mbox : mbox[i].of # u
      /\ \A j \in Keys : j # k => measured[j] # u
  BY <1>2 DEF OnceInv, OneMessage, Keyed
<1>4. \A i \in DOMAIN mbox' :
        \/ i \in DOMAIN mbox /\ mbox'[i] = mbox[i]
        \/ i = Len(mbox) + 1 /\ i \notin DOMAIN mbox /\ mbox'[i].of = u /\ mbox'[i].key = k
  <2>1. [key |-> k, of |-> u] \in [key : Keys, of : Trades]
    BY <1>2
  <2>2. mbox \in Seq([key : Keys, of : Trades])
    BY DEF Typed, MessageType
  <2> QED
    BY <1>1, <2>1, <2>2, AppendElements
<1>5. \A t \in Trades : /\ HasMessage(t)' => HasMessage(t)
                        /\ Unstored(t)' <=> Unstored(t)
                        /\ IsPending(t)' <=> IsPending(t)
                        /\ IsLearned(t)' <=> IsLearned(t)
  <2>1. ASSUME NEW t \in Trades, HasMessage(t)' PROVE HasMessage(t)
    BY <1>1, <1>4, <2>1 DEF HasMessage
  <2> QED
    BY <1>1, <2>1 DEF Unstored, Range, IsPending, IsLearned
<1>6. Keyed'
  <2>1. \A i \in DOMAIN mbox' : Closed(mbox[i].of)' /\ mbox'[i].key = Key(mbox[i].of)'
    BY <1>1, <1>2, <1>4 DEF OnceInv, Keyed, Closed, Key
  <2>2. \A j \in Keys, t \in Trades :
          t \in {measured'[j], pending'[j], redis'[j]} => Closed(t)' /\ j = Key(t)'
    BY <1>1 DEF OnceInv, Keyed, Closed, Key
  <2> QED
    BY <1>1, <2>1, <2>2 DEF OnceInv, Keyed, Closed, Key
<1>7. OneMessage'
  <2>1. \A j \in Keys, i \in DOMAIN mbox' : measured'[j] # mbox'[i].of
    BY <1>1, <1>2, <1>3, <1>4 DEF OnceInv, OneMessage
  <2>2. \A j \in Keys : measured'[j] # NoTrade => measured'[j] # ml'.of
    BY <1>1 DEF OnceInv, OneMessage
  <2>3. \A i \in DOMAIN mbox' : mbox'[i].of # ml'.of
    BY <1>1, <1>3, <1>4 DEF OnceInv, OneMessage
  <2>4. \A i, j \in DOMAIN mbox' : mbox'[i].of = mbox'[j].of => i = j
    BY <1>3, <1>4 DEF OnceInv, OneMessage
  <2> QED
    BY <2>1, <2>2, <2>3, <2>4 DEF OneMessage
<1>8. OneResult' /\ Fresh' /\ Gone' /\ Single'
  <2>1. OneResult'
    BY <1>1 DEF OnceInv, OneResult
  <2>2. Fresh'
    BY <1>1, <1>5 DEF OnceInv, Fresh
  <2>3. Gone'
    BY <1>1, <1>5 DEF OnceInv, Gone, Typed, StoreType
  <2>4. Single'
    BY <1>1, <1>5 DEF OnceInv, Single, HasTwin
  <2> QED
    BY <2>1, <2>2, <2>3, <2>4
<1> QED
  BY <1>6, <1>7, <1>8 DEF OnceInv

LEMMA AgeKeeps == ASSUME Typed, OnceInv, NEW u \in Trades, Age(u) PROVE OnceInv'
<1>1. /\ UNCHANGED <<status, info, inbox, measured, mbox, pending, redis, learned, overtaken, rl, ml>>
      /\ aged' = aged \cup {u}
  BY DEF Age, exchange, learning
<1>2. pending[Key(u)] = u \/ redis[Key(u)] = u
  BY DEF Age
<1>3. Key(u) \in Keys
  BY KeyType DEF Typed
<1>4. Closed(u) /\ ~Unstored(u) /\ ~HasMessage(u)
  <2>1. Closed(u)
    BY <1>2, <1>3 DEF OnceInv, Keyed
  <2>2. ~Unstored(u)
    BY <1>2, <1>3 DEF OnceInv, Fresh, IsPending
  <2>3. ~HasMessage(u)
    BY DEF Age, HasMessage, Range
  <2> QED
    BY <2>1, <2>2, <2>3
<1>5. \A t \in Trades : /\ HasMessage(t)' <=> HasMessage(t)
                        /\ Unstored(t)' <=> Unstored(t)
                        /\ IsPending(t)' <=> IsPending(t)
                        /\ IsLearned(t)' <=> IsLearned(t)
  BY <1>1 DEF HasMessage, Unstored, Range, IsPending, IsLearned
<1>6. Keyed'
  BY <1>1, <1>4 DEF OnceInv, Keyed, Closed, Key
<1>7. OneMessage' /\ OneResult'
  BY <1>1 DEF OnceInv, OneMessage, OneResult
<1>8. Fresh'
  BY <1>1, <1>4, <1>5 DEF OnceInv, Fresh
<1>9. Gone'
  BY <1>1, <1>4, <1>5 DEF OnceInv, Gone, Typed, StoreType
<1>10. Single'
  BY <1>1, <1>5 DEF OnceInv, Single, HasTwin
<1> QED
  BY <1>6, <1>7, <1>8, <1>9, <1>10 DEF OnceInv

LEMMA TakeKeeps == ASSUME Typed, OnceInv, Take PROVE OnceInv'
<1> USE NoTradeIsNone, InboxTyped
<1>1. /\ UNCHANGED <<status, info, measured, mbox, pending, redis, aged, learned, overtaken, ml>>
      /\ rl.pc = "idle" /\ inbox # <<>> /\ inbox \in Seq(Trades)
      /\ rl' = [pc |-> "store", t |-> Head(inbox)] /\ inbox' = Tail(inbox)
  BY DEF Take, exchange, store, learning, Typed, MessageType
<1>2. /\ 1 \in DOMAIN inbox /\ rl'.t = inbox[1] /\ rl'.pc = "store"
      /\ \A i \in DOMAIN inbox' : i + 1 \in DOMAIN inbox /\ i + 1 # 1 /\ inbox'[i] = inbox[i + 1]
      /\ DOMAIN inbox' \subseteq Nat
  BY <1>1, TailElements
<1>3. \A t \in Trades : Unstored(t)' => Unstored(t)
  BY <1>2 DEF Unstored, Range
<1>4. \A t \in Trades : /\ HasMessage(t)' <=> HasMessage(t)
                        /\ IsPending(t)' <=> IsPending(t)
                        /\ IsLearned(t)' <=> IsLearned(t)
  BY <1>1 DEF HasMessage, IsPending, IsLearned
<1>5. Keyed'
  <2>1. Closed(inbox[1])
    BY <1>2 DEF OnceInv, Keyed
  <2>2. \A i \in DOMAIN inbox' : Closed(inbox[i])'
    BY <1>1, <1>2 DEF OnceInv, Keyed, Closed
  <2> QED
    BY <1>1, <1>2, <2>1, <2>2 DEF OnceInv, Keyed, Closed, Key
<1>6. OneMessage'
  BY <1>1 DEF OnceInv, OneMessage
<1>7. OneResult'
  <2>1. \A i \in DOMAIN inbox' : inbox'[i] # rl'.t
    BY <1>2 DEF OnceInv, OneResult
  <2>2. \A i, j \in DOMAIN inbox' : inbox'[i] = inbox'[j] => i = j
    BY <1>2 DEF OnceInv, OneResult
  <2> QED
    BY <2>1, <2>2 DEF OneResult
<1>8. Fresh'
  BY <1>1, <1>3, <1>4 DEF OnceInv, Fresh
<1>9. Gone'
  BY <1>1, <1>4 DEF OnceInv, Gone, Typed, StoreType
<1>10. Single'
  BY <1>1, <1>3, <1>4 DEF OnceInv, Single, HasTwin
<1> QED
  BY <1>5, <1>6, <1>7, <1>8, <1>9, <1>10 DEF OnceInv

LEMMA StoreKeeps == ASSUME Typed, OnceInv, Store PROVE OnceInv'
<1> USE NoTradeIsNone, InboxTyped
<1>1. CASE ~info[rl.t].vector
  <2>1. Shrinks
    BY <1>1 DEF Store, Shrinks, Fewer, exchange, store, learning, counters
  <2> QED
    BY <2>1, ShrinksKeeps
<1>2. CASE info[rl.t].vector
  <2> DEFINE u == rl.t
  <2>1. u \in Trades /\ Key(u) \in Keys /\ rl.pc = "store" /\ Closed(u)
    <3>1. u \in Trades /\ rl.pc = "store"
      BY DEF Store, Typed, ResultType
    <3> QED
      BY <3>1, KeyType DEF Typed, OnceInv, Keyed
  <2>2. /\ UNCHANGED <<status, info, inbox, measured, mbox, redis, aged, learned, overtaken, ml>>
        /\ \A k \in Keys : pending'[k] = IF k = Key(u) THEN u ELSE pending[k]
        /\ rl'.pc = "mirror" /\ rl'.t = u
    BY <1>2 DEF Store, AtResult, exchange, learning, Typed, StoreType, ResultType, ResultRecords
  <2>3. Unstored(u)
    BY <2>1 DEF Unstored
  <2>4. ~Unstored(u)' /\ \A t \in Trades : Unstored(t)' => Unstored(t)
    BY <2>1, <2>2 DEF OnceInv, OneResult, Unstored, Range
  <2>5. \A t \in Trades \ {u} : IsPending(t)' => IsPending(t)
    BY <2>2 DEF IsPending
  <2>6. \A t \in Trades : (HasMessage(t)' <=> HasMessage(t)) /\ (IsLearned(t)' <=> IsLearned(t))
    BY <2>2 DEF HasMessage, IsLearned
  <2>7. Keyed'
    <3>1. \A k \in Keys, t \in Trades :
            t \in {measured'[k], pending'[k], redis'[k]} => Closed(t)' /\ k = Key(t)'
      BY <2>1, <2>2 DEF OnceInv, Keyed, Closed, Key
    <3> QED
      BY <2>1, <2>2, <3>1 DEF OnceInv, Keyed, Closed, Key
  <2>8. OneMessage' /\ OneResult'
    BY <2>2 DEF OnceInv, OneMessage, OneResult
  <2>9. Fresh'
    BY <2>2, <2>4, <2>5, <2>6 DEF OnceInv, Fresh
  <2>10. Gone'
    BY <2>2, <2>6 DEF OnceInv, Gone, Typed, StoreType
  <2>11. Single'
    <3>1. ASSUME NEW t \in Trades, ~HasTwin(t), t \notin overtaken
          PROVE  /\ ml'.of = t => ~IsPending(t)' /\ ~IsLearned(t)' /\ ~Unstored(t)'
                 /\ IsLearned(t)' => ~IsPending(t)' /\ ~HasMessage(t)'
                 /\ \A l, n \in learned' : l[1] = t /\ n[1] = t => l = n
      <4>1. CASE t = u
        <5>1. ml.of # u /\ ~IsLearned(u)
          BY <2>1, <2>3, <3>1, <4>1 DEF OnceInv, Fresh, Single
        <5> QED
          BY <2>2, <2>6, <3>1, <4>1, <5>1 DEF OnceInv, Single
      <4>2. CASE t # u
        BY <2>2, <2>4, <2>5, <2>6, <3>1, <4>2 DEF OnceInv, Single
      <4> QED
        BY <4>1, <4>2
    <3> QED
      BY <2>2, <3>1 DEF Single, HasTwin
  <2> QED
    BY <2>7, <2>8, <2>9, <2>10, <2>11 DEF OnceInv
<1> QED
  BY <1>1, <1>2

LEMMA MirrorKeeps == ASSUME Typed, OnceInv, Mirror PROVE OnceInv'
<1> USE NoTradeIsNone, InboxTyped
<1>0. rl.pc = "mirror" /\ rl'.pc = "count" /\ rl'.t = rl.t
  BY DEF Mirror, AtResult, Typed, ResultType, ResultRecords
<1>1. CASE redis' = redis
  <2>1. Shrinks
    BY <1>0, <1>1 DEF Mirror, Shrinks, Fewer, exchange, store, learning, counters
  <2> QED
    BY <2>1, ShrinksKeeps
<1>2. CASE redis' # redis
  <2> DEFINE u == rl.t
  <2>1. u \in Trades /\ Key(u) \in Keys /\ Closed(u)
    <3>1. u \in Trades
      BY <1>0 DEF Typed, ResultType
    <3> QED
      BY <1>0, <3>1, KeyType DEF Typed, OnceInv, Keyed
  <2>2. /\ UNCHANGED <<status, info, inbox, measured, mbox, pending, aged, learned, overtaken, ml>>
        /\ \A k \in Keys : redis'[k] = IF k = Key(u) THEN u ELSE redis[k]
    BY <1>2 DEF Mirror, exchange, learning, Typed, StoreType
  <2>3. ~Unstored(u) /\ \A t \in Trades : Unstored(t)' <=> Unstored(t)
    BY <1>0, <2>1, <2>2 DEF OnceInv, OneResult, Unstored, Range
  <2>4. \A t \in Trades : /\ HasMessage(t)' <=> HasMessage(t)
                          /\ IsPending(t)' <=> IsPending(t)
                          /\ IsLearned(t)' <=> IsLearned(t)
    BY <2>2 DEF HasMessage, IsPending, IsLearned
  <2>5. Keyed'
    <3>1. \A k \in Keys, t \in Trades :
            t \in {measured'[k], pending'[k], redis'[k]} => Closed(t)' /\ k = Key(t)'
      BY <2>1, <2>2 DEF OnceInv, Keyed, Closed, Key
    <3> QED
      BY <1>0, <2>1, <2>2, <3>1 DEF OnceInv, Keyed, Closed, Key
  <2>6. OneMessage' /\ OneResult'
    BY <1>0, <2>2 DEF OnceInv, OneMessage, OneResult
  <2>7. Fresh'
    BY <2>2, <2>3, <2>4 DEF OnceInv, Fresh
  <2>8. Gone'
    BY <2>2, <2>4 DEF OnceInv, Gone, Typed, StoreType
  <2>9. Single'
    BY <2>2, <2>3, <2>4 DEF OnceInv, Single, HasTwin
  <2> QED
    BY <2>5, <2>6, <2>7, <2>8, <2>9 DEF OnceInv
<1> QED
  BY <1>1, <1>2

LEMMA ProbeKeeps == ASSUME Typed, OnceInv, Probe PROVE OnceInv'
<1> USE NoTradeIsNone, InboxTyped
<1> DEFINE k == <<ml.key[1], ml.suffix>>
<1>1. /\ UNCHANGED <<status, info, inbox, measured, mbox, pending, redis, aged, learned, overtaken, rl>>
      /\ k \in Keys /\ ml.pc # "idle"
  BY SuffixedKey DEF Probe, exchange, store, learning, Typed, MaeType, MaeRecords
<1>2. /\ ml'.pc # "idle" /\ ml'.key = ml.key /\ ml'.of = ml.of
      /\ ml'.got = ml.got \/ (ml'.got = redis[k] /\ redis[k] # NoTrade)
  BY DEF Probe, NextSuffix, Typed, MaeType, MaeRecords
<1>3. redis[k] # NoTrade => /\ redis[k] \in Trades /\ Closed(redis[k]) /\ ~Unstored(redis[k])
                            /\ redis[k][1] = ml.key[1]
  <2>1. ASSUME redis[k] # NoTrade PROVE redis[k] \in Trades
    BY <1>1, <2>1 DEF Typed, StoreType, MaybeTrade
  <2>2. ASSUME redis[k] # NoTrade PROVE Closed(redis[k]) /\ k = Key(redis[k])
    BY <1>1, <2>1, <2>2 DEF OnceInv, Keyed
  <2>3. ASSUME redis[k] # NoTrade PROVE ~Unstored(redis[k])
    BY <1>1, <2>1, <2>3 DEF OnceInv, Fresh
  <2> QED
    BY <2>1, <2>2, <2>3 DEF Key
<1>4. \A t \in Trades : /\ HasMessage(t)' <=> HasMessage(t)
                        /\ Unstored(t)' <=> Unstored(t)
                        /\ IsPending(t)' <=> IsPending(t)
                        /\ IsLearned(t)' <=> IsLearned(t)
  BY <1>1, <1>2 DEF HasMessage, Unstored, Range, IsPending, IsLearned
<1>5. Keyed'
  <2>1. ml'.got # NoTrade => ml'.pc # "idle" /\ Closed(ml.got)' /\ ml'.got[1] = ml'.key[1]
    BY <1>1, <1>2, <1>3 DEF OnceInv, Keyed, Closed
  <2> QED
    BY <1>1, <1>2, <2>1 DEF OnceInv, Keyed, Closed, Key
<1>6. OneMessage' /\ OneResult'
  BY <1>1, <1>2 DEF OnceInv, OneMessage, OneResult
<1>7. Fresh'
  <2>1. ASSUME NEW t \in Trades, Unstored(t) PROVE ml'.got # t
    BY <1>2, <1>3, <2>1 DEF OnceInv, Fresh
  <2> QED
    BY <1>1, <1>4, <2>1 DEF OnceInv, Fresh
<1>8. Gone' /\ Single'
  BY <1>1, <1>2, <1>4 DEF OnceInv, Gone, Single, HasTwin, Typed, StoreType
<1> QED
  BY <1>5, <1>6, <1>7, <1>8 DEF OnceInv

LEMMA EndMaeKeeps == ASSUME Typed, OnceInv, EndMae PROVE OnceInv'
<1> USE NoTradeIsNone, InboxTyped
<1>0. ml.pc # "idle" /\ ml' = IdleMae
  BY DEF EndMae, MaeDone
<1>1. CASE ml.got = NoTrade
  <2>1. Shrinks
    BY <1>0, <1>1 DEF EndMae, Shrinks, Fewer, exchange, store, learning, counters
  <2> QED
    BY <2>1, ShrinksKeeps
<1>2. CASE ml.got # NoTrade
  <2> DEFINE u == ml.got
             l0 == <<u, ml.of>>
  <2>1. /\ UNCHANGED <<status, info, inbox, measured, mbox, pending, redis, aged, overtaken, rl>>
        /\ learned' = learned \cup {l0}
        /\ ml'.pc = "idle" /\ ml'.of = NoTrade /\ ml'.got = NoTrade
    BY <1>0, <1>2 DEF EndMae, Learn, exchange, IdleMae
  <2>2. /\ u \in Trades /\ ml.of \in Trades /\ Closed(u)
        /\ u[1] = ml.of[1] /\ l0[1] = u /\ l0[2] = ml.of
    <3>1. u \in Trades /\ ml.of \in Trades
      BY <1>0, <1>2 DEF Typed, MaeType, MaeRecords, MaybeTrade
    <3>2. Closed(u) /\ u[1] = ml.key[1] /\ ml.key = Key(ml.of)
      BY <1>0, <1>2 DEF OnceInv, Keyed
    <3> QED
      BY <3>1, <3>2 DEF Key
  <2>3. ~Unstored(u)
    BY <2>2 DEF OnceInv, Fresh
  <2>4. ~HasTwin(u) => ml.of = u
    BY <2>2, OneTrade
  <2>5. \A t \in Trades : /\ HasMessage(t)' => HasMessage(t)
                          /\ Unstored(t)' <=> Unstored(t)
                          /\ IsPending(t)' <=> IsPending(t)
                          /\ IsLearned(t)' => IsLearned(t) \/ t = u
    BY <2>1, <2>2 DEF HasMessage, Unstored, Range, IsPending, IsLearned
  <2>6. Keyed'
    <3>1. \A l \in learned' : Closed(l[1])' /\ (l[2] # NoTrade => l[2][1] = l[1][1])
      BY <2>1, <2>2 DEF OnceInv, Keyed, Closed
    <3> QED
      BY <2>1, <3>1 DEF OnceInv, Keyed, Closed, Key
  <2>7. OneMessage' /\ OneResult'
    BY <2>1 DEF OnceInv, OneMessage, OneResult
  <2>8. Fresh'
    BY <2>1, <2>3, <2>5 DEF OnceInv, Fresh
  <2>9. Gone'
    BY <2>1, <2>5 DEF OnceInv, Gone, Typed, StoreType
  <2>10. Single'
    <3>1. ASSUME NEW t \in Trades, ~HasTwin(t), t \notin overtaken
          PROVE  /\ IsLearned(t)' => ~IsPending(t)' /\ ~HasMessage(t)'
                 /\ \A l, n \in learned' : l[1] = t /\ n[1] = t => l = n
      <4>1. CASE t = u
        <5>1. ml.of = t /\ ~IsPending(t) /\ ~IsLearned(t)
          BY <2>2, <2>4, <3>1, <4>1 DEF OnceInv, Single
        <5>2. ~HasMessage(t)'
          BY <2>1, <2>2, <5>1 DEF HasMessage, OnceInv, OneMessage
        <5>3. \A l \in learned' : l[1] = t => l = l0
          BY <2>1, <5>1 DEF IsLearned
        <5> QED
          BY <2>5, <5>1, <5>2, <5>3
      <4>2. CASE t # u
        <5>1. \A l \in learned' : l[1] = t => l \in learned
          BY <2>1, <2>2, <4>2
        <5> QED
          BY <2>5, <3>1, <4>2, <5>1 DEF OnceInv, Single
      <4> QED
        BY <4>1, <4>2
    <3> QED
      BY <2>1, <3>1 DEF Single, HasTwin
  <2> QED
    BY <2>6, <2>7, <2>8, <2>9, <2>10 DEF OnceInv
<1> QED
  BY <1>1, <1>2

\* The message's trade is o, the entry of its key f, if there is one that is not stale.
LEMMA TakeMaeKeeps == ASSUME Typed, OnceInv, TakeMae PROVE OnceInv'
<1> USE NoTradeIsNone, InboxTyped
<1>1. /\ UNCHANGED <<status, info, inbox, measured, redis, aged, rl>>
      /\ ml.pc = "idle" /\ ml.of = NoTrade /\ ml.got = NoTrade
      /\ mbox # <<>> /\ mbox' = Tail(mbox) /\ mbox \in Seq([key : Keys, of : Trades])
  BY DEF TakeMae, exchange, Typed, MessageType, MaeType, IdleMae
<1>2. /\ 1 \in DOMAIN mbox /\ Head(mbox) = mbox[1]
      /\ \A i \in DOMAIN mbox' : i + 1 \in DOMAIN mbox /\ i + 1 # 1 /\ mbox'[i] = mbox[i + 1]
      /\ DOMAIN mbox' \subseteq Nat
  BY <1>1, TailElements
<1>3. PICK o \in Trades, k \in Keys : o = Head(mbox).of /\ k = Head(mbox).key
  BY <1>2
<1>4. PICK f \in MaybeTrade : f = IF k \in Stale THEN NoTrade ELSE pending[k]
  BY DEF MaybeTrade, Typed, StoreType
<1>5. Closed(o) /\ k = Key(o) /\ HasMessage(o)
  BY <1>2, <1>3 DEF OnceInv, Keyed, HasMessage
<1>6. /\ \A j \in Keys : pending'[j] \in {pending[j], NoTrade}
      /\ \A j \in Keys : pending[j] \in aged => pending'[j] = NoTrade
      /\ pending'[k] = NoTrade
  <2>1. pending' = [j \in Keys |-> IF j \in Stale \cup {k} THEN NoTrade ELSE pending[j]]
    BY <1>3 DEF TakeMae, PendingWithout
  <2> QED
    BY <2>1 DEF Stale
<1>7. f # NoTrade => /\ f \in Trades /\ f = pending[k] /\ f \notin aged /\ IsPending(f)
                     /\ Closed(f) /\ Key(f) = k /\ f[1] = o[1]
  <2>1. ASSUME f # NoTrade PROVE f \in Trades /\ f = pending[k] /\ f \notin aged
    BY <1>4, <2>1 DEF MaybeTrade, Stale
  <2>2. ASSUME f # NoTrade PROVE Closed(f) /\ Key(f) = k
    BY <2>1, <2>2 DEF OnceInv, Keyed
  <2> QED
    BY <1>5, <2>1, <2>2 DEF IsPending, Key
<1>8. \/ f # NoTrade /\ ml' = IdleMae
      \/ /\ f = NoTrade
         /\ ml' = [IdleMae EXCEPT !.pc = "probe", !.key = k, !.of = o,
                                  !.kept = \E j \in Keys : redis[j] = o]
  BY <1>3, <1>4 DEF TakeMae, MaeDone
<1>9. /\ ml'.got = NoTrade
      /\ \/ f # NoTrade /\ ml'.pc = "idle" /\ ml'.of = NoTrade
         \/ f = NoTrade /\ ml'.pc = "probe" /\ ml'.of = o /\ ml'.key = k
  <2>1. CASE f # NoTrade
    BY <1>8, <2>1 DEF IdleMae
  <2>2. CASE f = NoTrade
    <3>1. PICK b : ml' = [IdleMae EXCEPT !.pc = "probe", !.key = k, !.of = o, !.kept = b]
      BY <1>8, <2>2
    <3> QED
      BY <2>2, <3>1 DEF IdleMae
  <2> QED
    BY <2>1, <2>2
<1>10. /\ learned \subseteq learned'
       /\ \A l \in learned' :
            \/ l \in learned
            \/ l = <<l[1], NoTrade>> /\ l[1] \in aged /\ IsPending(l[1])
            \/ f # NoTrade /\ l = <<f, o>> /\ l[1] = f /\ l[2] = o
  <2> DEFINE stale == {<<pending[j], NoTrade>> : j \in Stale}
  <2>1. learned' = learned \cup stale \/ (f # NoTrade /\ learned' = learned \cup stale \cup {<<f, o>>})
    BY <1>3, <1>4 DEF TakeMae
  <2>2. \A l \in stale : l = <<l[1], NoTrade>> /\ l[1] \in aged /\ IsPending(l[1])
    BY DEF Stale, IsPending
  <2> HIDE DEF stale
  <2> QED
    BY <2>1, <2>2
<1>11. \A t \in Trades : t \notin overtaken' => t \notin overtaken /\ (t = o => ~Unstored(o))
  BY <1>3 DEF TakeMae
<1>12. \A t \in Trades : /\ IsPending(t)' => IsPending(t) /\ t \notin aged /\ t # f
                         /\ Unstored(t)' <=> Unstored(t)
                         /\ HasMessage(t)' => HasMessage(t)
  <2>1. ASSUME NEW t \in Trades, IsPending(t)' PROVE IsPending(t) /\ t \notin aged /\ t # f
    <3>1. PICK j \in Keys : pending'[j] = t
      BY <2>1 DEF IsPending
    <3>2. pending[j] = t /\ t \notin aged /\ j # k
      BY <1>6, <3>1
    <3>3. t # f
      BY <1>7, <3>2 DEF OnceInv, Keyed
    <3> QED
      BY <3>2, <3>3 DEF IsPending
  <2>2. ASSUME NEW t \in Trades PROVE Unstored(t)' <=> Unstored(t)
    BY <1>1 DEF Unstored, Range
  <2>3. ASSUME NEW t \in Trades, HasMessage(t)' PROVE HasMessage(t)
    BY <1>1, <1>2, <1>5, <1>9, <2>3 DEF HasMessage
  <2> QED
    BY <2>1, <2>2, <2>3
<1>13. /\ \A i \in DOMAIN mbox' : mbox'[i].of # o
       /\ \A j \in Keys : measured[j] # o
       /\ ml'.pc = "idle" => ~HasMessage(o)'
  <2>1. \A i \in DOMAIN mbox' : mbox'[i].of # o
    BY <1>2, <1>3 DEF OnceInv, OneMessage
  <2>2. \A j \in Keys : measured[j] # o
    BY <1>2, <1>3 DEF OnceInv, OneMessage
  <2> QED
    BY <1>1, <1>9, <2>1, <2>2 DEF HasMessage
<1>14. f = NoTrade => ~IsPending(o)'
  <2>1. \A j \in Keys : pending[j] = o => j = k
    BY <1>5 DEF OnceInv, Keyed
  <2>2. \A j \in Keys : pending'[j] # o
    BY <1>6, <2>1
  <2> QED
    BY <2>2 DEF IsPending
<1>15. Keyed'
  <2>1. \A j \in Keys, t \in Trades :
          t \in {measured'[j], pending'[j], redis'[j]} => Closed(t)' /\ j = Key(t)'
    BY <1>1, <1>6 DEF OnceInv, Keyed, Closed, Key
  <2>2. \A i \in DOMAIN mbox' : Closed(mbox[i].of)' /\ mbox'[i].key = Key(mbox[i].of)'
    BY <1>1, <1>2 DEF OnceInv, Keyed, Closed, Key
  <2>3. ml'.pc # "idle" => Closed(ml.of)' /\ ml'.key = Key(ml.of)'
    BY <1>1, <1>5, <1>9 DEF Closed, Key
  <2>4. \A l \in learned' : Closed(l[1])' /\ (l[2] # NoTrade => l[2][1] = l[1][1])
    <3>1. \A l \in learned' : status'[l[1]] = "closed"
      BY <1>1, <1>7, <1>10 DEF OnceInv, Keyed, Closed
    <3>2. \A l \in learned' : l[2] # NoTrade => l[2][1] = l[1][1]
      BY <1>7, <1>10 DEF OnceInv, Keyed
    <3> QED
      BY <3>1, <3>2 DEF Closed
  <2>5. /\ \A i \in DOMAIN inbox' : Closed(inbox[i])'
        /\ rl'.pc # "idle" => Closed(rl.t)'
        /\ \A t \in aged' : Closed(t)'
    BY <1>1 DEF OnceInv, Keyed, Closed
  <2> QED
    BY <1>9, <2>1, <2>2, <2>3, <2>4, <2>5 DEF Keyed
<1>16. OneMessage'
  <2>1. /\ \A j \in Keys, i \in DOMAIN mbox' : measured'[j] # mbox'[i].of
        /\ \A i, j \in DOMAIN mbox' : mbox'[i].of = mbox'[j].of => i = j
    BY <1>1, <1>2 DEF OnceInv, OneMessage
  <2>2. \A j \in Keys : measured'[j] # NoTrade => measured'[j] # ml'.of
    BY <1>1, <1>9, <1>13
  <2>3. \A i \in DOMAIN mbox' : mbox'[i].of # ml'.of
    <3>1. \A i \in DOMAIN mbox' : mbox'[i].of \in Trades
      BY <1>2
    <3> QED
      BY <1>9, <1>13, <3>1
  <2> QED
    BY <2>1, <2>2, <2>3 DEF OneMessage
<1>17. OneResult'
  BY <1>1 DEF OnceInv, OneResult
<1>18. Fresh'
  <2>1. ASSUME NEW t \in Trades, Unstored(t), IsLearned(t)' PROVE FALSE
    <3>1. ~IsPending(t) /\ ~IsLearned(t)
      BY <2>1 DEF OnceInv, Fresh
    <3>2. PICK l \in learned' : l[1] = t
      BY <2>1 DEF IsLearned
    <3> QED
      BY <1>7, <1>10, <3>1, <3>2 DEF IsLearned
  <2> QED
    BY <1>1, <1>9, <1>12, <2>1 DEF OnceInv, Fresh
<1>19. Gone'
  BY <1>1, <1>12 DEF OnceInv, Gone, Typed, StoreType
<1>20. Single'
  <2> SUFFICES ASSUME NEW t \in Trades, ~HasTwin(t), t \notin overtaken'
               PROVE  /\ ml'.of = t => ~IsPending(t)' /\ ~IsLearned(t)' /\ ~Unstored(t)'
                      /\ IsLearned(t)' => ~IsPending(t)' /\ ~HasMessage(t)'
                      /\ \A l, n \in learned' : l[1] = t /\ n[1] = t => l = n
    BY DEF Single, HasTwin
  <2>1. t \notin overtaken
    BY <1>11
  <2>2. IsLearned(t) => ~IsPending(t) /\ ~HasMessage(t)
    BY <2>1 DEF OnceInv, Single
  <2>3. t \in aged => ~HasMessage(t)
    BY DEF OnceInv, Gone
  <2>4. ASSUME f = t PROVE t = o /\ ~HasMessage(t)'
    <3>1. t = o
      BY <1>7, <2>4, OneTrade
    <3> QED
      BY <1>9, <1>13, <2>4, <3>1
  <2>5. ASSUME IsLearned(t)' PROVE IsLearned(t) \/ (t \in aged /\ IsPending(t)) \/ f = t
    <3>1. PICK l \in learned' : l[1] = t
      BY <2>5 DEF IsLearned
    <3> QED
      BY <1>10, <3>1 DEF IsLearned
  <2>6. ml'.of = t => ~IsPending(t)' /\ ~IsLearned(t)' /\ ~Unstored(t)'
    <3>1. ASSUME ml'.of = t PROVE t = o /\ f = NoTrade
      BY <1>9, <3>1
    <3> QED
      BY <1>5, <1>11, <1>12, <1>14, <2>2, <2>3, <2>5, <3>1
  <2>7. IsLearned(t)' => ~IsPending(t)' /\ ~HasMessage(t)'
    BY <1>12, <2>2, <2>3, <2>4, <2>5
  <2>8. ASSUME NEW l \in learned', NEW n \in learned', l[1] = t, n[1] = t PROVE l = n
    <3>1. CASE IsLearned(t)
      <4>1. ~IsPending(t) /\ f # t
        BY <1>7, <2>2, <3>1
      <4>2. l \in learned /\ n \in learned
        BY <1>10, <2>8, <4>1
      <4> QED
        BY <2>1, <2>8, <4>2 DEF OnceInv, Single
    <3>2. CASE ~IsLearned(t)
      <4>1. l \notin learned /\ n \notin learned
        BY <2>8, <3>2 DEF IsLearned
      <4> QED
        BY <1>7, <1>10, <2>8, <4>1
    <3> QED
      BY <3>1, <3>2
  <2> QED
    BY <2>6, <2>7, <2>8
<1> QED
  BY <1>15, <1>16, <1>17, <1>18, <1>19, <1>20 DEF OnceInv

LEMMA OnceInit == Init => OnceInv
<1> SUFFICES ASSUME Init PROVE OnceInv
  OBVIOUS
<1>1. /\ \A k \in Keys : measured[k] = NoTrade /\ pending[k] = NoTrade /\ redis[k] = NoTrade
      /\ mbox = <<>> /\ inbox = <<>> /\ aged = {} /\ learned = {}
      /\ rl.pc = "idle" /\ rl.t = NoTrade
      /\ ml.pc = "idle" /\ ml.of = NoTrade /\ ml.got = NoTrade
  BY DEF Init, IdleResults, IdleMae
<1>2. \A t \in Trades : ~HasMessage(t) /\ ~Unstored(t)
  BY <1>1, NoTradeIsNone DEF HasMessage, Unstored, Range
<1> QED
  BY <1>1, <1>2, NoTradeIsNone
  DEF OnceInv, Keyed, OneMessage, OneResult, Fresh, Gone, Single, IsLearned

LEMMA OnceStep == ASSUME Typed, OnceInv, [Next]_vars PROVE OnceInv'
<1>1. CASE UNCHANGED vars
  <2>1. Shrinks
    BY <1>1 DEF vars, exchange, store, learning, Shrinks, Fewer
  <2> QED
    BY <2>1, ShrinksKeeps
<1>2. CASE Exchange
  <2>1. ASSUME NEW t \in Trades, Open(t) \/ Age(t) PROVE OnceInv'
    BY <2>1, OpenKeeps, AgeKeeps
  <2>2. ASSUME NEW t \in Trades, NEW e \in BOOLEAN, NEW p \in {"win", "loss"}, NEW v \in BOOLEAN,
               Close(t, e, p, v)
        PROVE  OnceInv'
    BY <2>2, CloseKeeps
  <2>3. ASSUME NEW k \in Keys, Measured(k) PROVE OnceInv'
    BY <2>3, MeasuredKeeps
  <2>4. ASSUME NEW k \in Keys, MeasureLost(k) \/ Expire(k) PROVE OnceInv'
    BY <2>4, RemovalsShrink, ShrinksKeeps
  <2> QED
    BY <1>2, <2>1, <2>2, <2>3, <2>4 DEF Exchange
<1>3. CASE Results
  BY <1>3, TakeKeeps, StoreKeeps, MirrorKeeps, RemovalsShrink, ShrinksKeeps DEF Results
<1>4. CASE Excursions
  BY <1>4, TakeMaeKeeps, ProbeKeeps, EndMaeKeeps, RemovalsShrink, ShrinksKeeps DEF Excursions
<1>5. CASE Timers \/ TrainEnds \/ TrainRaises \/ RedisFails \/ Restart
  BY <1>5, RemovalsShrink, ShrinksKeeps
<1> QED
  BY <1>1, <1>2, <1>3, <1>4, <1>5 DEF Next

LEMMA OnceInvSuffices == Typed /\ OnceInv => LearnedOnce
<1> SUFFICES ASSUME Typed, OnceInv, NEW t \in Trades, ~HasTwin(t)
             PROVE  /\ t \in overtaken \/ Cardinality(Learnings(t)) <= 1
                    /\ \A l \in Learnings(t) : l[2] \in {t, NoTrade}
  BY DEF LearnedOnce
<1>1. ASSUME t \notin overtaken PROVE Cardinality(Learnings(t)) <= 1
  <2>1. \A l, n \in Learnings(t) : l = n
    BY <1>1 DEF OnceInv, Single, Learnings
  <2>2. CASE Learnings(t) = {}
    BY <2>2, FS_EmptySet
  <2>3. CASE Learnings(t) # {}
    <3>1. PICK l : Learnings(t) = {l}
      BY <2>1, <2>3
    <3>2. Cardinality({l}) = 1
      BY FS_Singleton
    <3> QED
      BY <3>1, <3>2
  <2> QED
    BY <2>2, <2>3
<1>2. ASSUME NEW l \in Learnings(t) PROVE l[2] \in {t, NoTrade}
  <2>1. l[1] = t /\ l[2] \in MaybeTrade
    BY DEF Learnings, Typed, StoreType
  <2>2. l[2] # NoTrade => l[2] \in Trades /\ l[2][1] = t[1]
    BY <2>1 DEF Learnings, OnceInv, Keyed, MaybeTrade
  <2> QED
    BY <2>2, OneTrade
<1> QED
  BY <1>1, <1>2

\* Restarts, stale entries, two copies and several spellings of a key (engine.py 552 to
\* 598) do not let a trade be learned twice or with the excursion of another one,
\* however many signals there are and whichever of the others are traded twice.
THEOREM EachTradeLearnedOnce == Spec => []LearnedOnce
<1>1. Init => Typed /\ OnceInv
  BY TypedInit, OnceInit
<1>2. Typed /\ OnceInv /\ [Next]_vars => Typed' /\ OnceInv'
  BY TypedStep, OnceStep
<1>3. Typed /\ OnceInv => LearnedOnce
  BY OnceInvSuffices
<1> QED
  BY <1>1, <1>2, <1>3, PTL DEF Spec

(***************************************************************************)
(* KeptIsLearned.  What the listener looks for is found or still there.    *)
(***************************************************************************)
StillKept ==
    ml.pc # "idle" /\ ml.kept /\ ~ml.failed /\ ~HasTwin(ml.of) =>
        \/ ml.got = ml.of
        \/ ml.pc = "probe" /\ redis[Key(ml.of)] = ml.of /\ (ml.suffix \/ ~info[ml.of].exchange)

\* The steps of the others.
LEMMA KeptByOthers ==
    ASSUME Typed, OnceInv, StillKept, UNCHANGED ml, ml.pc # "idle",
           info'[ml.of] = info[ml.of],
           \A k \in Keys : \/ redis'[k] = redis[k]
                           \/ redis[k] \in aged
                           \/ k = Key(redis'[k]) /\ redis'[k] \in Trades
    PROVE  StillKept'
<1>1. ml.of \in Trades /\ Key(ml.of) \in Keys /\ HasMessage(ml.of)
  BY KeyType DEF Typed, MaeType, HasMessage
<1>2. ml.of \notin aged
  BY <1>1 DEF OnceInv, Gone
<1>3. ASSUME redis[Key(ml.of)] = ml.of, ~HasTwin(ml.of) PROVE redis'[Key(ml.of)] = ml.of
  <2>1. ASSUME redis'[Key(ml.of)] \in Trades, Key(ml.of) = Key(redis'[Key(ml.of)])
        PROVE  redis'[Key(ml.of)] = ml.of
    <3>1. redis'[Key(ml.of)][1] = ml.of[1]
      BY <2>1 DEF Key
    <3> QED
      BY <1>1, <1>3, <2>1, <3>1, OneTrade
  <2> QED
    BY <1>1, <1>2, <1>3, <2>1
<1>4. /\ ml'.pc = ml.pc /\ ml'.kept = ml.kept /\ ml'.failed = ml.failed /\ ml'.of = ml.of
      /\ ml'.got = ml.got /\ ml'.suffix = ml.suffix
  OBVIOUS
<1> QED
  BY <1>3, <1>4 DEF StillKept, HasTwin, Key

LEMMA OthersKeep ==
    ASSUME Typed, OnceInv, StillKept,
           \/ Exchange \/ Results \/ Timers \/ TrainEnds \/ TrainRaises \/ UNCHANGED vars
    PROVE  StillKept'
<1>1. UNCHANGED ml
  BY DEF Exchange, Open, Close, Measured, MeasureLost, Age, Expire, Results, Take, Store, Mirror,
         Count, Streak, Pop, Timers, Cooled, Timer, TrainEnds, TrainRaises, vars
<1>2. CASE ml.pc = "idle"
  BY <1>1, <1>2 DEF StillKept
<1>3. CASE ml.pc # "idle"
  <2>1. ml.of \in Trades /\ Closed(ml.of)
    BY <1>3 DEF Typed, MaeType, OnceInv, Keyed
  <2>2. info'[ml.of] = info[ml.of]
    <3>1. ASSUME NEW t \in Trades, NEW e \in BOOLEAN, NEW p \in {"win", "loss"}, NEW v \in BOOLEAN,
                 Close(t, e, p, v)
          PROVE  info'[ml.of] = info[ml.of]
      <4>1. status[t] # "closed" /\ info' = [info EXCEPT ![t] = [exchange |-> e, pnl |-> p, vector |-> v]]
        BY <3>1 DEF Close
      <4> QED
        BY <2>1, <4>1 DEF Closed, Typed, ExchangeType
    <3>2. \/ info' = info
          \/ \E t \in Trades, e \in BOOLEAN, p \in {"win", "loss"}, v \in BOOLEAN : Close(t, e, p, v)
      BY DEF Exchange, Open, Measured, MeasureLost, Age, Expire, Results, Take, Store, Mirror,
             Count, Streak, Pop, Timers, Cooled, Timer, TrainEnds, TrainRaises, vars, exchange
    <3> QED
      BY <3>1, <3>2
  <2>3. \A k \in Keys : \/ redis'[k] = redis[k]
                        \/ redis[k] \in aged
                        \/ k = Key(redis'[k]) /\ redis'[k] \in Trades
    <3>1. ASSUME NEW j \in Keys, Expire(j) PROVE \A k \in Keys : redis'[k] = redis[k] \/ redis[k] \in aged
      BY <3>1 DEF Expire, Typed, StoreType
    <3>2. ASSUME Mirror
          PROVE  \A k \in Keys : redis'[k] = redis[k] \/ (k = Key(redis'[k]) /\ redis'[k] \in Trades)
      <4>1. rl.t \in Trades /\ Key(rl.t) \in Keys
        BY <3>2, KeyType DEF Mirror, Typed, ResultType
      <4>2. redis' = redis \/ redis' = [redis EXCEPT ![Key(rl.t)] = rl.t]
        BY <3>2 DEF Mirror
      <4> QED
        BY <4>1, <4>2 DEF Typed, StoreType
    <3>3. redis' = redis \/ (\E k \in Keys : Expire(k)) \/ Mirror
      BY DEF Exchange, Open, Close, Measured, MeasureLost, Age, Results, Take, Store,
             Count, Streak, Pop, Timers, Cooled, Timer, TrainEnds, TrainRaises, vars, store
    <3>4. CASE redis' = redis
      BY <3>4
    <3>5. CASE \E j \in Keys : Expire(j)
      <4>1. PICK j \in Keys : Expire(j)
        BY <3>5
      <4> QED
        BY <3>1, <4>1
    <3>6. CASE Mirror
      BY <3>2, <3>6
    <3> QED
      BY <3>3, <3>4, <3>5, <3>6
  <2> QED
    BY <1>1, <1>3, <2>2, <2>3, KeptByOthers
<1> QED
  BY <1>2, <1>3

LEMMA KeptStep == ASSUME Typed, OnceInv, StillKept, [Next]_vars PROVE StillKept'
<1>1. CASE TakeMae
  <2>1. ml' = IdleMae \/ (\E b \in BOOLEAN : ml'.pc = "probe" /\ ml'.of \in Trades /\ ml'.suffix
                            /\ (ml'.kept => \E j \in Keys : redis[j] = ml'.of))
    <3>1. CASE ml' = IdleMae
      BY <3>1
    <3>2. CASE ml' # IdleMae
      <4>1. PICK o, k, b : /\ ml' = [IdleMae EXCEPT !.pc = "probe", !.key = k, !.of = o, !.kept = b]
                           /\ b = (\E j \in Keys : redis[j] = o) /\ o = Head(mbox).of
        BY <1>1, <3>2 DEF TakeMae, MaeDone
      <4>2. Head(mbox) \in [key : Keys, of : Trades]
        BY <1>1, NonEmptySeq DEF TakeMae, Typed, MessageType
      <4>3. o \in Trades
        BY <4>1, <4>2
      <4>4. ml'.pc = "probe" /\ ml'.of = o /\ ml'.suffix = TRUE /\ ml'.kept = b
        BY <4>1 DEF IdleMae
      <4> QED
        BY <4>1, <4>3, <4>4
    <3> QED
      BY <3>1, <3>2
  <2>2. UNCHANGED <<redis, info>>
    BY <1>1 DEF TakeMae, exchange
  <2>3. ASSUME ml'.of \in Trades, NEW j \in Keys, redis[j] = ml'.of PROVE redis[Key(ml'.of)] = ml'.of
    BY <2>3 DEF OnceInv, Keyed
  <2> QED
    BY <2>1, <2>2, <2>3 DEF StillKept, IdleMae, Key
<1>2. CASE Probe
  <2> DEFINE k == <<ml.key[1], ml.suffix>>
  <2>1. /\ UNCHANGED <<redis, info>>
        /\ ml'.kept = ml.kept /\ ml'.failed = ml.failed /\ ml'.of = ml.of /\ ml.pc = "probe"
        /\ \/ redis[k] # NoTrade /\ ml'.got = redis[k]
           \/ /\ redis[k] = NoTrade /\ ml'.got = ml.got /\ ~ml'.suffix
              /\ ml'.pc = IF ml.suffix THEN "probe" ELSE "end"
    BY <1>2 DEF Probe, NextSuffix, exchange, store, Typed, MaeType, MaeRecords
  <2>2. /\ ml.of \in Trades /\ ml.key = Key(ml.of) /\ k \in Keys
        /\ Key(ml.of) = <<ml.of[1], info[ml.of].exchange>>
        /\ ml.suffix \in BOOLEAN /\ info[ml.of].exchange \in BOOLEAN
    <3>1. ml.of \in Trades /\ ml.key = Key(ml.of) /\ k \in Keys
      BY <2>1, SuffixedKey DEF Typed, MaeType, MaeRecords, OnceInv, Keyed
    <3> QED
      BY <3>1 DEF Key, Typed, MaeType, MaeRecords, ExchangeType
  <2>3. ASSUME redis[k] # NoTrade, ~HasTwin(ml.of) PROVE redis[k] = ml.of
    <3>1. redis[k] \in Trades
      BY <2>2, <2>3 DEF Typed, StoreType, MaybeTrade
    <3>2. k = Key(redis[k])
      BY <2>2, <3>1 DEF OnceInv, Keyed
    <3>3. redis[k][1] = ml.of[1]
      BY <2>2, <3>2 DEF Key
    <3> QED
      BY <2>2, <2>3, <3>1, <3>3, OneTrade
  <2>4. ASSUME redis[Key(ml.of)] = ml.of, redis[k] = NoTrade PROVE ml.suffix # info[ml.of].exchange
    BY <2>2, <2>4, NoTradeIsNone
  <2> SUFFICES ASSUME ml.kept, ~ml.failed, ~HasTwin(ml.of)
               PROVE  \/ ml'.got = ml.of
                      \/ /\ ml'.pc = "probe" /\ redis[Key(ml.of)] = ml.of
                         /\ ml'.suffix \/ ~info[ml.of].exchange
    BY <2>1 DEF StillKept, HasTwin, Key
  <2>5. CASE redis[k] # NoTrade
    BY <2>1, <2>3, <2>5
  <2>6. CASE redis[k] = NoTrade /\ ml.got = ml.of
    BY <2>1, <2>6
  <2>7. CASE redis[k] = NoTrade /\ ml.got # ml.of
    <3>1. redis[Key(ml.of)] = ml.of /\ (ml.suffix \/ ~info[ml.of].exchange)
      BY <2>1, <2>7 DEF StillKept
    <3> QED
      BY <2>1, <2>2, <2>4, <2>7, <3>1
  <2> QED
    BY <2>5, <2>6, <2>7
<1>3. CASE Delete \/ Purge
  <2>1. /\ ml'.kept = ml.kept /\ ml'.failed = ml.failed /\ ml'.of = ml.of /\ ml'.got = ml.got
        /\ ml.pc \in {"delete", "purge"}
    BY <1>3 DEF Delete, Purge, Typed, MaeType, MaeRecords
  <2> QED
    BY <2>1 DEF StillKept, HasTwin
<1>4. CASE EndMae \/ Restart
  BY <1>4 DEF EndMae, Restart, MaeDone, IdleMae, StillKept
<1>5. CASE RedisFails
  <2>1. ml'.failed
    BY <1>5 DEF RedisFails, Typed, MaeType, MaeRecords
  <2> QED
    BY <2>1 DEF StillKept
<1>6. CASE Exchange \/ Results \/ Timers \/ TrainEnds \/ TrainRaises \/ UNCHANGED vars
  BY <1>6, OthersKeep
<1> QED
  BY <1>1, <1>2, <1>3, <1>4, <1>5, <1>6 DEF Next, Excursions

LEMMA KeptSuffices ==
    ASSUME Typed, OnceInv, StillKept, [Next]_vars, NEW t \in Trades,
           ml.of = t, ml'.pc = "idle", ml.kept, ~ml.failed, faults' = faults, ~HasTwin(t)
    PROVE  \E l \in learned' : l[1] = t
<1>1. ml.pc # "idle"
  BY NoTradeIsNone DEF Typed, MaeType, IdleMae
<1>2. ~Fault
  BY MaxFaultsAssumption DEF Fault, Typed, FaultType
<1>3. CASE EndMae
  <2>1. ml.got = t
    BY <1>3 DEF EndMae, StillKept
  <2>2. learned' = learned \cup {<<t, ml.of>>}
    BY <1>3, <2>1, NoTradeIsNone DEF EndMae, Learn
  <2>3. <<t, ml.of>> \in learned' /\ <<t, ml.of>>[1] = t
    BY <2>2
  <2> QED
    BY <2>3
<1>4. CASE Probe \/ Delete \/ Purge
  <2>1. ml'.pc # "idle"
    BY <1>4 DEF Probe, NextSuffix, Delete, Purge, Typed, MaeType, MaeRecords
  <2> QED
    BY <2>1
<1>5. CASE ml' = ml
  BY <1>1, <1>5
<1>6. ~TakeMae /\ ~RedisFails /\ ~Restart
  BY <1>1, <1>2 DEF TakeMae, RedisFails, Restart
<1> QED
  BY <1>3, <1>4, <1>5, <1>6
  DEF Next, Exchange, Open, Close, Measured, MeasureLost, Age, Expire, Results, Take, Store, Mirror,
      Count, Streak, Pop, Excursions, Timers, Cooled, Timer, TrainEnds, TrainRaises, vars

\* An excursion whose trade Redis holds when its message is taken is learned with it,
\* under either spelling of the key (engine.py 584), unless a Redis call fails, the engine
\* restarts, or the signal was traded twice.
THEOREM KeptTradesAreLearned == Spec => KeptIsLearned
<1>1. Init => Typed /\ OnceInv /\ StillKept
  <2>1. Init => StillKept
    BY DEF Init, StillKept, IdleMae
  <2> QED
    BY <2>1, TypedInit, OnceInit
<1>2. Typed /\ OnceInv /\ StillKept /\ [Next]_vars => Typed' /\ OnceInv' /\ StillKept'
  BY TypedStep, OnceStep, KeptStep
<1> DEFINE Learns == \A t \in Trades :
             ml.of = t /\ ml'.pc = "idle" /\ ml.kept /\ ~ml.failed /\ faults' = faults /\ ~HasTwin(t)
               => \E l \in learned' : l[1] = t
<1>3. Typed /\ OnceInv /\ StillKept /\ [Next]_vars => [Learns]_vars
  BY KeptSuffices
<1> HIDE DEF Learns
<1>4. Spec => [][Learns]_vars
  BY <1>1, <1>2, <1>3, PTL DEF Spec
<1> QED
  BY <1>4 DEF KeptIsLearned, Learns
=============================================================================
