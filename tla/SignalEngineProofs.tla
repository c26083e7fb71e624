------------------------- MODULE SignalEngineProofs -------------------------
(***************************************************************************)
(* What SignalEngine promises for any predictions and books, any streaks   *)
(* and any number of dictionaries and faults.  The invariant has one part  *)
(* per question: what a stage of the thread knows of the event (Staged,    *)
(* Gated), what a cooldown lets through (Muting), and which dictionaries   *)
(* have had their signal (Distinguished, Voiced).  That the exit plans are *)
(* correct needs no invariant: they depend on the book and the limits only.*)
(***************************************************************************)
EXTENDS SignalEngine, ExitPlanProofs, TLAPS

USE DEF Sides, Directions

Confidences == {Confidence(p) : p \in Predictions}

\* The parts of TypeOK.
Kinds == {"none", "entry", "exit", "abort"}
TickType == [pc : TickLabels, kind : Kinds, trade : BOOLEAN,
             dict : DictType, dir : Directions, conf : 0..1000, muted : BOOLEAN,
             asks : BOOLEAN, flipped : BOOLEAN, t5 : Trends5, t15 : Trends15,
             impulse : BOOLEAN]
RestOK ==
    /\ active \in BOOLEAN
    /\ pos \in DictType /\ pend \in DictType
    /\ nDicts \in 0..MaxDicts
    /\ spoken \subseteq 1..nDicts /\ lost \subseteq 1..nDicts
    /\ cool \in {"none", "loss", "block", "expired"} /\ loss \in {"none", "kept", "lost"}
    /\ held \in 0..CorrLimit
    /\ faults \in 0..MaxFaults

\* A dictionary that is not marked has not reached the limit of adverse ticks, and
\* number 0 is no dictionary.
Tallied ==
    /\ \A d \in {pos, pend} : ~d.signaled => d.adverse < AdverseTicks
    /\ \A d \in {pos, pend} : d.id = 0 => d = NoDict

\* The stages of the thread and the kinds of events.
Staged ==
    /\ tick.pc \in {"recall", "cool", "forget", "judge", "plan"} => tick.kind = "entry"
    /\ tick.pc = "decide" => tick.kind \in {"exit", "abort"}
    /\ tick.pc \in {"score", "publish"} => tick.kind # "none"

\* What the gates passed so far have made of a prediction.
Guarded ==
    tick.pc \in {"recall", "cool", "forget", "judge"} =>
        /\ tick.conf \in Confidences
        /\ tick.dir = "LONG" /\ tick.asks => tick.trade
Planned ==
    tick.pc = "plan" \/ Publishing({"entry"}) =>
        /\ tick.dir \in Sides
        /\ tick.conf <= MaxConfidence
        /\ tick.dir = "SHORT" => tick.t5 <= 0
        /\ tick.dir = "LONG" /\ tick.t5 < 0 /\ tick.t15 < 0 => tick.conf <= 300
        /\ tick.dir = "LONG" /\ tick.asks => tick.trade \/ (tick.flipped /\ tick.t5 > 30)
Eventful == Publishing({"entry"}) => tick.conf >= 850 \/ tick.impulse
Gated == Guarded /\ Planned /\ Eventful

\* A loss whose cooldown is kept has a cooldown in the table, its own or that of a block,
\* so that an event that it mutes does not get past it.
Muting ==
    /\ loss = "kept" => cool \in {"loss", "block"}
    /\ tick.muted => /\ tick.kind = "entry"
                     /\ tick.pc \in {"score", "recall", "cool"}
                     /\ loss = "kept"

\* The dictionary in the hands of the thread is in its own table or in none, and it
\* had no signal yet.
Distinguished ==
    /\ pos.id = pend.id => pos.id = 0
    /\ tick.pc = "decide" =>
         /\ tick.dict.id # 0 /\ ~tick.dict.signaled /\ tick.dict.adverse < AdverseTicks
         /\ tick.kind = "exit" => tick.dict.id # pend.id /\ (tick.dict.id = pos.id => pos = tick.dict)
         /\ tick.kind = "abort" => tick.dict.id # pos.id /\ (tick.dict.id = pend.id => pend = tick.dict)
    /\ Publishing({"exit", "abort"}) =>
         /\ tick.dict.id # 0
         /\ \A d \in {pos, pend} : d.id = tick.dict.id => d.signaled
Voiced ==
    /\ \A d \in {pos, pend} : ~d.signaled => d.id \notin spoken \cup lost
    /\ tick.pc = "decide" \/ Publishing({"exit", "abort"}) => tick.dict.id \notin spoken \cup lost

Inv == TypeOK /\ Tallied /\ Staged /\ Gated /\ Muting /\ Distinguished /\ Voiced /\ FlaggedIsSent
-----------------------------------------------------------------------------
(***************************************************************************)
(* Operators                                                               *)
(***************************************************************************)
LEMMA ConfidenceType == ASSUME NEW p \in Int PROVE Confidence(p) \in 0..1000
  BY DEF Confidence, MinEdge, Abs, Least

LEMMA AnswerType == ASSUME NEW a \in Answers PROVE a.pnl \in Int /\ (a.pnl # 0 => a.pnl \in Predictions)
<1>1. PICK n \in {3, 5, 6, 7}, p \in Predictions, toxic \in BOOLEAN : a = DecidePnl(n, p, toxic)
  BY DEF Answers
<1> QED
  BY <1>1, PredictionsAssumption DEF DecidePnl

\* What passes the first gates has an edge, and no book of sellers at its book events
\* if it is LONG.
LEMMA PassedSound ==
    ASSUME NEW trade \in BOOLEAN, NEW x \in Passed[trade]
    PROVE  /\ x.pnl \in Predictions /\ x.asks \in BOOLEAN
           /\ Direction(x.pnl) = "LONG" /\ x.asks => trade
<1>1. PICK y \in [a : Answers, look : Looks, drift : BOOLEAN] :
         /\ KnifeGuard(Direction(y.a.pnl), y.drift, trade, y.look)
         /\ ~y.a.toxic /\ Abs(y.a.pnl) >= MinEdge
         /\ x = [pnl |-> y.a.pnl, asks |-> y.look.asks]
  BY DEF Passed
<1>2. y.a \in Answers /\ y.look \in Looks
  BY <1>1
<1>3. y.a.pnl \in Predictions
  BY <1>1, <1>2, AnswerType DEF Abs, MinEdge
<1>4. PICK book \in Books : y.look = [asks |-> Outweighs("LONG", book, 10, 10), thin |-> Thin(book)]
  BY <1>2 DEF Looks
<1>5. y.look.asks \in BOOLEAN
  BY <1>4 DEF Outweighs
<1>6. Direction(y.a.pnl) = "LONG" /\ y.look.asks => trade
  BY <1>1 DEF KnifeGuard
<1> QED
  BY <1>1, <1>3, <1>5, <1>6

\* What the trend filter, the threshold and the cap leave.
LEMMA JudgedSound ==
    ASSUME NEW dir \in Sides, NEW conf \in Confidences, NEW j \in Judged[dir][conf]
    PROVE  /\ j.dir \in Sides /\ j.flipped \in BOOLEAN /\ j.t5 \in Trends5 /\ j.t15 \in Trends15
           /\ j.conf \in 0..1000 /\ j.conf <= conf
           /\ j.dir = "SHORT" => j.t5 <= 0
           /\ j.dir = "LONG" /\ j.t5 < 0 /\ j.t15 < 0 => j.conf <= 300
           /\ j.dir = "LONG" => dir = "LONG" \/ (j.flipped /\ j.t5 > 30)
<1>1. conf \in 0..1000
  <2>1. PICK p \in Predictions : conf = Confidence(p)
    BY DEF Confidences
  <2>2. p \in Int
    BY PredictionsAssumption
  <2> QED
    BY <2>1, <2>2, ConfidenceType
<1>2. j \in Judgements(dir, conf) /\ j.pass
  BY DEF Judged, Confidences
<1>3. PICK t5 \in Trends5, t15 \in Trends15, longEv \in BOOLEAN, base \in BaseThresholds :
        LET new == TrendFilter(dir, t5)
            flipped == dir = "SHORT" /\ new = "LONG"
        IN  j = [pass |-> new # "HOLD" /\ conf > Threshold(new, flipped, conf, base, t5, t15, longEv),
                 dir |-> new, flipped |-> flipped, t5 |-> t5, t15 |-> t15,
                 conf |-> Capped(new, conf, t5, t15)]
  BY <1>2 DEF Judgements
<1> DEFINE new == TrendFilter(dir, t5)
<1>4. /\ j.dir = new /\ j.flipped = (dir = "SHORT" /\ new = "LONG") /\ j.t5 = t5 /\ j.t15 = t15
      /\ j.conf = Capped(new, conf, t5, t15) /\ new # "HOLD"
  BY <1>2, <1>3
<1>5. /\ new \in Sides
      /\ new = "SHORT" => t5 <= 0
      /\ new = "LONG" => dir = "LONG" \/ t5 > 30
  BY <1>4 DEF TrendFilter, Trends5
<1>6. /\ Capped(new, conf, t5, t15) \in 0..1000 /\ Capped(new, conf, t5, t15) <= conf
      /\ new = "LONG" /\ t5 < 0 /\ t15 < 0 => Capped(new, conf, t5, t15) <= 300
  BY <1>1 DEF Capped, Least, Trends5, Trends15
<1>7. j.flipped \in BOOLEAN /\ (j.dir = "LONG" => dir = "LONG" \/ (j.flipped /\ j.t5 > 30))
  BY <1>4, <1>5
<1>8. j.dir \in Sides /\ j.t5 \in Trends5 /\ j.t15 \in Trends15 /\ (j.dir = "SHORT" => j.t5 <= 0)
  BY <1>4, <1>5
<1>9. /\ j.conf \in 0..1000 /\ j.conf <= conf
      /\ j.dir = "LONG" /\ j.t5 < 0 /\ j.t15 < 0 => j.conf <= 300
  BY <1>4, <1>6
<1> HIDE DEF new
<1> QED
  BY <1>7, <1>8, <1>9

\* The thread changes neither number nor direction, and marks at the limits.
LEMMA FlipType ==
    ASSUME NEW d \in DictType
    PROVE  /\ Flip(d) \in DictType
           /\ Flip(d).id = d.id
           /\ Flip(d).adverse = d.adverse
<1>1. /\ d.flip \in 0..(FlipTicks - 1) /\ FlipTicks \in Nat \ {0}
      /\ d = [id |-> d.id, dir |-> d.dir, signaled |-> d.signaled, flip |-> d.flip,
              adverse |-> d.adverse]
  BY TicksAssumption DEF DictType
<1>2. CASE d.flip + 1 >= FlipTicks
  <2>1. Flip(d) = [id |-> d.id, dir |-> d.dir, signaled |-> TRUE, flip |-> 0, adverse |-> d.adverse]
    BY <1>1, <1>2 DEF Flip
  <2>2. 0 \in 0..(FlipTicks - 1)
    BY <1>1
  <2> QED
    BY <2>1, <2>2 DEF DictType
<1>3. CASE ~(d.flip + 1 >= FlipTicks)
  <2>1. Flip(d) = [d EXCEPT !.flip = d.flip + 1]
    BY <1>3 DEF Flip
  <2>2. d.flip + 1 \in 0..(FlipTicks - 1)
    BY <1>1, <1>3
  <2> QED
    BY <2>1, <2>2 DEF DictType
<1> QED
  BY <1>2, <1>3

LEMMA AfterType ==
    ASSUME NEW d \in DictType, d.adverse < AdverseTicks, NEW dir, NEW conf, NEW adverse,
           NEW new, new = AfterExit(d, dir, conf, adverse) \/ new = AfterAbort(d, dir)
    PROVE  /\ new \in DictType
           /\ new.id = d.id
           /\ ~new.signaled => new.adverse < AdverseTicks
<1>3. new \in {Flip(d), d, [d EXCEPT !.flip = 0], [[d EXCEPT !.flip = 0] EXCEPT !.adverse = 0],
               [[d EXCEPT !.flip = 0] EXCEPT !.adverse = d.adverse + 1,
                                             !.signaled = d.adverse + 1 >= AdverseTicks]}
  BY DEF AfterExit, AfterAbort
<1>1. /\ d.flip \in 0..(FlipTicks - 1) /\ d.adverse \in 0..AdverseTicks
      /\ FlipTicks \in Nat \ {0} /\ AdverseTicks \in Nat \ {0}
      /\ d = [id |-> d.id, dir |-> d.dir, signaled |-> d.signaled, flip |-> d.flip,
              adverse |-> d.adverse]
  BY TicksAssumption DEF DictType
<1>2. /\ 0 \in 0..(FlipTicks - 1) /\ 0 \in 0..AdverseTicks /\ 0 < AdverseTicks
      /\ d.adverse + 1 \in 0..AdverseTicks
      /\ ~(d.adverse + 1 >= AdverseTicks) => d.adverse + 1 < AdverseTicks
  BY <1>1
<1>4. CASE new = Flip(d)
  BY <1>4, FlipType
<1>5. CASE new = d
  BY <1>5
<1>6. CASE new = [d EXCEPT !.flip = 0]
  BY <1>6, TicksAssumption DEF DictType
<1>7. CASE new = [[d EXCEPT !.flip = 0] EXCEPT !.adverse = 0]
  <2>1. new = [id |-> d.id, dir |-> d.dir, signaled |-> d.signaled, flip |-> 0, adverse |-> 0]
    BY <1>1, <1>7
  <2> QED
    BY <1>2, <2>1 DEF DictType
<1>8. CASE new = [[d EXCEPT !.flip = 0] EXCEPT !.adverse = d.adverse + 1,
                                               !.signaled = d.adverse + 1 >= AdverseTicks]
  <2>1. new = [id |-> d.id, dir |-> d.dir, signaled |-> d.adverse + 1 >= AdverseTicks, flip |-> 0,
               adverse |-> d.adverse + 1]
    BY <1>1, <1>8
  <2>2. (d.adverse + 1 >= AdverseTicks) \in BOOLEAN
    OBVIOUS
  <2>3. d.id \in 0..nDicts /\ d.dir \in Sides
    BY DEF DictType
  <2>4. new \in DictType
    BY <1>2, <2>1, <2>2, <2>3 DEF DictType
  <2>5. new.id = d.id /\ (~new.signaled => new.adverse < AdverseTicks)
    BY <1>2, <2>1
  <2> QED
    BY <2>4, <2>5
<1> QED
  BY <1>3, <1>4, <1>5, <1>6, <1>7, <1>8
-----------------------------------------------------------------------------
(***************************************************************************)
(* The invariant                                                           *)
(***************************************************************************)
HIDE DEF Sides, Directions

\* The event with one of its fields set.
WithPc(t, x) == [t EXCEPT !.pc = x]
WithKind(t, x) == [t EXCEPT !.kind = x]
WithTrade(t, x) == [t EXCEPT !.trade = x]
WithDict(t, x) == [t EXCEPT !.dict = x]
WithDir(t, x) == [t EXCEPT !.dir = x]
WithConf(t, x) == [t EXCEPT !.conf = x]
WithMuted(t, x) == [t EXCEPT !.muted = x]
WithAsks(t, x) == [t EXCEPT !.asks = x]
WithFlipped(t, x) == [t EXCEPT !.flipped = x]
WithT5(t, x) == [t EXCEPT !.t5 = x]
WithT15(t, x) == [t EXCEPT !.t15 = x]
WithImpulse(t, x) == [t EXCEPT !.impulse = x]

LEMMA WithType ==
    ASSUME NEW t \in TickType
    PROVE  /\ \A x \in TickLabels : WithPc(t, x) \in TickType
           /\ \A x \in Kinds : WithKind(t, x) \in TickType
           /\ \A x \in BOOLEAN : WithTrade(t, x) \in TickType
           /\ \A x \in DictType : WithDict(t, x) \in TickType
           /\ \A x \in Directions : WithDir(t, x) \in TickType
           /\ \A x \in 0..1000 : WithConf(t, x) \in TickType
           /\ \A x \in BOOLEAN : WithMuted(t, x) \in TickType
           /\ \A x \in BOOLEAN : WithAsks(t, x) \in TickType
           /\ \A x \in BOOLEAN : WithFlipped(t, x) \in TickType
           /\ \A x \in Trends5 : WithT5(t, x) \in TickType
           /\ \A x \in Trends15 : WithT15(t, x) \in TickType
           /\ \A x \in BOOLEAN : WithImpulse(t, x) \in TickType
<1>1. \A x \in TickLabels : WithPc(t, x) \in TickType
  BY DEF TickType, WithPc
<1>2. \A x \in Kinds : WithKind(t, x) \in TickType
  BY DEF TickType, WithKind
<1>3. \A x \in BOOLEAN : WithTrade(t, x) \in TickType
  BY DEF TickType, WithTrade
<1>4. \A x \in DictType : WithDict(t, x) \in TickType
  BY DEF TickType, WithDict
<1>5. \A x \in Directions : WithDir(t, x) \in TickType
  BY DEF TickType, WithDir
<1>6. \A x \in 0..1000 : WithConf(t, x) \in TickType
  BY DEF TickType, WithConf
<1>7. \A x \in BOOLEAN : WithMuted(t, x) \in TickType
  BY DEF TickType, WithMuted
<1>8. \A x \in BOOLEAN : WithAsks(t, x) \in TickType
  BY DEF TickType, WithAsks
<1>9. \A x \in BOOLEAN : WithFlipped(t, x) \in TickType
  BY DEF TickType, WithFlipped
<1>10. \A x \in Trends5 : WithT5(t, x) \in TickType
  BY DEF TickType, WithT5
<1>11. \A x \in Trends15 : WithT15(t, x) \in TickType
  BY DEF TickType, WithT15
<1>12. \A x \in BOOLEAN : WithImpulse(t, x) \in TickType
  BY DEF TickType, WithImpulse
<1> QED
  BY <1>1, <1>2, <1>3, <1>4, <1>5, <1>6,
     <1>7, <1>8, <1>9, <1>10, <1>11, <1>12

LEMMA Types ==
    /\ TypeOK <=> tick \in TickType /\ RestOK
    /\ TypeOK' <=> tick' \in TickType' /\ RestOK'
  BY DEF TypeOK, TickType, RestOK, Kinds

LEMMA SameTypes == nDicts' = nDicts => DictType' = DictType /\ TickType' = TickType
  BY DEF DictType, TickType

LEMMA NoDictType ==
    /\ nDicts \in Nat => NoDict \in DictType
    /\ NoDict.id = 0 /\ ~NoDict.signaled /\ NoDict.adverse < AdverseTicks
<1>1. 0 \in 0..(FlipTicks - 1) /\ 0 \in 0..AdverseTicks /\ 0 < AdverseTicks
  BY TicksAssumption
<1> QED
  BY <1>1 DEF NoDict, DictType, Sides

LEMMA IdleTickType == nDicts \in Nat => IdleTick \in TickType
  BY NoDictType DEF IdleTick, TickType, Kinds, TickLabels, Trends5, Trends15, Sides, Directions

LEMMA InvInit == Init => Inv
<1> SUFFICES ASSUME Init PROVE Inv
  OBVIOUS
<1>1. TypeOK
  <2>1. nDicts \in Nat
    BY DEF Init
  <2>2. tick \in TickType
    BY <2>1, IdleTickType DEF Init
  <2>3. pos \in DictType /\ pend \in DictType
    BY <2>1, NoDictType DEF Init
  <2>4. 0 \in 0..MaxDicts /\ 0 \in 0..CorrLimit /\ 0 \in 0..MaxFaults
    BY BoundsAssumption
  <2>5. RestOK
    BY <2>3, <2>4 DEF Init, RestOK
  <2> QED
    BY <2>2, <2>5, Types
<1>2. Tallied /\ Staged /\ Gated
  BY NoDictType DEF Init, Tallied, Staged, Gated, Guarded, Planned, Eventful, Publishing, IdleTick
<1>3. Muting /\ Distinguished /\ Voiced /\ FlaggedIsSent
  BY NoDictType DEF Init, Muting, Distinguished, Voiced, FlaggedIsSent, Publishing, IdleTick
<1> QED
  BY <1>1, <1>2, <1>3 DEF Inv

\* A step that holds no dictionary, neither before nor after, and leaves tables and
\* signals alone.
LEMMA QuietKeeps ==
    ASSUME Inv, UNCHANGED <<tables, signals>>,
           ~Publishing({"exit", "abort"}), tick'.pc # "decide", ~Publishing({"exit", "abort"})'
    PROVE  Tallied' /\ Distinguished' /\ Voiced' /\ FlaggedIsSent'
  BY DEF Inv, tables, signals, Tallied, Distinguished, Voiced, FlaggedIsSent

\* A step that leaves the event with its stage and its dictionary, too.
LEMMA SameKeeps ==
    ASSUME Inv, UNCHANGED <<tables, signals>>, tick'.pc = tick.pc, tick'.kind = tick.kind,
           tick'.dict = tick.dict
    PROVE  Tallied' /\ Distinguished' /\ Voiced' /\ FlaggedIsSent'
  BY DEF Inv, tables, signals, Tallied, Distinguished, Voiced, FlaggedIsSent, Publishing

LEMMA IdleKeeps ==
    ASSUME TypeOK, TickDone
    PROVE  /\ tick' \in TickType
           /\ tick'.pc = "idle" /\ ~tick'.muted
           /\ Staged' /\ Gated'
<1>1. nDicts \in Nat
  BY Types, BoundsAssumption DEF RestOK
<1>2. tick' \in TickType
  BY <1>1, IdleTickType DEF TickDone
<1> QED
  BY <1>2 DEF TickDone, IdleTick, Staged, Gated, Guarded, Planned, Eventful, Publishing

\* A step that ends an event for which the thread held no dictionary.
LEMMA DoneKeeps ==
    ASSUME Inv, TickDone, UNCHANGED <<tables, signals>>, ~Publishing({"exit", "abort"})
    PROVE  /\ tick' \in TickType'
           /\ Staged' /\ Gated'
           /\ Tallied' /\ Distinguished' /\ Voiced' /\ FlaggedIsSent'
<1>1. tick' \in TickType /\ tick'.pc = "idle" /\ Staged' /\ Gated'
  BY IdleKeeps DEF Inv
<1>2. Tallied' /\ Distinguished' /\ Voiced' /\ FlaggedIsSent'
  BY <1>1, QuietKeeps DEF Publishing
<1> QED
  BY <1>1, <1>2, SameTypes DEF tables

LEMMA ActivesKeeps == Inv /\ Actives => Inv'
<1> SUFFICES ASSUME Inv, Actives PROVE Inv'
  OBVIOUS
<1>1. Tallied' /\ Distinguished' /\ Voiced' /\ FlaggedIsSent'
  BY SameKeeps DEF Actives
<1>2. TypeOK'
  BY SameTypes, Types DEF Inv, RestOK, Actives, tables, signals, cooling
<1>3. Staged' /\ Gated' /\ Muting'
  BY DEF Inv, Staged, Gated, Guarded, Planned, Eventful, Publishing, Muting, Actives, cooling
<1> QED
  BY <1>1, <1>2, <1>3 DEF Inv

LEMMA EventKeeps == ASSUME NEW trade \in BOOLEAN, Inv, Event(trade) PROVE Inv'
<1> DEFINE kind == IF pos # NoDict THEN "exit" ELSE IF pend # NoDict THEN "abort" ELSE "entry"
           quiet == pos = NoDict /\ pend = NoDict /\ loss = "kept"
<1>1. tick' = [IdleTick EXCEPT !.pc = "score", !.trade = trade, !.kind = kind, !.muted = quiet]
  BY DEF Event
<1>2. kind \in {"exit", "abort", "entry"} /\ quiet \in BOOLEAN /\ (quiet => kind = "entry" /\ loss = "kept")
  OBVIOUS
<1> HIDE DEF kind, quiet
<1>3. tick'.pc = "score" /\ tick'.kind = kind /\ tick'.muted = quiet
  BY <1>1 DEF IdleTick
<1>4. Tallied' /\ Distinguished' /\ Voiced' /\ FlaggedIsSent'
  BY <1>3, QuietKeeps DEF Event, Publishing
<1>5. TypeOK'
  <2>1. nDicts \in Nat
    BY Types, BoundsAssumption DEF Inv, RestOK
  <2>2. IdleTick \in TickType
    BY <2>1, IdleTickType
  <2>3. tick' \in TickType
    <3>1. "score" \in TickLabels /\ kind \in Kinds
      BY <1>2 DEF TickLabels, Kinds
    <3> QED
      <4>1. WithTrade(WithPc(IdleTick, "score"), trade) \in TickType
        BY <2>2, <3>1, WithType
      <4>2. WithMuted(WithKind(WithTrade(WithPc(IdleTick, "score"), trade), kind), quiet) \in TickType
        <5>1. WithKind(WithTrade(WithPc(IdleTick, "score"), trade), kind) \in TickType
          BY <3>1, <4>1, WithType
        <5> QED
          BY <1>2, <5>1, WithType
      <4>3. tick' = WithMuted(WithKind(WithTrade(WithPc(IdleTick, "score"), trade), kind), quiet)
        BY <1>1 DEF WithMuted, WithKind, WithTrade, WithPc
      <4> QED
        BY <4>2, <4>3
  <2> QED
    BY <2>3, SameTypes, Types DEF Inv, RestOK, Event, tables, signals, cooling
<1>6. Staged' /\ Gated' /\ Muting'
  BY <1>2, <1>3 DEF Inv, Staged, Gated, Guarded, Planned, Eventful, Publishing, Muting, Event, cooling
<1> QED
  BY <1>4, <1>5, <1>6 DEF Inv

LEMMA ScoreKeeps == Inv /\ Score => Inv'
<1> SUFFICES ASSUME Inv, Score PROVE Inv'
  OBVIOUS
<1> DEFINE dict == IF tick.kind = "exit" THEN pos ELSE pend
<1>1. CASE TickDone
  <2>1. /\ tick' \in TickType' /\ Staged' /\ Gated'
        /\ Tallied' /\ Distinguished' /\ Voiced' /\ FlaggedIsSent'
    BY <1>1, DoneKeeps DEF Score, Publishing
  <2>2. TypeOK' /\ Muting'
    BY <1>1, <2>1, SameTypes, Types DEF Inv, RestOK, Score, TickDone, IdleTick, tables, signals, cooling, Muting
  <2> QED
    BY <2>1, <2>2 DEF Inv
<1>2. CASE ~TickDone
  <2>1. /\ dict # NoDict /\ ~dict.signaled /\ tick.pc = "score" /\ tick.kind \in {"exit", "abort"}
        /\ \E p \in {a.pnl : a \in Answers} :
             tick' = [tick EXCEPT !.pc = "decide", !.dict = dict,
                                  !.dir = Direction(p), !.conf = Confidence(p)]
    BY <1>2 DEF Score
  <2>2. PICK p \in {a.pnl : a \in Answers} :
          tick' = [tick EXCEPT !.pc = "decide", !.dict = dict, !.dir = Direction(p), !.conf = Confidence(p)]
    BY <2>1
  <2>3. p \in Int /\ Confidence(p) \in 0..1000 /\ Direction(p) \in Directions
    BY AnswerType, ConfidenceType DEF Direction, Directions, Sides
  <2>4. dict \in DictType
    BY DEF Inv, TypeOK
  <2>5. TypeOK'
    <3> HIDE DEF dict
    <3>1. tick' \in TickType
      <4>1. "decide" \in TickLabels /\ tick \in TickType
        BY Types DEF Inv, TickLabels
      <4>2. WithDict(WithPc(tick, "decide"), dict) \in TickType
        BY <2>4, <4>1, WithType
      <4>3. WithConf(WithDir(WithDict(WithPc(tick, "decide"), dict), Direction(p)), Confidence(p))
              \in TickType
        BY <2>3, <4>2, WithType
      <4>4. tick' = WithConf(WithDir(WithDict(WithPc(tick, "decide"), dict), Direction(p)), Confidence(p))
        BY <2>2 DEF WithConf, WithDir, WithDict, WithPc
      <4> QED
        BY <4>3, <4>4
    <3> QED
      BY <3>1, SameTypes, Types DEF Inv, RestOK, Score, tables, signals, cooling
  <2>6. tick'.pc = "decide" /\ tick'.kind = tick.kind /\ tick'.muted = tick.muted /\ tick'.dict = dict
    <3> HIDE DEF dict
    <3> QED
      BY <2>2 DEF Inv, TypeOK
  <2>7. Staged' /\ Gated' /\ Muting' /\ ~Publishing({"exit", "abort"})' /\ ~Publishing({"exit", "abort"})
    BY <2>1, <2>6 DEF Inv, Staged, Gated, Guarded, Planned, Eventful, Publishing, Muting, Score, cooling
  <2>8. UNCHANGED <<pos, pend, spoken, lost>>
    BY DEF Score, tables, signals
  <2>9. dict.id # 0 /\ dict.adverse < AdverseTicks /\ dict.id \notin spoken \cup lost
    BY <2>1 DEF Inv, Tallied, Voiced
  <2>10. Distinguished'
    BY <2>1, <2>6, <2>7, <2>8, <2>9 DEF Inv, Distinguished
  <2>11. Tallied' /\ Voiced' /\ FlaggedIsSent'
    <3> HIDE DEF dict
    <3> QED
      BY <2>6, <2>7, <2>8, <2>9 DEF Inv, Tallied, Voiced, FlaggedIsSent
  <2> QED
    BY <2>5, <2>7, <2>10, <2>11 DEF Inv
<1> QED
  BY <1>1, <1>2

LEMMA DecideKeeps == Inv /\ Decide => Inv'
<1> SUFFICES ASSUME Inv, Decide PROVE Inv'
  OBVIOUS
<1>1. tick.pc = "decide" /\ tick.kind \in {"exit", "abort"} /\ UNCHANGED <<active, signals, cooling, held, faults>>
  BY DEF Decide, Inv, Staged
<1>2. PICK adverse \in Adversities[tick.dict.dir][tick.trade] :
        LET new == IF tick.kind = "exit" THEN AfterExit(tick.dict, tick.dir, tick.conf, adverse)
                   ELSE AfterAbort(tick.dict, tick.dir)
        IN  /\ Store(new)
            /\ IF new.signaled THEN tick' = [tick EXCEPT !.pc = "publish", !.trade = FALSE, !.dict = new]
                               ELSE TickDone
  BY DEF Decide
<1> DEFINE new == IF tick.kind = "exit" THEN AfterExit(tick.dict, tick.dir, tick.conf, adverse)
                  ELSE AfterAbort(tick.dict, tick.dir)
<1>3. /\ Store(new)
      /\ new.signaled => tick' = [tick EXCEPT !.pc = "publish", !.trade = FALSE, !.dict = new]
      /\ ~new.signaled => TickDone
  BY <1>2
<1>4. new = AfterExit(tick.dict, tick.dir, tick.conf, adverse) \/ new = AfterAbort(tick.dict, tick.dir)
  OBVIOUS
<1> HIDE DEF new
<1>5. tick \in TickType /\ tick.dict \in DictType /\ RestOK
  BY Types DEF Inv, TickType
<1>6. tick.dict.id # 0 /\ tick.dict.adverse < AdverseTicks /\ tick.dict.id \notin spoken \cup lost
  BY <1>1 DEF Inv, Distinguished, Voiced
<1>7. new \in DictType /\ new.id = tick.dict.id /\ (~new.signaled => new.adverse < AdverseTicks)
  BY <1>4, <1>5, <1>6, AfterType
<1>8. nDicts' = nDicts
  BY <1>3 DEF Store
<1>9. /\ tick.kind = "exit" => /\ pend' = pend /\ pend.id # new.id
                               /\ pos' = new \/ (pos' = pos /\ pos.id # new.id)
      /\ tick.kind = "abort" => /\ pos' = pos /\ pos.id # new.id
                                /\ pend' = new \/ (pend' = pend /\ pend.id # new.id)
  BY <1>1, <1>3, <1>7 DEF Store, Inv, Distinguished
<1>10. \A d \in {pos', pend'} : d = new \/ (d \in {pos, pend} /\ d.id # new.id)
  BY <1>1, <1>9
<1>11. Tallied'
  BY <1>6, <1>7, <1>10 DEF Inv, Tallied
<1>12. (pos'.id = pend'.id => pos'.id = 0) /\ spoken' = spoken /\ lost' = lost
  BY <1>1, <1>6, <1>7, <1>9 DEF Inv, Distinguished, signals
<1>13. \A d \in {pos', pend'} : ~d.signaled => d.id \notin spoken \cup lost
  BY <1>6, <1>7, <1>10 DEF Inv, Voiced
<1>14. \A d \in {pos', pend'} : d.signaled => d = new \/ d.id \in spoken \cup lost
  BY <1>1, <1>10 DEF Inv, FlaggedIsSent, Publishing
<1>15. RestOK'
  BY <1>1, <1>5, <1>7, <1>8, <1>10, SameTypes DEF RestOK, cooling, signals
<1>16. ~tick.muted /\ cool' = cool /\ loss' = loss
  BY <1>1 DEF Inv, Muting, cooling
<1>17. CASE new.signaled
  <2>1. tick' = WithDict(WithTrade(WithPc(tick, "publish"), FALSE), new)
    BY <1>3, <1>17 DEF WithDict, WithTrade, WithPc
  <2>2. WithTrade(WithPc(tick, "publish"), FALSE) \in TickType
    <3>1. WithPc(tick, "publish") \in TickType
      BY <1>5, WithType DEF TickLabels
    <3> QED
      BY <3>1, WithType
  <2>3. tick' \in TickType
    BY <1>7, <2>1, <2>2, WithType
  <2>4. tick'.pc = "publish" /\ tick'.dict = new /\ tick'.kind = tick.kind /\ tick'.muted = tick.muted
    BY <1>3, <1>5, <1>17 DEF TickType
  <2>5. TypeOK' /\ Staged' /\ Gated' /\ Muting'
    BY <1>1, <1>8, <1>15, <1>16, <2>3, <2>4, SameTypes, Types
    DEF Inv, Staged, Gated, Guarded, Planned, Eventful, Publishing, Muting
  <2>6. Distinguished'
    BY <1>6, <1>7, <1>10, <1>12, <1>17, <2>4 DEF Distinguished, Publishing
  <2>7. Voiced' /\ FlaggedIsSent'
    BY <1>1, <1>6, <1>7, <1>12, <1>13, <1>14, <2>4 DEF Voiced, FlaggedIsSent, Publishing
  <2> QED
    BY <1>11, <2>5, <2>6, <2>7 DEF Inv
<1>18. CASE ~new.signaled
  <2>1. tick' \in TickType /\ tick'.pc = "idle" /\ ~tick'.muted /\ Staged' /\ Gated'
    BY <1>3, <1>18, IdleKeeps DEF Inv
  <2>2. TypeOK' /\ Muting'
    BY <1>8, <1>15, <1>16, <2>1, SameTypes, Types DEF Inv, Muting
  <2>3. Distinguished' /\ Voiced' /\ FlaggedIsSent'
    BY <1>12, <1>13, <1>14, <1>18, <2>1 DEF Distinguished, Voiced, FlaggedIsSent, Publishing
  <2> QED
    BY <1>11, <2>1, <2>2, <2>3 DEF Inv
<1> QED
  BY <1>17, <1>18

\* An entry that goes on, or ends, without a step of tables or signals.
LEMMA EntryKeeps ==
    ASSUME Inv, UNCHANGED <<tables, signals>>, tick.kind = "entry",
           TickDone \/ tick'.kind = "entry", tick'.pc # "decide"
    PROVE  Tallied' /\ Distinguished' /\ Voiced' /\ FlaggedIsSent'
<1>1. ~Publishing({"exit", "abort"}) /\ ~Publishing({"exit", "abort"})'
  BY DEF Publishing, TickDone, IdleTick
<1> QED
  BY <1>1, QuietKeeps

LEMMA PredictKeeps == Inv /\ Predict => Inv'
<1> SUFFICES ASSUME Inv, Predict PROVE Inv'
  OBVIOUS
<1>1. /\ tick.kind = "entry" /\ tick.pc = "score" /\ UNCHANGED <<active, tables, signals, cooling, faults>>
      /\ tick \in TickType /\ RestOK
  BY Types DEF Predict, Inv
<1>2. CASE TickDone /\ UNCHANGED held
  <2>1. tick' \in TickType /\ ~tick'.muted /\ tick'.pc = "idle" /\ Staged' /\ Gated'
    BY <1>2, IdleKeeps DEF Inv
  <2>2. TypeOK' /\ Muting'
    BY <1>1, <1>2, <2>1, SameTypes, Types DEF RestOK, tables, signals, cooling, Inv, Muting
  <2> QED
    BY <1>1, <1>2, <2>1, <2>2, EntryKeeps DEF Inv
<1>3. CASE ~(TickDone /\ UNCHANGED held)
  <2>1. PICK x \in Passed[tick.trade], correlated \in BOOLEAN :
          LET conf == Confidence(x.pnl)
              blocked == correlated /\ conf < 950 /\ held < CorrLimit
          IN  /\ tick' = [tick EXCEPT !.pc = "recall", !.conf = conf, !.asks = x.asks,
                                       !.trade = tick.trade /\ x.asks,
                                       !.dir = IF blocked THEN "HOLD" ELSE Direction(x.pnl)]
              /\ held' = IF blocked THEN held + 1 ELSE held
    BY <1>3 DEF Predict
  <2> DEFINE blocked == correlated /\ Confidence(x.pnl) < 950 /\ held < CorrLimit
             dir == IF blocked THEN "HOLD" ELSE Direction(x.pnl)
             both == tick.trade /\ x.asks
  <2>2. /\ tick' = [tick EXCEPT !.pc = "recall", !.conf = Confidence(x.pnl), !.asks = x.asks,
                                !.trade = both, !.dir = dir]
        /\ held' = IF blocked THEN held + 1 ELSE held
    BY <2>1
  <2>3. held' \in 0..CorrLimit
    BY <1>1, <2>2, BoundsAssumption DEF RestOK
  <2>4. tick.trade \in BOOLEAN
    BY <1>1 DEF TickType
  <2>5. /\ x.pnl \in Predictions /\ x.asks \in BOOLEAN
        /\ Direction(x.pnl) = "LONG" /\ x.asks => tick.trade
    BY <2>4, PassedSound
  <2>6. dir \in Directions /\ both \in BOOLEAN /\ (dir = "LONG" /\ x.asks => both)
    BY <2>5 DEF Direction, Directions, Sides
  <2>7. Confidence(x.pnl) \in Confidences /\ Confidence(x.pnl) \in 0..1000
    BY <2>5, ConfidenceType, PredictionsAssumption DEF Confidences
  <2> HIDE DEF dir, both, blocked
  <2>8. tick' \in TickType
    <3> DEFINE t1 == WithConf(WithPc(tick, "recall"), Confidence(x.pnl))
               t2 == WithTrade(WithAsks(t1, x.asks), both)
    <3>1. WithPc(tick, "recall") \in TickType
      BY <1>1, WithType DEF TickLabels
    <3>2. t1 \in TickType
      BY <2>7, <3>1, WithType
    <3>3. WithAsks(t1, x.asks) \in TickType
      BY <2>5, <3>2, WithType
    <3>4. t2 \in TickType
      BY <2>6, <3>3, WithType
    <3>5. WithDir(t2, dir) \in TickType
      BY <2>6, <3>4, WithType
    <3>6. tick' = WithDir(t2, dir)
      BY <2>2 DEF WithDir, WithTrade, WithAsks, WithConf, WithPc
    <3> QED
      BY <3>5, <3>6
  <2>9. /\ tick'.pc = "recall" /\ tick'.kind = "entry" /\ tick'.muted = tick.muted
        /\ tick'.conf = Confidence(x.pnl) /\ tick'.dir = dir /\ tick'.asks = x.asks /\ tick'.trade = both
    BY <1>1, <2>2 DEF TickType
  <2>10. TypeOK'
    BY <1>1, <2>3, <2>8, SameTypes, Types DEF RestOK, tables, signals, cooling
  <2>11. Staged' /\ Gated' /\ Muting'
    BY <1>1, <2>6, <2>7, <2>9
    DEF Inv, Staged, Gated, Guarded, Planned, Eventful, Publishing, Muting, cooling
  <2> QED
    BY <1>1, <2>9, <2>10, <2>11, EntryKeeps DEF Inv
<1> QED
  BY <1>2, <1>3

\* An entry that goes on to its next stage as it is.
LEMMA StageKeeps ==
    ASSUME Inv, UNCHANGED <<tables, signals>>, tick.kind = "entry", NEW l \in TickLabels, At(l),
           tick.pc \in {"recall", "cool", "forget"}, l \in {"cool", "forget", "judge"}
    PROVE  /\ tick' \in TickType' /\ tick'.pc = l /\ tick'.kind = "entry" /\ tick'.muted = tick.muted
           /\ Staged' /\ Gated'
           /\ Tallied' /\ Distinguished' /\ Voiced' /\ FlaggedIsSent'
<1>1. tick \in TickType
  BY Types DEF Inv
<1>2. tick' = WithPc(tick, l)
  BY DEF At, WithPc
<1>3. tick' \in TickType'
  BY <1>1, <1>2, WithType, SameTypes DEF tables
<1>4. /\ tick'.pc = l /\ tick'.kind = "entry" /\ tick'.muted = tick.muted /\ tick'.conf = tick.conf
      /\ tick'.dir = tick.dir /\ tick'.asks = tick.asks /\ tick'.trade = tick.trade
  BY <1>1 DEF At, TickType
<1>5. Staged' /\ Gated'
  BY <1>4 DEF Inv, Staged, Gated, Guarded, Planned, Eventful, Publishing
<1> QED
  BY <1>3, <1>4, <1>5, EntryKeeps

LEMMA RecallKeeps == Inv /\ Recall => Inv'
<1> SUFFICES ASSUME Inv, Recall PROVE Inv'
  OBVIOUS
<1>1. /\ tick.kind = "entry" /\ tick.pc = "recall" /\ UNCHANGED <<active, tables, signals, held, faults>>
      /\ tick \in TickType /\ RestOK /\ ~Publishing({"exit", "abort"})
  BY Types DEF Recall, Inv, Staged, Publishing
<1>2. \/ cool' = "block" /\ loss' = loss /\ TickDone
      \/ At("cool") /\ UNCHANGED cooling
  BY DEF Recall, cooling
<1>3. CASE cool' = "block" /\ loss' = loss /\ TickDone
  <2>1. tick' \in TickType' /\ ~tick'.muted
    BY <1>1, <1>3, DoneKeeps, IdleKeeps DEF Inv
  <2>2. TypeOK' /\ Muting'
    BY <1>1, <1>3, <2>1, SameTypes, Types DEF RestOK, tables, signals, Muting, Inv
  <2> QED
    BY <1>1, <1>3, <2>2, DoneKeeps DEF Inv
<1>4. CASE At("cool") /\ UNCHANGED cooling
  <2>1. /\ tick' \in TickType' /\ tick'.pc = "cool" /\ tick'.kind = "entry" /\ tick'.muted = tick.muted
        /\ Staged' /\ Gated' /\ Tallied' /\ Distinguished' /\ Voiced' /\ FlaggedIsSent'
    BY <1>1, <1>4, StageKeeps DEF TickLabels
  <2>2. TypeOK' /\ Muting'
    BY <1>1, <1>4, <2>1, SameTypes, Types DEF RestOK, tables, signals, cooling, Muting, Inv
  <2> QED
    BY <2>1, <2>2 DEF Inv
<1> QED
  BY <1>2, <1>3, <1>4

LEMMA CoolKeeps == Inv /\ Cool => Inv'
<1> SUFFICES ASSUME Inv, Cool PROVE Inv'
  OBVIOUS
<1>1. /\ tick.kind = "entry" /\ tick.pc = "cool"
      /\ UNCHANGED <<active, tables, signals, cooling, held, faults>>
      /\ tick \in TickType /\ RestOK /\ ~Publishing({"exit", "abort"})
  BY Types DEF Cool, Inv, Staged, Publishing
<1>2. CASE cool \in {"loss", "block"}
  <2>1. TickDone
    BY <1>2 DEF Cool
  <2>2. tick' \in TickType' /\ ~tick'.muted
    BY <1>1, <2>1, DoneKeeps, IdleKeeps DEF Inv
  <2>3. TypeOK' /\ Muting'
    BY <1>1, <2>2, SameTypes, Types DEF Inv, RestOK, tables, signals, cooling, Muting
  <2> QED
    BY <1>1, <2>1, <2>3, DoneKeeps DEF Inv
<1>3. CASE cool \notin {"loss", "block"}
  <2>1. PICK l \in {"judge", "forget"} : At(l)
    BY <1>3 DEF Cool
  <2>2. ~tick.muted
    BY <1>3 DEF Inv, Muting
  <2>3. /\ tick' \in TickType' /\ tick'.muted = tick.muted
        /\ Staged' /\ Gated' /\ Tallied' /\ Distinguished' /\ Voiced' /\ FlaggedIsSent'
    BY <1>1, <2>1, StageKeeps DEF TickLabels
  <2>4. TypeOK' /\ Muting'
    BY <1>1, <2>2, <2>3, SameTypes, Types DEF RestOK, tables, signals, cooling, Muting, Inv
  <2> QED
    BY <2>3, <2>4 DEF Inv
<1> QED
  BY <1>2, <1>3

LEMMA ForgetKeeps == Inv /\ Forget => Inv'
<1> SUFFICES ASSUME Inv, Forget PROVE Inv'
  OBVIOUS
<1>1. /\ tick.kind = "entry" /\ tick.pc = "forget" /\ At("judge") /\ cool' = "none"
      /\ loss' \in {"none", "lost"} /\ UNCHANGED <<active, tables, signals, held, faults>>
      /\ tick \in TickType /\ RestOK /\ ~tick.muted
  BY Types DEF Forget, Inv, Staged, Muting, RestOK
<1>2. /\ tick' \in TickType' /\ tick'.muted = tick.muted
      /\ Staged' /\ Gated' /\ Tallied' /\ Distinguished' /\ Voiced' /\ FlaggedIsSent'
  BY <1>1, StageKeeps DEF TickLabels
<1>3. TypeOK' /\ Muting'
  BY <1>1, <1>2, SameTypes, Types DEF RestOK, tables, signals, Muting
<1> QED
  BY <1>2, <1>3 DEF Inv

LEMMA JudgeKeeps == Inv /\ Judge => Inv'
<1> SUFFICES ASSUME Inv, Judge PROVE Inv'
  OBVIOUS
<1>1. /\ tick.kind = "entry" /\ tick.pc = "judge"
      /\ UNCHANGED <<active, tables, signals, cooling, held, faults>>
      /\ tick \in TickType /\ RestOK /\ ~tick.muted /\ ~Publishing({"exit", "abort"})
  BY Types DEF Judge, Inv, Staged, Muting, Publishing
<1>2. CASE TickDone
  <2>1. tick' \in TickType' /\ ~tick'.muted
    BY <1>1, <1>2, DoneKeeps, IdleKeeps DEF Inv
  <2>2. TypeOK' /\ Muting'
    BY <1>1, <2>1, SameTypes, Types DEF Inv, RestOK, tables, signals, cooling, Muting
  <2> QED
    BY <1>1, <1>2, <2>2, DoneKeeps DEF Inv
<1>3. CASE ~TickDone
  <2>1. tick.conf <= MaxConfidence /\ tick.dir # "HOLD"
    BY <1>3 DEF Judge
  <2>2. PICK j \in Judged[tick.dir][tick.conf] :
          tick' = [tick EXCEPT !.pc = "plan", !.dir = j.dir, !.flipped = j.flipped,
                               !.t5 = j.t5, !.t15 = j.t15, !.conf = j.conf]
    BY <1>3 DEF Judge
  <2>3. tick.dir \in Sides /\ tick.conf \in Confidences /\ (tick.dir = "LONG" /\ tick.asks => tick.trade)
    BY <1>1, <2>1 DEF TickType, Directions, Inv, Gated, Guarded
  <2>4. /\ j.dir \in Sides /\ j.flipped \in BOOLEAN /\ j.t5 \in Trends5 /\ j.t15 \in Trends15
        /\ j.conf \in 0..1000 /\ j.conf <= tick.conf
        /\ j.dir = "SHORT" => j.t5 <= 0
        /\ j.dir = "LONG" /\ j.t5 < 0 /\ j.t15 < 0 => j.conf <= 300
        /\ j.dir = "LONG" => tick.dir = "LONG" \/ (j.flipped /\ j.t5 > 30)
    BY <2>3, JudgedSound
  <2>5. j.conf <= MaxConfidence
    <3> DEFINE m == j.conf
               n == tick.conf
    <3>1. m \in 0..1000 /\ n \in 0..1000 /\ m <= n /\ n <= MaxConfidence
      BY <1>1, <2>1, <2>4 DEF TickType
    <3> HIDE DEF m, n
    <3>2. m <= MaxConfidence
      BY <3>1 DEF MaxConfidence
    <3> QED
      BY <3>2 DEF m
  <2>6. tick' \in TickType
    <3> DEFINE t1 == WithFlipped(WithDir(WithPc(tick, "plan"), j.dir), j.flipped)
               t2 == WithT15(WithT5(t1, j.t5), j.t15)
    <3>1. WithPc(tick, "plan") \in TickType
      BY <1>1, WithType DEF TickLabels
    <3>2. j.dir \in Directions
      BY <2>4 DEF Directions
    <3>3. WithDir(WithPc(tick, "plan"), j.dir) \in TickType
      BY <3>1, <3>2, WithType
    <3>4. t1 \in TickType
      BY <2>4, <3>3, WithType
    <3>5. WithT5(t1, j.t5) \in TickType
      BY <2>4, <3>4, WithType
    <3>6. t2 \in TickType
      BY <2>4, <3>5, WithType
    <3>7. WithConf(t2, j.conf) \in TickType
      BY <2>4, <3>6, WithType
    <3>8. tick' = WithConf(t2, j.conf)
      BY <2>2 DEF WithConf, WithT15, WithT5, WithFlipped, WithDir, WithPc
    <3> QED
      BY <3>7, <3>8
  <2>7. /\ tick'.pc = "plan" /\ tick'.kind = "entry" /\ tick'.muted = tick.muted
        /\ tick'.conf = j.conf /\ tick'.dir = j.dir /\ tick'.flipped = j.flipped
        /\ tick'.t5 = j.t5 /\ tick'.t15 = j.t15
        /\ tick'.asks = tick.asks /\ tick'.trade = tick.trade
    BY <1>1, <2>2 DEF TickType
  <2>8. TypeOK' /\ Muting'
    BY <1>1, <2>6, <2>7, SameTypes, Types DEF Inv, RestOK, tables, signals, cooling, Muting
  <2>9. Planned'
    BY <2>3, <2>4, <2>5, <2>7 DEF Planned, Publishing
  <2>10. Staged' /\ Gated'
    BY <2>7, <2>9 DEF Staged, Gated, Guarded, Eventful, Publishing
  <2> QED
    BY <1>1, <2>7, <2>8, <2>10, EntryKeeps DEF Inv
<1> QED
  BY <1>2, <1>3

LEMMA PlanKeeps == Inv /\ Plan => Inv'
<1> SUFFICES ASSUME Inv, Plan PROVE Inv'
  OBVIOUS
<1>1. /\ tick.kind = "entry" /\ tick.pc = "plan"
      /\ UNCHANGED <<active, tables, signals, cooling, held, faults>>
      /\ tick \in TickType /\ RestOK /\ ~tick.muted /\ ~Publishing({"exit", "abort"})
  BY Types DEF Plan, Inv, Staged, Muting, Publishing
<1>2. CASE TickDone
  <2>1. tick' \in TickType' /\ ~tick'.muted
    BY <1>1, <1>2, DoneKeeps, IdleKeeps DEF Inv
  <2>2. TypeOK' /\ Muting'
    BY <1>1, <2>1, SameTypes, Types DEF Inv, RestOK, tables, signals, cooling, Muting
  <2> QED
    BY <1>1, <1>2, <2>2, DoneKeeps DEF Inv
<1>3. CASE ~TickDone
  <2>1. PICK impulse \in BOOLEAN :
          /\ tick.conf >= 850 \/ impulse
          /\ tick' = [tick EXCEPT !.pc = "publish", !.impulse = impulse]
    BY <1>3 DEF Plan
  <2>2. tick' \in TickType
    <3>1. WithPc(tick, "publish") \in TickType
      BY <1>1, WithType DEF TickLabels
    <3>2. WithImpulse(WithPc(tick, "publish"), impulse) \in TickType
      BY <3>1, WithType
    <3>3. tick' = WithImpulse(WithPc(tick, "publish"), impulse)
      BY <2>1 DEF WithImpulse, WithPc
    <3> QED
      BY <3>2, <3>3
  <2>3. /\ tick'.pc = "publish" /\ tick'.kind = "entry" /\ tick'.muted = tick.muted
        /\ tick'.conf = tick.conf /\ tick'.dir = tick.dir /\ tick'.flipped = tick.flipped
        /\ tick'.t5 = tick.t5 /\ tick'.t15 = tick.t15 /\ tick'.impulse = impulse
        /\ tick'.asks = tick.asks /\ tick'.trade = tick.trade
    BY <1>1, <2>1 DEF TickType
  <2>4. TypeOK' /\ Muting'
    BY <1>1, <2>2, <2>3, SameTypes, Types DEF Inv, RestOK, tables, signals, cooling, Muting
  <2>5. Planned'
    BY <1>1, <2>3 DEF Inv, Gated, Planned
  <2>6. Staged' /\ Gated'
    BY <2>1, <2>3, <2>5 DEF Staged, Gated, Guarded, Eventful
  <2> QED
    BY <1>1, <2>3, <2>4, <2>6, EntryKeeps DEF Inv
<1> QED
  BY <1>2, <1>3

\* A dictionary that gets its signal is marked, so that it gets no other one.
LEMMA PublishKeeps == Inv /\ Publish => Inv'
<1> SUFFICES ASSUME Inv, Publish PROVE Inv'
  OBVIOUS
<1>1. /\ tick.pc = "publish" /\ TickDone /\ UNCHANGED <<active, tables, lost, cooling, held, faults>>
      /\ spoken' = IF tick.kind = "entry" THEN spoken ELSE spoken \cup {tick.dict.id}
      /\ tick \in TickType /\ RestOK /\ tick.dict \in DictType
  BY Types DEF Publish, Inv, TickType
<1>2. tick' \in TickType' /\ tick'.pc = "idle" /\ ~tick'.muted /\ Staged' /\ Gated'
  BY <1>1, IdleKeeps, SameTypes DEF Inv, tables
<1>3. tick.kind # "entry" => /\ Publishing({"exit", "abort"}) /\ tick.dict.id \in 1..nDicts
                             /\ \A d \in {pos, pend} : d.id = tick.dict.id => d.signaled
  <2>1. tick.kind # "entry" => tick.kind \in {"exit", "abort"}
    BY <1>1 DEF Inv, Staged, TickType, Kinds
  <2>2. nDicts \in Nat /\ tick.dict.id \in 0..nDicts
    BY <1>1, BoundsAssumption DEF RestOK, DictType
  <2> QED
    BY <1>1, <2>1, <2>2 DEF Inv, Distinguished, Publishing
<1>4. TypeOK' /\ Muting'
  <2>1. spoken' \subseteq 1..nDicts
    BY <1>1, <1>3 DEF RestOK
  <2> QED
    BY <1>1, <1>2, <2>1, SameTypes, Types DEF Inv, RestOK, tables, cooling, Muting
<1>5. Tallied' /\ Distinguished'
  BY <1>1, <1>2 DEF Inv, Tallied, Distinguished, Publishing, tables
<1>6. Voiced'
  BY <1>1, <1>2, <1>3 DEF Inv, Voiced, Publishing, tables
<1>7. FlaggedIsSent'
  BY <1>1, <1>2, <1>3 DEF Inv, FlaggedIsSent, Publishing, tables
<1> QED
  BY <1>2, <1>4, <1>5, <1>6, <1>7 DEF Inv

LEMMA PublishFailsKeeps == Inv /\ PublishFails => Inv'
<1> SUFFICES ASSUME Inv, PublishFails PROVE Inv'
  OBVIOUS
<1>1. /\ tick.pc = "publish" /\ TickDone /\ UNCHANGED <<active, tables, spoken, cooling, held>>
      /\ lost' = IF tick.kind = "entry" THEN lost ELSE lost \cup {tick.dict.id}
      /\ faults' \in 0..MaxFaults
      /\ tick \in TickType /\ RestOK /\ tick.dict \in DictType
  BY Types, BoundsAssumption DEF PublishFails, Fault, Inv, TickType, RestOK
<1>2. tick' \in TickType' /\ tick'.pc = "idle" /\ ~tick'.muted /\ Staged' /\ Gated'
  BY <1>1, IdleKeeps, SameTypes DEF Inv, tables
<1>3. tick.kind # "entry" => /\ Publishing({"exit", "abort"}) /\ tick.dict.id \in 1..nDicts
                             /\ \A d \in {pos, pend} : d.id = tick.dict.id => d.signaled
  <2>1. tick.kind # "entry" => tick.kind \in {"exit", "abort"}
    BY <1>1 DEF Inv, Staged, TickType, Kinds
  <2>2. nDicts \in Nat /\ tick.dict.id \in 0..nDicts
    BY <1>1, BoundsAssumption DEF RestOK, DictType
  <2> QED
    BY <1>1, <2>1, <2>2 DEF Inv, Distinguished, Publishing
<1>4. TypeOK' /\ Muting'
  <2>1. lost' \subseteq 1..nDicts
    BY <1>1, <1>3 DEF RestOK
  <2> QED
    BY <1>1, <1>2, <2>1, SameTypes, Types DEF Inv, RestOK, tables, cooling, Muting
<1>5. Tallied' /\ Distinguished'
  BY <1>1, <1>2 DEF Inv, Tallied, Distinguished, Publishing, tables
<1>6. Voiced'
  BY <1>1, <1>2, <1>3 DEF Inv, Voiced, Publishing, tables
<1>7. FlaggedIsSent'
  BY <1>1, <1>2, <1>3 DEF Inv, FlaggedIsSent, Publishing, tables
<1> QED
  BY <1>2, <1>4, <1>5, <1>6, <1>7 DEF Inv

\* A message that makes a dictionary makes one with a new number.
LEMMA NewDictType ==
    ASSUME TypeOK, NEW d \in Sides, nDicts < MaxDicts, nDicts' = nDicts + 1
    PROVE  /\ NewDict(d) \in DictType' /\ NewDict(d).id = nDicts + 1
           /\ ~NewDict(d).signaled /\ NewDict(d).adverse < AdverseTicks
           /\ nDicts' \in 0..MaxDicts /\ nDicts \in Nat
           /\ DictType \subseteq DictType' /\ TickType \subseteq TickType'
<1>1. nDicts \in Nat /\ nDicts' \in 0..MaxDicts
  BY Types, BoundsAssumption DEF RestOK
<1>2. 0 \in 0..(FlipTicks - 1) /\ 0 \in 0..AdverseTicks /\ 0 < AdverseTicks
  BY TicksAssumption
<1>3. NewDict(d) = [id |-> nDicts + 1, dir |-> d, signaled |-> FALSE, flip |-> 0, adverse |-> 0]
  <2> DEFINE n == nDicts + 1
  <2>1. NewDict(d) = [NoDict EXCEPT !.id = n, !.dir = d]
    BY DEF NewDict
  <2> HIDE DEF n
  <2>2. NewDict(d) = [id |-> n, dir |-> d, signaled |-> FALSE, flip |-> 0, adverse |-> 0]
    BY <2>1 DEF NoDict
  <2> QED
    BY <2>2 DEF n
<1>4. nDicts + 1 \in 0..nDicts' /\ 0..nDicts \subseteq 0..nDicts'
  BY <1>1
<1>5. NewDict(d) \in DictType'
  BY <1>2, <1>3, <1>4 DEF DictType
<1>6. DictType \subseteq DictType'
  BY <1>4 DEF DictType
<1>7. TickType \subseteq TickType'
  BY <1>6 DEF TickType
<1> QED
  BY <1>1, <1>2, <1>3, <1>5, <1>6, <1>7

LEMMA FreshNumber ==
    ASSUME Inv
    PROVE  /\ nDicts \in Nat /\ nDicts + 1 \notin spoken \cup lost
           /\ pos.id # nDicts + 1 /\ pend.id # nDicts + 1 /\ tick.dict.id # nDicts + 1
<1>1. tick.dict \in DictType /\ RestOK
  BY Types DEF Inv, TickType
<1>2. nDicts \in Nat /\ tick.dict.id \in 0..nDicts /\ pos.id \in 0..nDicts /\ pend.id \in 0..nDicts
  BY <1>1, BoundsAssumption DEF RestOK, DictType
<1> QED
  BY <1>1, <1>2 DEF RestOK

LEMMA OpenedKeeps == ASSUME Inv, NEW d \in Sides, Opened(d) PROVE Inv'
<1>1. /\ pos' = NewDict(d) /\ nDicts' = nDicts + 1 /\ nDicts < MaxDicts
      /\ UNCHANGED <<active, tick, pend, signals, cooling, held, faults>>
  BY DEF Opened
<1>2. /\ NewDict(d) \in DictType' /\ NewDict(d).id = nDicts + 1
      /\ ~NewDict(d).signaled /\ NewDict(d).adverse < AdverseTicks
      /\ nDicts' \in 0..MaxDicts /\ nDicts \in Nat
      /\ DictType \subseteq DictType' /\ TickType \subseteq TickType'
  BY <1>1, NewDictType DEF Inv
<1>3. TypeOK'
  BY <1>1, <1>2, Types DEF Inv, RestOK, signals, cooling
<1>4. Staged' /\ Gated' /\ Muting'
  BY <1>1 DEF Inv, Staged, Gated, Guarded, Planned, Eventful, Publishing, Muting, cooling
<1>5. Tallied' /\ Distinguished' /\ Voiced' /\ FlaggedIsSent'
  BY <1>1, <1>2, FreshNumber
  DEF Inv, Tallied, Distinguished, Voiced, FlaggedIsSent, Publishing, signals
<1> QED
  BY <1>3, <1>4, <1>5 DEF Inv

LEMMA PlacedKeeps == ASSUME Inv, NEW d \in Sides, Placed(d) PROVE Inv'
<1>1. /\ pend' = NewDict(d) /\ nDicts' = nDicts + 1 /\ nDicts < MaxDicts
      /\ UNCHANGED <<active, tick, pos, signals, cooling, held, faults>>
  BY DEF Placed
<1>2. /\ NewDict(d) \in DictType' /\ NewDict(d).id = nDicts + 1
      /\ ~NewDict(d).signaled /\ NewDict(d).adverse < AdverseTicks
      /\ nDicts' \in 0..MaxDicts /\ nDicts \in Nat
      /\ DictType \subseteq DictType' /\ TickType \subseteq TickType'
  BY <1>1, NewDictType DEF Inv
<1>3. TypeOK'
  BY <1>1, <1>2, Types DEF Inv, RestOK, signals, cooling
<1>4. Staged' /\ Gated' /\ Muting'
  BY <1>1 DEF Inv, Staged, Gated, Guarded, Planned, Eventful, Publishing, Muting, cooling
<1>5. Tallied' /\ Distinguished' /\ Voiced' /\ FlaggedIsSent'
  BY <1>1, <1>2, FreshNumber
  DEF Inv, Tallied, Distinguished, Voiced, FlaggedIsSent, Publishing, signals
<1> QED
  BY <1>3, <1>4, <1>5 DEF Inv

\* Tables that only lose dictionaries, while the event stays as it is ...
LEMMA FewerKeeps ==
    ASSUME Inv, pos' \in {pos, NoDict}, pend' \in {pend, NoDict}, UNCHANGED <<nDicts, signals>>,
           tick'.pc = tick.pc, tick'.kind = tick.kind, tick'.dict = tick.dict
    PROVE  Tallied' /\ Distinguished' /\ Voiced' /\ FlaggedIsSent'
<1>1. \A d \in {pos', pend'} : d \in {pos, pend} \/ d = NoDict
  OBVIOUS
<1>2. Tallied'
  BY <1>1, NoDictType DEF Inv, Tallied
<1>3. \A d \in {pos', pend'} : ~d.signaled => d.id \notin spoken \cup lost
  BY <1>1, NoDictType, Types DEF Inv, Voiced, RestOK
<1>4. Voiced'
  BY <1>3 DEF Inv, Voiced, Publishing, signals
<1>5. FlaggedIsSent'
  BY <1>1, NoDictType DEF Inv, FlaggedIsSent, Publishing, signals
<1>6. (pos'.id = pend'.id => pos'.id = 0)
  BY NoDictType DEF Inv, Distinguished
<1>7. Distinguished'
  BY <1>6, NoDictType DEF Inv, Distinguished, Publishing
<1> QED
  BY <1>2, <1>4, <1>5, <1>7

\* ... or everything is forgotten.
LEMMA EmptyKeeps ==
    ASSUME Inv, pos' = NoDict, pend' = NoDict, UNCHANGED <<nDicts, signals>>, TickDone
    PROVE  Tallied' /\ Distinguished' /\ Voiced' /\ FlaggedIsSent'
<1>1. \A d \in {pos', pend'} : d = NoDict
  OBVIOUS
<1>2. tick'.pc = "idle"
  BY DEF TickDone, IdleTick
<1>3. NoDict.id \notin spoken \cup lost
  BY NoDictType, Types DEF Inv, RestOK
<1> QED
  BY <1>1, <1>2, <1>3, NoDictType DEF Tallied, Distinguished, Voiced, FlaggedIsSent, Publishing, signals

LEMMA ClearedKeeps == Inv /\ Cleared => Inv'
<1> SUFFICES ASSUME Inv, Cleared PROVE Inv'
  OBVIOUS
<1>1. pend' = NoDict /\ UNCHANGED <<active, tick, pos, nDicts, signals, cooling, held, faults>>
  BY DEF Cleared
<1>2. Tallied' /\ Distinguished' /\ Voiced' /\ FlaggedIsSent'
  BY <1>1, FewerKeeps
<1>3. TypeOK'
  BY <1>1, Types, NoDictType, SameTypes, BoundsAssumption DEF Inv, RestOK, signals, cooling
<1>4. Staged' /\ Gated' /\ Muting'
  BY <1>1 DEF Inv, Staged, Gated, Guarded, Planned, Eventful, Publishing, Muting, cooling
<1> QED
  BY <1>2, <1>3, <1>4 DEF Inv

LEMMA ResultKeeps == Inv /\ Result => Inv'
<1> SUFFICES ASSUME Inv, Result PROVE Inv'
  OBVIOUS
<1>1. /\ pos' = NoDict /\ UNCHANGED <<active, tick, pend, nDicts, signals, held, faults>>
      /\ (cool' = "loss" /\ loss' = "kept") \/ (cool' = cool /\ loss' = loss)
  BY DEF Result, cooling
<1>2. Tallied' /\ Distinguished' /\ Voiced' /\ FlaggedIsSent'
  BY <1>1, FewerKeeps
<1>3. TypeOK'
  <2>1. cool' \in {"none", "loss", "block", "expired"} /\ loss' \in {"none", "kept", "lost"}
    BY <1>1, Types DEF Inv, RestOK
  <2>2. NoDict \in DictType
    BY Types, NoDictType, BoundsAssumption DEF Inv, RestOK
  <2> QED
    BY <1>1, <2>1, <2>2, Types, SameTypes DEF Inv, RestOK, signals
<1>4. Staged' /\ Gated' /\ Muting'
  BY <1>1 DEF Inv, Staged, Gated, Guarded, Planned, Eventful, Publishing, Muting
<1> QED
  BY <1>2, <1>3, <1>4 DEF Inv

\* The end of a cooldown, or of the time of a loss, which mutes the event no more.
LEMMA EndKeeps ==
    ASSUME Inv, tick' = [tick EXCEPT !.muted = FALSE],
           cool' \in {"none", "block", "expired"}, loss' \in {"none", "lost"},
           UNCHANGED <<active, tables, signals, held, faults>>
    PROVE  Inv'
<1>1. tick \in TickType
  BY Types DEF Inv
<1>2. /\ tick'.pc = tick.pc /\ tick'.kind = tick.kind /\ tick'.dict = tick.dict /\ ~tick'.muted
      /\ tick'.conf = tick.conf /\ tick'.dir = tick.dir /\ tick'.asks = tick.asks
      /\ tick'.trade = tick.trade /\ tick'.flipped = tick.flipped /\ tick'.t5 = tick.t5
      /\ tick'.t15 = tick.t15 /\ tick'.impulse = tick.impulse
  BY <1>1 DEF TickType
<1>3. Tallied' /\ Distinguished' /\ Voiced' /\ FlaggedIsSent'
  BY <1>1, <1>2, SameKeeps
<1>4. tick' \in TickType
  <2>1. tick' = WithMuted(tick, FALSE)
    BY <1>1 DEF WithMuted
  <2>2. \A x \in BOOLEAN : WithMuted(tick, x) \in TickType
    BY <1>1, WithType
  <2> QED
    BY <2>1, <2>2
<1>5. TypeOK' /\ Muting'
  BY <1>1, <1>2, <1>4, SameTypes, Types DEF Inv, RestOK, tables, signals, Muting
<1>6. Staged' /\ Gated'
  BY <1>2 DEF Inv, Staged, Gated, Guarded, Planned, Eventful, Publishing
<1> QED
  BY <1>3, <1>5, <1>6 DEF Inv

LEMMA CooldownEndsKeeps == Inv /\ CooldownEnds => Inv'
<1> SUFFICES ASSUME Inv, CooldownEnds PROVE Inv'
  OBVIOUS
<1>1. cool' = "expired" /\ loss' \in {"none", "lost"}
  BY Types DEF CooldownEnds, Inv, RestOK
<1> QED
  BY <1>1, EndKeeps DEF CooldownEnds

LEMMA LossEndsKeeps == Inv /\ LossEnds => Inv'
<1> SUFFICES ASSUME Inv, LossEnds PROVE Inv'
  OBVIOUS
<1>1. cool' \in {"none", "block", "expired"} /\ loss' = "none"
  BY Types DEF LossEnds, Inv, RestOK
<1> QED
  BY <1>1, EndKeeps DEF LossEnds

LEMMA StatusKeeps == Inv /\ Status => Inv'
<1> SUFFICES ASSUME Inv, Status PROVE Inv'
  OBVIOUS
<1>1. held' = 0 /\ UNCHANGED <<active, tick, tables, signals, cooling, faults>>
  BY DEF Status
<1>2. Tallied' /\ Distinguished' /\ Voiced' /\ FlaggedIsSent'
  BY <1>1, SameKeeps
<1>3. 0 \in 0..CorrLimit
  BY BoundsAssumption
<1>4. TypeOK'
  BY <1>1, <1>3, SameTypes, Types DEF Inv, RestOK, tables, signals, cooling
<1>5. Staged' /\ Gated' /\ Muting'
  BY <1>1 DEF Inv, Staged, Gated, Guarded, Planned, Eventful, Publishing, Muting, cooling
<1> QED
  BY <1>2, <1>4, <1>5 DEF Inv

LEMMA RestartKeeps == Inv /\ Restart => Inv'
<1> SUFFICES ASSUME Inv, Restart PROVE Inv'
  OBVIOUS
<1>1. /\ TickDone /\ pos' = NoDict /\ pend' = NoDict /\ cool' = "none" /\ held' = 0
      /\ loss' \in {"none", "lost"} /\ active' \in {active, FALSE} /\ UNCHANGED <<nDicts, signals>>
      /\ RestOK /\ faults' \in 0..MaxFaults
  <2>1. RestOK
    BY Types DEF Inv
  <2>2. faults' \in 0..MaxFaults
    BY <2>1, BoundsAssumption DEF Restart, Fault, RestOK
  <2> QED
    BY <2>1, <2>2 DEF Restart, RestOK
<1>2. Tallied' /\ Distinguished' /\ Voiced' /\ FlaggedIsSent'
  BY <1>1, EmptyKeeps
<1>3. tick' \in TickType' /\ ~tick'.muted /\ Staged' /\ Gated'
  BY <1>1, IdleKeeps, SameTypes DEF Inv
<1>4. NoDict \in DictType /\ 0 \in 0..CorrLimit
  BY <1>1, NoDictType, BoundsAssumption DEF RestOK
<1>5. TypeOK' /\ Muting'
  BY <1>1, <1>3, <1>4, SameTypes, Types DEF RestOK, signals, Muting
<1> QED
  BY <1>2, <1>3, <1>5 DEF Inv

LEMMA InvStep == Inv /\ [Next]_vars => Inv'
<1> SUFFICES ASSUME Inv, [Next]_vars PROVE Inv'
  OBVIOUS
<1>1. CASE Actives \/ \E trade \in BOOLEAN : Event(trade)
  BY <1>1, ActivesKeeps, EventKeeps
<1>2. CASE Thread
  BY <1>2, ScoreKeeps, DecideKeeps, PredictKeeps, RecallKeeps, CoolKeeps, ForgetKeeps, JudgeKeeps,
     PlanKeeps DEF Thread
<1>3. CASE Publish \/ PublishFails
  BY <1>3, PublishKeeps, PublishFailsKeeps
<1>4. CASE Messages
  BY <1>4, OpenedKeeps, PlacedKeeps, ClearedKeeps, ResultKeeps DEF Messages
<1>5. CASE CooldownEnds \/ LossEnds \/ Status \/ Restart
  BY <1>5, CooldownEndsKeeps, LossEndsKeeps, StatusKeeps, RestartKeeps
<1>6. CASE UNCHANGED vars
  <2>1. Tallied' /\ Distinguished' /\ Voiced' /\ FlaggedIsSent'
    BY <1>6, SameKeeps DEF vars
  <2>2. TypeOK'
    BY <1>6, SameTypes, Types DEF Inv, RestOK, vars, tables, signals, cooling
  <2>3. Staged' /\ Gated' /\ Muting'
    BY <1>6 DEF Inv, Staged, Gated, Guarded, Planned, Eventful, Publishing, Muting, vars, cooling
  <2> QED
    BY <2>1, <2>2, <2>3 DEF Inv
<1> QED
  BY <1>1, <1>2, <1>3, <1>4, <1>5, <1>6 DEF Next

LEMMA InvHolds == Spec => []Inv
  BY InvInit, InvStep, PTL DEF Spec
-----------------------------------------------------------------------------
(***************************************************************************)
(* Theorems                                                                *)
(***************************************************************************)
\* Tables, event and cooldowns of the market listener (engine.py) stay well typed.
THEOREM EngineTypeCorrect == Spec => []TypeOK
<1>1. Inv => TypeOK
  BY DEF Inv
<1> QED
  BY <1>1, InvHolds, PTL

\* Every entry signal that _run_tick_prediction publishes has passed what the gates,
\* the flip and the cap add up to.
THEOREM EntrySignalsAreSound == Spec => []SignalSound
<1>1. Inv => SignalSound
  <2> SUFFICES ASSUME Inv, Publishing({"entry"}) PROVE SignalSound
    BY DEF SignalSound
  <2>1. tick.conf \in 0..1000
    BY Types DEF Inv, TickType
  <2>2. Planned /\ Eventful
    BY DEF Inv, Gated
  <2> QED
    BY <2>1, <2>2 DEF Planned, Eventful, SignalSound
<1> QED
  BY <1>1, InvHolds, PTL

\* _check_confidence_decay and _check_entry_abort signal a dictionary once, although
\* the listeners of positions and entries replace it while the thread decides.
THEOREM SignaledAtMostOnce == Spec => []SignaledOnce
<1>1. Inv => SignaledOnce
  BY DEF Inv, Voiced, SignaledOnce
<1> QED
  BY <1>1, InvHolds, PTL

\* A dictionary that is marked, and so skipped from now on, has had its signal, unless
\* the publish failed.
THEOREM MarkedIsSent == Spec => []FlaggedIsSent
<1>1. Inv => FlaggedIsSent
  BY DEF Inv
<1> QED
  BY <1>1, InvHolds, PTL

\* _symbol_cooldowns keeps the last loss quiet: no entry signal out of an event during its
\* cooldown, unless that was lost by a restart, by the deletion of an expired one in its
\* place, or to a pattern block that is over before it.
THEOREM CooldownMutes == Spec => []LossMutes
<1>1. Inv => LossMutes
  BY DEF Inv, Muting, LossMutes, Publishing
<1> QED
  BY <1>1, InvHolds, PTL
-----------------------------------------------------------------------------
(***************************************************************************)
(* The exit plans that the engine asks for                                 *)
(***************************************************************************)
Neighbour == [mine : BOOLEAN, salvageable : BOOLEAN, best : {60, 100}]

\* A mean, as its denominator is not 0.
LEMMA MemoryShareType ==
    ASSUME NEW s \in BoundedSeq(Neighbour, 2)
    PROVE  MemoryShare(s) \in Int
<1>1. PICK n \in 0..2 : s \in [1..n -> Neighbour]
  BY DEF BoundedSeq, SeqOf
<1> DEFINE mine == {i \in DOMAIN s : s[i].mine /\ s[i].salvageable}
           best == [i \in DOMAIN s |-> IF i \in mine THEN s[i].best ELSE 0]
<1>2. \A i \in 1..n : s[i].best \in Int
  BY <1>1 DEF Neighbour
<1>3. best \in [1..n -> Int] /\ mine \subseteq 1..n
  <2> HIDE DEF mine
  <2>1. best \in [1..n -> Int]
    BY <1>1, <1>2
  <2>2. mine \subseteq 1..n
    BY <1>1 DEF mine
  <2> QED
    BY <2>1, <2>2
<1>4. MemoryShare(s) = IF mine = {} THEN 0 ELSE SumOf(best) \div Cardinality(mine)
  BY DEF MemoryShare
<1> HIDE DEF mine, best
<1>5. SumOf(best) \in Int
  BY <1>3, SumType
<1>6. Cardinality(mine) \in Nat /\ (mine # {} => Cardinality(mine) # 0)
  <2>1. IsFiniteSet(1..n)
    BY FS_Interval
  <2>2. IsFiniteSet(mine)
    BY <1>3, <2>1, FS_Subset
  <2> QED
    BY <2>2, FS_CardinalityType, FS_EmptySet
<1> QED
  BY <1>4, <1>5, <1>6

\* What the memory suggests never leaves the limits of the model's answer.
LEMMA ExitShareType ==
    ASSUME NEW model \in Nat, NEW memory \in Int
    PROVE  /\ ExitShare(model, memory, MinSl, MaxSl) \in MinSl..MaxSl
           /\ ExitShare(model, memory, MinTp, MaxTp) \in MinTp..MaxTp
  BY DEF ExitShare, Least, Most, MinSl, MaxSl, MinTp, MaxTp

LEMMA ExitShares ==
    ASSUME NEW e \in ExitParams, NEW share \in MemoryShares
    PROVE  /\ ExitShare(e.sl, share, MinSl, MaxSl) \in MinSl..MaxSl
           /\ ExitShare(e.tp, share, MinTp, MaxTp) \in MinTp..MaxTp
<1>1. share \in Int
  BY MemoryShareType DEF MemoryShares, Neighbour
<1>2. e.sl \in Nat /\ e.tp \in Nat
  BY DEF ExitParams
<1> QED
  BY <1>1, <1>2, ExitShareType

LEMMA Limits ==
    /\ MinSl..MaxSl \subseteq {n \in Nat : n <= 160} /\ MaxSl \in MinSl..MaxSl
    /\ MinTp..MaxTp \subseteq Nat /\ MaxTp \in MinTp..MaxTp
  BY DEF MinTp, MaxTp, MinSl, MaxSl

\* The tick that a signal passes is used as it is.
LEMMA DefaultTicks ==
    /\ DefaultTick \in Int /\ Dollar \div 100000 \in Int /\ Dollar \div 1000 \in Int
    /\ \A book : TickOf(book, DefaultTick) = DefaultTick
<1>1. Dollar \in Nat /\ Dollar >= 100000
  BY DollarAssumption
<1>2. Dollar \div 10000 \in Int /\ Dollar \div 100000 \in Int /\ Dollar \div 1000 \in Int
      /\ Dollar \div 10000 > 0
  BY <1>1
<1> QED
  BY <1>2 DEF DefaultTick, TickOf

\* The plans of a signal, with the default tick, and those of _handle_exit_plan_request,
\* with the tick of the request, are sound whatever the books hold: below the strata in
\* ticks that TakeProfitSound names, it says no more than that no order is on the wrong
\* side of the entry price.
THEOREM PlansAreCorrect == Spec => []PlanCorrect
<1>1. ASSUME NEW d \in Sides, NEW book \in Books
      PROVE  \A vol \in {5, 10}, score \in {0, 11},
                exitSl \in {ExitShare(e.sl, share, MinSl, MaxSl) : e \in ExitParams, share \in MemoryShares},
                exitTp \in {ExitShare(e.tp, share, MinTp, MaxTp) : e \in ExitParams, share \in MemoryShares} :
               \A plan \in Plans(d, book, DefaultTick, vol, exitSl, exitTp, score) :
                 SoundPlan(plan, d, book, DefaultTick, SlLimit(vol, exitSl), exitTp, score)
  <2> DEFINE Sls == {ExitShare(e.sl, share, MinSl, MaxSl) : e \in ExitParams, share \in MemoryShares}
             Tps == {ExitShare(e.tp, share, MinTp, MaxTp) : e \in ExitParams, share \in MemoryShares}
  <2>1. Sls \subseteq MinSl..MaxSl /\ Tps \subseteq MinTp..MaxTp
    <3>1. ASSUME NEW sl \in Sls PROVE sl \in MinSl..MaxSl
      <4>1. PICK e \in ExitParams, share \in MemoryShares : sl = ExitShare(e.sl, share, MinSl, MaxSl)
        OBVIOUS
      <4>2. ExitShare(e.sl, share, MinSl, MaxSl) \in MinSl..MaxSl
        BY ExitShares
      <4> QED
        BY <4>1, <4>2
    <3>2. ASSUME NEW tp \in Tps PROVE tp \in MinTp..MaxTp
      <4>1. PICK e \in ExitParams, share \in MemoryShares : tp = ExitShare(e.tp, share, MinTp, MaxTp)
        OBVIOUS
      <4>2. ExitShare(e.tp, share, MinTp, MaxTp) \in MinTp..MaxTp
        BY ExitShares
      <4> QED
        BY <4>1, <4>2
    <3> HIDE DEF Sls, Tps
    <3> QED
      BY <3>1, <3>2
  <2> HIDE DEF Sls, Tps
  <2>2. ASSUME NEW vol \in {5, 10}, NEW score \in {0, 11}, NEW exitSl \in Sls, NEW exitTp \in Tps,
               NEW plan \in Plans(d, book, DefaultTick, vol, exitSl, exitTp, score)
        PROVE  SoundPlan(plan, d, book, DefaultTick, SlLimit(vol, exitSl), exitTp, score)
    <3>1. /\ WellFormed(book) /\ vol \in Nat /\ exitSl \in Nat /\ exitSl <= 160
          /\ exitTp \in Nat /\ score \in Nat
      BY <2>1, Limits, BooksAssumption
    <3>2. DefaultTick \in Int /\ TickOf(book, DefaultTick) = DefaultTick
      BY DefaultTicks
    <3> DEFINE given == DefaultTick
    <3> HIDE DEF given
    <3>3. given \in Int /\ plan \in Plans(d, book, given, vol, exitSl, exitTp, score)
      BY <3>2 DEF given
    <3>4. SoundPlan(plan, d, book, TickOf(book, given), SlLimit(vol, exitSl), exitTp, score)
      BY <3>1, <3>3, PlansSound
    <3> QED
      BY <3>2, <3>4 DEF given
  <2>3. \A vol \in {5, 10}, score \in {0, 11}, exitSl \in Sls, exitTp \in Tps :
           \A plan \in Plans(d, book, DefaultTick, vol, exitSl, exitTp, score) :
             SoundPlan(plan, d, book, DefaultTick, SlLimit(vol, exitSl), exitTp, score)
    BY <2>2, Zenon
  <2> QED
    BY <2>3 DEF Sls, Tps
<1>2. ASSUME NEW d \in Sides, NEW book \in Books, NEW vol \in {5, 20},
             NEW given \in {0, Dollar \div 100000, Dollar \div 1000},
             NEW plan \in PlanRequest(d, book, vol, given)
      PROVE  SoundPlan(plan, d, book, TickOf(book, given), SlLimit(vol, MaxSl), MaxTp, 0)
  <2>1. plan \in Plans(d, book, given, vol, MaxSl, MaxTp, 0)
    BY DEF PlanRequest
  <2>2. given \in Int
    BY DefaultTicks
  <2>3. /\ WellFormed(book) /\ vol \in Nat /\ MaxSl \in Nat /\ MaxSl <= 160
        /\ MaxTp \in Nat /\ 0 \in Nat
    BY Limits, BooksAssumption
  <2> QED
    BY <2>1, <2>2, <2>3, PlansSound
<1>3. PlanCorrect
  BY <1>1, <1>2 DEF PlanCorrect
<1> QED
  BY <1>3, PTL
=============================================================================
