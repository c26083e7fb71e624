--------------------------- MODULE TradeLearning ---------------------------
(***************************************************************************)
(* From a closed trade to what the engine learns of it: the listeners of   *)
(* execution:results and execution:mae_mfe (engine.py), the price tracker  *)
(* of history_logger that answers each result half an hour later, the      *)
(* trades that wait for that answer in memory and in Redis, and the        *)
(* retraining worker, which the result listener awaits.                    *)
(*                                                                         *)
(* A signal may be traded twice, live and by the shadow engine; both       *)
(* trades carry its id.  A step ends at an await of the code.              *)
(***************************************************************************)
EXTENDS Naturals, Sequences, FiniteSets, Functions

CONSTANTS
    Signals,       \* signal ids
    Shadowed,      \* those the shadow engine trades too
    LossThreshold, \* CONSECUTIVE_LOSS_THRESHOLD
    WinThreshold,  \* retrain_trade_threshold
    MaxFaults,     \* bound: lost messages, Redis errors, restarts
    None

ASSUME SignalsAssumption == Shadowed \subseteq Signals /\ IsFiniteSet(Signals)
ASSUME ThresholdAssumption == LossThreshold \in Nat \ {0} /\ WinThreshold \in Nat \ {0}
ASSUME MaxFaultsAssumption == MaxFaults \in Nat

Trades == Signals \X {"live"} \cup Shadowed \X {"shadow"}
Keys == Signals \X BOOLEAN             \* "<signal_id>:<exchange_pnl>"
NoTrade == <<None, "none">>
MaybeTrade == Trades \cup {NoTrade}

ASSUME NoneAssumption == None \notin Signals \cup {"results", "timer"}

VARIABLES
    status,    \* trade -> has it opened, has it closed
    info,      \* closed trade -> exchange_pnl, the sign of its pnl, has it a state vector
    tracked,   \* _open_positions of the symbol all trades are of
    inbox,     \* results the listener has not taken
    measured,  \* key -> the trade whose prices history_logger follows under it
    mbox,      \* MAE/MFE messages the listener has not taken
    pending,   \* _pending_mae_mfe
    redis,     \* the keys mae_mfe_pending:*
    aged,      \* trades stored more than 2100 s ago
    learned,   \* <<trade, trade whose excursion it was learned with>>
    overtaken, \* trades whose MAE/MFE message was taken before they were stored
    rl,        \* the result listener
    ml,        \* the MAE/MFE listener
    losses,    \* consecutive losses: of the engine and of the worker
    wins,      \* _winning_trades
    cooling,   \* a loss streak has triggered in the last 300 s
    training,  \* who awaits the running training
    faults

exchange == <<status, info>>
learning == <<learned, overtaken>>
store == <<pending, redis, aged, learning>>
counters == <<losses, wins, cooling>>
vars == <<exchange, tracked, inbox, measured, mbox, store, rl, ml, counters,
          training, faults>>

Key(t) == <<t[1], info[t].exchange>>
HasTwin(t) == t[1] \in Shadowed
IdleResults == [pc |-> "idle", t |-> NoTrade]
IdleMae == [pc |-> "idle", key |-> None, of |-> NoTrade, got |-> NoTrade,
            suffix |-> TRUE, kept |-> FALSE, failed |-> FALSE]

Waiting == {"trainLosses", "trainStreak", "trainWins"}
ResultLabels == {"idle", "store", "mirror", "count", "streak", "pop"} \cup Waiting

TypeOK ==
    /\ status \in [Trades -> {"new", "open", "closed"}]
    /\ info \in [Trades -> [exchange : BOOLEAN, pnl : {"win", "loss"}, vector : BOOLEAN]]
    /\ tracked \in MaybeTrade
    /\ inbox \in Seq(Trades)
    /\ measured \in [Keys -> MaybeTrade]
    /\ mbox \in Seq([key : Keys, of : Trades])
    /\ pending \in [Keys -> MaybeTrade] /\ redis \in [Keys -> MaybeTrade]
    /\ aged \subseteq Trades
    /\ learned \subseteq Trades \X MaybeTrade
    /\ overtaken \subseteq Trades
    /\ rl \in [pc : ResultLabels, t : MaybeTrade]
    /\ ml \in [pc : {"idle", "probe", "delete", "purge", "end"}, key : Keys \cup {None},
               of : MaybeTrade, got : MaybeTrade, suffix : BOOLEAN, kept : BOOLEAN,
               failed : BOOLEAN]
    /\ losses \in [{"engine", "worker"} -> Nat]
    /\ wins \in Nat
    /\ cooling \in BOOLEAN
    /\ training \in {None, "results", "timer"}
    /\ training = "results" <=> rl.pc \in Waiting
    /\ faults \in 0..MaxFaults

Init ==
    /\ status = [t \in Trades |-> "new"]
    /\ info = [t \in Trades |-> [exchange |-> FALSE, pnl |-> "win", vector |-> FALSE]]
    /\ tracked = NoTrade
    /\ inbox = <<>> /\ mbox = <<>>
    /\ measured = [k \in Keys |-> NoTrade]
    /\ pending = [k \in Keys |-> NoTrade] /\ redis = [k \in Keys |-> NoTrade]
    /\ aged = {} /\ learned = {} /\ overtaken = {}
    /\ rl = IdleResults /\ ml = IdleMae
    /\ losses = [w \in {"engine", "worker"} |-> 0] /\ wins = 0 /\ cooling = FALSE
    /\ training = None
    /\ faults = 0
-----------------------------------------------------------------------------
(***************************************************************************)
(* The OMS and history_logger                                              *)
(***************************************************************************)
Fault == faults < MaxFaults /\ faults' = faults + 1

\* The positions listener takes its message long before the trade can close.
Open(t) ==
    /\ t[2] = "live" /\ status[t] = "new"
    /\ \A u \in Trades : status[u] # "open"
    /\ status' = [status EXCEPT ![t] = "open"]
    /\ tracked' = t
    /\ UNCHANGED <<info, inbox, measured, mbox, store, rl, ml, counters, training,
                   faults>>

\* finalizeClose, or the shadow engine: one message, to the engine and to
\* history_logger, each of which may miss it.  exchange_pnl is false for a shadow
\* trade and for a live one whose closed PnL the exchange did not report; an adopted
\* position has neither signal nor state vector, and its symbol as its id.
Close(t, e, p, v) ==
    /\ status[t] = IF t[2] = "live" THEN "open" ELSE "new"
    /\ t[2] = "shadow" => ~e
    /\ HasTwin(t) => v
    /\ status' = [status EXCEPT ![t] = "closed"]
    /\ info' = [info EXCEPT ![t] = [exchange |-> e, pnl |-> p, vector |-> v]]
    /\ \/ /\ inbox' = Append(inbox, t)
          /\ measured' = [measured EXCEPT ![<<t[1], e>>] = t]
          /\ UNCHANGED faults
       \/ Fault /\ inbox' = Append(inbox, t) /\ UNCHANGED measured
       \/ Fault /\ measured' = [measured EXCEPT ![<<t[1], e>>] = t] /\ UNCHANGED inbox
    /\ UNCHANGED <<tracked, mbox, store, rl, ml, counters, training>>

\* Half an hour later.  Only a training keeps the result listener busy as long.
Measured(k) ==
    /\ measured[k] # NoTrade
    /\ rl.t = measured[k] \/ measured[k] \in Range(inbox) => rl.pc \in Waiting
    /\ mbox' = Append(mbox, [key |-> k, of |-> measured[k]])
    /\ measured' = [measured EXCEPT ![k] = NoTrade]
    /\ UNCHANGED <<exchange, tracked, inbox, store, rl, ml, counters, training, faults>>

MeasureLost(k) ==
    /\ measured[k] # NoTrade
    /\ Fault
    /\ measured' = [measured EXCEPT ![k] = NoTrade]
    /\ UNCHANGED <<exchange, tracked, inbox, mbox, store, rl, ml, counters, training>>

\* 2100 s after it was stored, and so after its measurement has come or is lost.
Age(t) ==
    /\ t \notin aged
    /\ pending[Key(t)] = t \/ redis[Key(t)] = t
    /\ rl.t # t
    /\ \A k \in Keys : measured[k] # t
    /\ \A m \in Range(mbox) : m.of # t
    /\ ml.of # t
    /\ aged' = aged \cup {t}
    /\ UNCHANGED <<exchange, tracked, inbox, measured, mbox, pending, redis, learning, rl, ml,
                   counters, training, faults>>

Expire(k) ==
    /\ redis[k] \in aged
    /\ redis' = [redis EXCEPT ![k] = NoTrade]
    /\ UNCHANGED <<exchange, tracked, inbox, measured, mbox, pending, aged, learning, rl, ml,
                   counters, training, faults>>
-----------------------------------------------------------------------------
(***************************************************************************)
(* The result listener.  What it hands to the online learner, to the       *)
(* gatekeeper and to the per-symbol statistics is not modelled here.       *)
(***************************************************************************)
AtResult(l) == rl' = [rl EXCEPT !.pc = l]

Take ==
    /\ rl.pc = "idle" /\ inbox # <<>>
    /\ rl' = [pc |-> "store", t |-> Head(inbox)]
    /\ inbox' = Tail(inbox)
    /\ UNCHANGED <<exchange, tracked, measured, mbox, store, ml, counters, training,
                   faults>>

\* Mutant: a result without a state vector is tried again.
StoreRetries ==
    /\ rl.pc = "store"
    /\ info[rl.t].vector
    /\ pending' = [pending EXCEPT ![Key(rl.t)] = rl.t] /\ AtResult("mirror")
    /\ UNCHANGED <<exchange, tracked, inbox, measured, mbox, redis, aged, learning, ml,
                   counters, training, faults>>

\* After the symbol statistics.  A result without a state vector is dropped here.
Store ==
    /\ rl.pc = "store"
    /\ IF info[rl.t].vector
       THEN pending' = [pending EXCEPT ![Key(rl.t)] = rl.t] /\ AtResult("mirror")
       ELSE rl' = IdleResults /\ UNCHANGED pending
    /\ UNCHANGED <<exchange, tracked, inbox, measured, mbox, redis, aged, learning, ml,
                   counters, training, faults>>

\* An error of Redis is ignored.
Mirror ==
    /\ rl.pc = "mirror"
    /\ \/ redis' = [redis EXCEPT ![Key(rl.t)] = rl.t] /\ UNCHANGED faults
       \/ Fault /\ UNCHANGED redis
    /\ AtResult("count")
    /\ UNCHANGED <<exchange, tracked, inbox, measured, mbox, pending, aged, learning, ml,
                   counters, training>>

\* The loss is counted, and the losses of its setup are saved.
Count ==
    /\ rl.pc = "count"
    /\ IF info[rl.t].pnl = "loss"
       THEN losses' = [losses EXCEPT !.engine = @ + 1] /\ AtResult("streak")
       ELSE losses' = [losses EXCEPT !.engine = 0] /\ AtResult("pop")
    /\ UNCHANGED <<exchange, tracked, inbox, measured, mbox, store, ml, wins, cooling,
                   training, faults>>

\* Mutant: a training of another task is awaited, which wakes nobody here.
TriggerWaits(wait, skip) ==
    /\ training' = IF training = None THEN "results" ELSE training
    /\ rl' = [rl EXCEPT !.pc = wait]

\* Mutant: no training is started.
TriggerNever(wait, skip) == rl' = skip /\ UNCHANGED training

\* trigger(): a training is started and awaited, or one runs and it is skipped.
Trigger(wait, skip) ==
    IF training = None
    THEN training' = "results" /\ rl' = [rl EXCEPT !.pc = wait]
    ELSE rl' = skip /\ UNCHANGED training

\* The engine forgets its losses after the training, or at once when it is skipped.
Streak ==
    /\ rl.pc = "streak"
    /\ IF losses.engine >= LossThreshold
       THEN /\ Trigger("trainLosses", [rl EXCEPT !.pc = "pop"])
            /\ losses' = [losses EXCEPT !.engine = IF training = None THEN @ ELSE 0]
       ELSE AtResult("pop") /\ UNCHANGED <<losses, training>>
    /\ UNCHANGED <<exchange, tracked, inbox, measured, mbox, store, ml, wins, cooling,
                   faults>>

\* Mutant: the position is forgotten for losses only.
PopLosers ==
    tracked' = IF info[rl.t].pnl = "loss" THEN NoTrade ELSE tracked

\* Whatever position of the symbol is tracked, also by a shadow trade's result.
PopPosition == tracked' = NoTrade

\* ... and on_trade_closed(), with a loss streak of its own.
Pop ==
    /\ rl.pc = "pop"
    /\ PopPosition
    /\ LET lost == info[rl.t].pnl = "loss"
           n == IF lost THEN losses.worker + 1 ELSE 0
           w == IF lost THEN wins ELSE wins + 1
           atStreak == n >= LossThreshold /\ ~cooling
           atWins == ~atStreak /\ w >= WinThreshold
       IN /\ losses' = [losses EXCEPT !.worker = IF atStreak THEN 0 ELSE n]
          /\ cooling' = (cooling \/ atStreak)
          /\ wins' = IF atWins /\ training # None THEN 0 ELSE w
          /\ \/ atStreak /\ Trigger("trainStreak", IdleResults)
             \/ atWins /\ Trigger("trainWins", IdleResults)
             \/ ~atStreak /\ ~atWins /\ rl' = IdleResults /\ UNCHANGED training
    /\ UNCHANGED <<exchange, inbox, measured, mbox, store, ml, faults>>

Cooled ==
    /\ cooling /\ cooling' = FALSE
    /\ UNCHANGED <<exchange, tracked, inbox, measured, mbox, store, rl, ml, losses, wins,
                   training, faults>>
-----------------------------------------------------------------------------
(***************************************************************************)
(* Trainings: one at a time, awaited by the listener or by a timer task    *)
(***************************************************************************)
\* The interval loop, and the status loop after a drought of signals.
Timer ==
    /\ training = None /\ training' = "timer"
    /\ UNCHANGED <<exchange, tracked, inbox, measured, mbox, store, rl, ml, counters, faults>>

\* The subprocess ends, at its timeout at the latest.
TrainEnds ==
    /\ training # None /\ training' = None
    /\ rl' = IF training # "results" THEN rl
             ELSE IF rl.pc = "trainLosses" THEN [rl EXCEPT !.pc = "pop"] ELSE IdleResults
    /\ losses' = IF rl.pc = "trainLosses" /\ training = "results"
                 THEN [losses EXCEPT !.engine = 0] ELSE losses
    /\ wins' = IF rl.pc = "trainWins" /\ training = "results" THEN 0 ELSE wins
    /\ UNCHANGED <<exchange, tracked, inbox, measured, mbox, store, ml, cooling, faults>>

\* The subprocess cannot be run: the listener subscribes again, and misses what
\* was waiting.
TrainRaises ==
    /\ training = "results" /\ training' = None
    /\ Fault
    /\ rl' = IdleResults /\ inbox' = <<>>
    /\ UNCHANGED <<exchange, tracked, measured, mbox, store, ml, counters>>
-----------------------------------------------------------------------------
(***************************************************************************)
(* The MAE/MFE listener                                                    *)
(***************************************************************************)
\* Handed to the experience memory, which may refuse it (ExperienceMemory).
Learn(t, x) == learned' = learned \cup {<<t, x>>}
Stale == {k \in Keys : pending[k] \in aged}
Unstored(t) == t \in Range(inbox) \/ (rl.t = t /\ rl.pc = "store")
MaeDone == ml' = IdleMae

\* Mutant: the entry stays in memory.
PendingWithoutKept(k) == [j \in Keys |-> IF j \in Stale THEN NoTrade ELSE pending[j]]

PendingWithout(k) == [j \in Keys |-> IF j \in Stale \cup {k} THEN NoTrade ELSE pending[j]]

\* Stale entries are learned without their excursion, at the next message only.
\* Then the entry of the message's key, if memory has it: its copy in Redis stays.
TakeMae ==
    /\ ml.pc = "idle" /\ mbox # <<>>
    /\ mbox' = Tail(mbox)
    /\ LET m == Head(mbox)
           stale == {<<pending[k], NoTrade>> : k \in Stale}
           found == IF m.key \in Stale THEN NoTrade ELSE pending[m.key]
       IN /\ pending' = PendingWithout(m.key)
          /\ IF found # NoTrade
             THEN learned' = learned \cup stale \cup {<<found, m.of>>} /\ MaeDone
             ELSE /\ learned' = learned \cup stale
                  /\ ml' = [IdleMae EXCEPT !.pc = "probe", !.key = m.key, !.of = m.of,
                                           !.kept = \E k \in Keys : redis[k] = m.of]
          /\ overtaken' = IF Unstored(m.of) THEN overtaken \cup {m.of} ELSE overtaken
    /\ UNCHANGED <<exchange, tracked, inbox, measured, redis, aged, rl, counters, training,
                   faults>>

\* Mutant: the loop tries :true only.
NextSuffixNone(got) == ml' = [ml EXCEPT !.got = got, !.pc = "end"]

\* The loop over the suffixes goes on, or ends.
NextSuffix(got) ==
    ml' = [ml EXCEPT !.got = got, !.suffix = FALSE,
                     !.pc = IF ml.suffix THEN "probe" ELSE "end"]

Probe ==
    /\ ml.pc = "probe"
    /\ LET got == redis[<<ml.key[1], ml.suffix>>] IN
         IF got # NoTrade THEN ml' = [ml EXCEPT !.got = got, !.pc = "delete"]
                          ELSE NextSuffix(ml.got)
    /\ UNCHANGED <<exchange, tracked, inbox, measured, mbox, store, rl, counters, training,
                   faults>>

Delete ==
    /\ ml.pc = "delete"
    /\ redis' = [redis EXCEPT ![<<ml.key[1], ml.suffix>>] = NoTrade]
    /\ ml' = [ml EXCEPT !.pc = "purge"]
    /\ UNCHANGED <<exchange, tracked, inbox, measured, mbox, pending, aged, learning, rl,
                   counters, training, faults>>

\* The other spellings of the key are deleted too, and with them the entry of the
\* other trade of the signal.
Purge ==
    /\ ml.pc = "purge"
    /\ redis' = [redis EXCEPT ![<<ml.key[1], ~ml.suffix>>] = NoTrade]
    /\ ml' = [ml EXCEPT !.pc = "end"]
    /\ UNCHANGED <<exchange, tracked, inbox, measured, mbox, pending, aged, learning, rl,
                   counters, training, faults>>

\* An error of Redis, before or after the entry is read: the next suffix is tried.
RedisFails ==
    /\ ml.pc \in {"probe", "delete", "purge"}
    /\ Fault
    /\ ml' = [ml EXCEPT !.failed = TRUE, !.suffix = FALSE,
                        !.pc = IF ml.suffix THEN "probe" ELSE "end"]
    /\ UNCHANGED <<exchange, tracked, inbox, measured, mbox, store, rl, counters, training>>

EndMae ==
    /\ ml.pc = "end"
    /\ IF ml.got = NoTrade THEN UNCHANGED learned ELSE Learn(ml.got, ml.of)
    /\ MaeDone
    /\ UNCHANGED <<exchange, tracked, inbox, measured, mbox, pending, redis, aged, overtaken, rl,
                   counters, training, faults>>
-----------------------------------------------------------------------------
\* The engine restarts: Redis keeps its keys, what was in memory or on its way to
\* the engine is gone.
Restart ==
    /\ Fault
    /\ tracked' = NoTrade /\ inbox' = <<>> /\ mbox' = <<>>
    /\ pending' = [k \in Keys |-> NoTrade]
    /\ rl' = IdleResults /\ ml' = IdleMae
    /\ losses' = [w \in {"engine", "worker"} |-> 0] /\ wins' = 0 /\ cooling' = FALSE
    /\ training' = None
    /\ UNCHANGED <<exchange, measured, redis, aged, learning>>

Exchange ==
    \/ \E t \in Trades : Open(t)
    \/ \E t \in Trades, e \in BOOLEAN, p \in {"win", "loss"}, v \in BOOLEAN : Close(t, e, p, v)
    \/ \E k \in Keys : Measured(k) \/ MeasureLost(k) \/ Expire(k)
    \/ \E t \in Trades : Age(t)

Results == Take \/ Store \/ Mirror \/ Count \/ Streak \/ Pop
Excursions == TakeMae \/ Probe \/ Delete \/ Purge \/ EndMae
Timers == Cooled \/ Timer

Next ==
    \/ Exchange \/ Results \/ Excursions \/ Timers
    \/ TrainEnds \/ TrainRaises \/ RedisFails \/ Restart

Spec == Init /\ [][Next]_vars

\* The event loop runs every task that can go on, and a training has a timeout.
FairSpec == Spec /\ WF_vars(Results) /\ WF_vars(Excursions) /\ WF_vars(TrainEnds)
-----------------------------------------------------------------------------
(***************************************************************************)
(* Properties                                                              *)
(***************************************************************************)
Learnings(t) == {l \in learned : l[1] = t}

\* A trade is learned once, with its own excursion or with none, through restarts,
\* stale entries, the two copies and the several spellings of a key: unless its
\* signal was traded twice, or its excursion overtook its result, which waited for a
\* training, and the copy in Redis was there when it was looked for a moment later.
LearnedOnce ==
    \A t \in Trades : ~HasTwin(t) =>
        /\ t \in overtaken \/ Cardinality(Learnings(t)) <= 1
        /\ \A l \in Learnings(t) : l[2] \in {t, NoTrade}

\* An excursion whose trade Redis holds when the message comes is learned: a
\* restart between the two is bridged, and nothing but an error of Redis or the
\* other trade of the signal can lose it.
KeptIsLearned ==
    [][\A t \in Trades :
         ml.of = t /\ ml'.pc = "idle" /\ ml.kept /\ ~ml.failed /\ faults' = faults /\ ~HasTwin(t)
            => \E l \in learned' : l[1] = t]_vars

\* Every result is handled, however many trainings the listener awaits.
ResultsDrain == \A t \in Trades : t \in Range(inbox) ~> t \notin Range(inbox)

\* Once its result is on its way, and nothing fails any more, a closed trade leaves
\* _open_positions, but for an adopted position.
ClosedLeaves ==
    \A t \in Trades :
        t \in Range(inbox) /\ info[t].vector /\ faults = MaxFaults ~> tracked # t

\* A streak of losses ends in a training, or meets one that is running.
StreakTrains ==
    rl.pc = "streak" /\ losses.engine >= LossThreshold /\ faults = MaxFaults
        ~> training # None
=============================================================================
