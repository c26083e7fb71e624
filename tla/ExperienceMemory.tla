-------------------------- MODULE ExperienceMemory --------------------------
(***************************************************************************)
(* The experience memory: vectors (a FAISS index) and their metadata, in   *)
(* the engine (memory.py) and in two files next to each other, which the   *)
(* engine rewrites at every persist interval and which the maintenance     *)
(* scripts read and rewrite: clean_faiss.py, balance_faiss.py,             *)
(* backfill_faiss.py and flush_dirty_data.py.  Vector i and entry i of the *)
(* metadata belong together; both are named by their trade here.           *)
(*                                                                         *)
(* A step is one file access, or the start or the end of a rewrite.        *)
(***************************************************************************)
EXTENDS Integers, Sequences, FiniteSets, Functions

CONSTANTS
    Trades,      \* trades, in the order in which they close
    Outcomes,    \* the directions and pnl, in thousandths, with which they close
    MaxUnwritten,\* bound: closed trades of which a write is outstanding
    MaxScripts,  \* bound: script runs
    MaxFaults    \* bound: crashes of the engine and of scripts

ASSUME TradesAssumption == IsFiniteSet(Trades) /\ Trades = 1..Cardinality(Trades)
ASSUME OutcomesAssumption == Outcomes \subseteq [dir : {"LONG", "SHORT"}, pnl : Int]
ASSUME BoundsAssumption == MaxUnwritten \in Nat /\ MaxScripts \in Nat /\ MaxFaults \in Nat

VARIABLES
    closed,    \* closed trade -> direction and pnl
    influx,    \* trades whose outcome InfluxDB has
    unwritten, \* <<writer, trade>>: outcomes that are still to be written
    added,     \* trades the engine has learned from
    ram,       \* the engine's vectors and metadata
    eng,       \* the engine: what it is doing
    files,     \* the two files
    script,    \* the maintenance script that runs
    runs,      \* scripts started so far
    touched,   \* a script has written or deleted a file
    persisted, \* trades in the metadata when the engine last persisted completely
    due,       \* trades in the range of the last flush, unless written since its start
    flushed,   \* the last flush is complete
    faults

outcomes == <<influx, unwritten>>
trading == <<closed, outcomes, added, due>>
engine == <<ram, eng, persisted>>
scripts == <<script, runs, touched, flushed>>
vars == <<trading, engine, files, scripts, faults>>

Directions == {"LONG", "SHORT"}
Writers == {"OMS", "engine"}
Known == DOMAIN closed

File(s) == [state |-> "ok", data |-> s]
Missing == [state |-> "missing", data |-> <<>>]
Torn == [state |-> "torn", data |-> <<>>]
NoScript == [pc |-> "idle", kind |-> "none", vectors |-> <<>>, meta |-> <<>>,
             attempt |-> 1, known |-> {}]

EngineLabels == {"down", "boot", "up", "index open", "metadata", "metadata open"}
ScriptLabels == {"idle", "read metadata", "read index", "load index", "load metadata",
                 "index", "index open", "metadata", "metadata open",
                 "influx", "redis", "unlink index", "unlink metadata"}
Kinds == {"none", "clean", "balance", "backfill", "flush"}

FileType == [state : {"ok", "missing", "torn"}, data : Seq(Trades)]
TypeOK ==
    /\ Known \subseteq Trades
    /\ closed \in [Known -> Outcomes]
    /\ influx \subseteq Known /\ added \subseteq Known /\ due \subseteq Known
    /\ unwritten \subseteq Writers \X Known
    /\ ram \in [vectors : Seq(Known), meta : Seq(Known)]
    /\ eng \in EngineLabels
    /\ files \in [index : FileType, meta : FileType]
    /\ script \in [pc : ScriptLabels, kind : Kinds, vectors : Seq(Known), meta : Seq(Known),
                   attempt : 1..3, known : SUBSET Known]
    /\ runs \in 0..MaxScripts
    /\ touched \in BOOLEAN
    /\ persisted \subseteq Known
    /\ flushed \in BOOLEAN
    /\ faults \in 0..MaxFaults

EmptyMemory == [vectors |-> <<>>, meta |-> <<>>]

Init ==
    /\ closed = <<>> /\ added = {}
    /\ influx = {} /\ unwritten = {} /\ due = {}
    /\ ram = EmptyMemory /\ eng = "down"
    /\ files = [index |-> Missing, meta |-> Missing]
    /\ script = NoScript /\ runs = 0 /\ touched = FALSE /\ flushed = FALSE
    /\ persisted = {}
    /\ faults = 0
-----------------------------------------------------------------------------
(***************************************************************************)
(* The scripts' choice of entries, as a sequence of positions              *)
(***************************************************************************)
\* Positions in their order.
Ascending(S) == [n \in 1..Cardinality(S) |->
                   CHOOSE i \in S : Cardinality({j \in S : j < i}) = n - 1]

\* The cap best of them, the best first; equal ones keep their order.
Best(S, cap, pnl) ==
    LET Before(i) == {j \in S : pnl[j] > pnl[i] \/ (pnl[j] = pnl[i] /\ j < i)}
    IN [n \in 1..cap |-> CHOOSE i \in S : Cardinality(Before(i)) = n - 1]

\* Mutant: the cap is that of the larger side.
CapOfLarger(l, s) == 2 * (IF l > s THEN l ELSE s)

\* No cap at all when a side is empty.
Cap(l, s) == LET least == IF l < s THEN l ELSE s
                 most == IF l < s THEN s ELSE l
             IN IF least = 0 THEN most ELSE 2 * least

AtMost(S, cap, pnl) == IF Cardinality(S) > cap THEN Best(S, cap, pnl) ELSE Ascending(S)

Sides(S, dir, pnl) ==
    LET long == {i \in S : dir[i] = "LONG"}
        short == {i \in S : dir[i] = "SHORT"}
        cap == Cap(Cardinality(long), Cardinality(short))
    IN AtMost(long, cap, pnl) \o AtMost(short, cap, pnl)

\* clean_faiss: no outlier, and the first of each direction, regime and pnl.
Clean(dir, pnl) ==
    LET kept == {i \in DOMAIN pnl : pnl[i] <= 150 /\ pnl[i] >= -500}
        firsts == {i \in kept : \A j \in kept : j < i => dir[j] # dir[i] \/ pnl[j] # pnl[i]}
    IN Sides(firsts, dir, pnl)

\* balance_faiss: no loss of more than 0.05.
Balance(dir, pnl) == Sides({i \in DOMAIN pnl : pnl[i] >= -50}, dir, pnl)
-----------------------------------------------------------------------------
(***************************************************************************)
(* Trades and the engine                                                   *)
(***************************************************************************)
Fault == faults < MaxFaults /\ faults' = faults + 1

Listens == eng \notin {"down", "boot"}

\* The OMS hands the outcome to its client for InfluxDB and publishes the result,
\* which an engine that listens takes.
Close(t) ==
    /\ t \notin Known /\ \A u \in Trades : u < t => u \in Known
    /\ Cardinality({x[2] : x \in unwritten}) < MaxUnwritten
    /\ \E o \in Outcomes :
         closed' = [u \in Known \cup {t} |-> IF u = t THEN o ELSE closed[u]]
    /\ unwritten' = unwritten \cup {w \in Writers : w = "engine" => Listens} \X {t}
    /\ UNCHANGED <<influx, added, due, engine, files, scripts, faults>>

\* Either of them writes it, with the time of the close, once its client gets to it;
\* the engine only after the training that a streak of losses starts.
WriteOutcome(w, t) ==
    /\ <<w, t>> \in unwritten /\ unwritten' = unwritten \ {<<w, t>>}
    /\ influx' = influx \cup {t} /\ due' = due \ {t}
    /\ UNCHANGED <<closed, added, engine, files, scripts, faults>>

\* Lucky and flat trades are refused.
Refused(p) == p > 500 \/ (p < 1 /\ p > -1)

\* The MAE/MFE listener adds it half an hour later.
Add(t) ==
    /\ eng = "up" /\ t \in Known \ added
    /\ added' = added \cup {t}
    /\ ram' = IF Refused(closed[t].pnl) THEN ram
              ELSE [vectors |-> Append(ram.vectors, t), meta |-> Append(ram.meta, t)]
    /\ UNCHANGED <<closed, outcomes, due, eng, persisted, files, scripts, faults>>

\* Mutant: vectors without an entry are cut off at the front.
LoadedRepaired(vectors, meta) ==
    [vectors |-> IF Len(vectors) > Len(meta)
                 THEN SubSeq(vectors, Len(vectors) - Len(meta) + 1, Len(vectors))
                 ELSE vectors,
     meta |-> meta]

\* Whatever the files hold, each by itself; a missing one is empty.
Loaded(vectors, meta) == [vectors |-> vectors, meta |-> meta]

\* Mutants: a torn file is taken for an empty one; a missing file is an error.
UnreadableNever(f) == FALSE
UnreadableMissing(f) == f.state # "ok"

\* A torn file ends the start of the engine, until a later start finds it whole.
Unreadable(f) == f.state = "torn"

Boot ==
    /\ eng = "down" /\ ~Unreadable(files.index)
    /\ ram' = [EmptyMemory EXCEPT !.vectors = files.index.data]
    /\ eng' = "boot"
    /\ UNCHANGED <<trading, persisted, files, scripts, faults>>

BootMetadata ==
    /\ eng = "boot"
    /\ IF Unreadable(files.meta)
       THEN ram' = EmptyMemory /\ eng' = "down"
       ELSE ram' = Loaded(ram.vectors, files.meta.data) /\ eng' = "up"
    /\ UNCHANGED <<trading, persisted, files, scripts, faults>>

\* At every interval, also when nothing has been added.
PersistStart ==
    /\ eng = "up" /\ eng' = "index open"
    /\ files' = [files EXCEPT !.index = Torn]
    /\ UNCHANGED <<trading, ram, persisted, scripts, faults>>

\* A file deleted while it was open stays deleted.
Written(f, s) == IF f.state = "missing" THEN f ELSE File(s)

PersistIndex ==
    /\ eng = "index open" /\ eng' = "metadata"
    /\ files' = [files EXCEPT !.index = Written(@, ram.vectors)]
    /\ UNCHANGED <<trading, ram, persisted, scripts, faults>>

OpenMetadata ==
    /\ eng = "metadata" /\ eng' = "metadata open"
    /\ files' = [files EXCEPT !.meta = Torn]
    /\ UNCHANGED <<trading, ram, persisted, scripts, faults>>

PersistMetadata ==
    /\ eng = "metadata open" /\ eng' = "up"
    /\ files' = [files EXCEPT !.meta = Written(@, ram.meta)]
    /\ persisted' = Range(ram.meta)
    /\ UNCHANGED <<trading, ram, scripts, faults>>

\* Anywhere: between the two files, with one of them half written, with trades added
\* since the last persist, or before an outcome is written.
Crash ==
    /\ eng # "down" /\ Fault
    /\ eng' = "down" /\ ram' = EmptyMemory
    /\ unwritten' = {x \in unwritten : x[1] # "engine"}
    /\ UNCHANGED <<closed, influx, added, due, persisted, files, scripts>>
-----------------------------------------------------------------------------
(***************************************************************************)
(* The scripts, one at a time                                              *)
(***************************************************************************)
At(l) == script' = [script EXCEPT !.pc = l]
Ends == script' = NoScript

Starts(kind, l, known) ==
    /\ script.pc = "idle" /\ runs < MaxScripts /\ runs' = runs + 1
    /\ script' = [NoScript EXCEPT !.pc = l, !.kind = kind, !.known = known]
    /\ UNCHANGED <<closed, influx, unwritten, added, engine, files, touched, faults>>

\* The trades of the range that --since opens and the start of the script closes.
InRange(since) == {t \in Known : t >= since}

\* backfill_faiss queries all outcomes and stops without any.
StartScript ==
    \/ /\ \/ \E kind \in {"clean", "balance"} : Starts(kind, "read metadata", {})
          \/ influx # {} /\ Starts("backfill", "load index", influx)
       /\ UNCHANGED <<due, flushed>>
    \/ \E since \in Trades :
          /\ Starts("flush", "influx", InRange(since))
          /\ due' = InRange(since) /\ flushed' = FALSE

\* A missing or torn file ends the script before it has written anything.
ReadMetadata ==
    /\ script.pc = "read metadata"
    /\ IF files.meta.state = "ok"
       THEN script' = [script EXCEPT !.pc = "read index", !.meta = files.meta.data]
       ELSE Ends
    /\ UNCHANGED <<trading, engine, files, runs, touched, flushed, faults>>

Chosen(m) ==
    LET dir == [i \in DOMAIN m |-> closed[m[i]].dir]
        pnl == [i \in DOMAIN m |-> closed[m[i]].pnl]
    IN IF script.kind = "clean" THEN Clean(dir, pnl) ELSE Balance(dir, pnl)

\* The entries in the order of the choice, their vectors in the order of the index.
\* An entry without a vector ends the script, and clean_faiss without an entry too.
ReadIndex ==
    /\ script.pc = "read index"
    /\ LET m == script.meta
           v == files.index.data
           pick == Chosen(m)
           order == Ascending(Range(pick))
       IN IF files.index.state = "ok" /\ Range(pick) \subseteq DOMAIN v
             /\ (script.kind = "clean" => pick # <<>>)
          THEN script' = [script EXCEPT !.pc = "index",
                            !.meta = [n \in DOMAIN pick |-> m[pick[n]]],
                            !.vectors = [n \in DOMAIN order |-> v[order[n]]]]
          ELSE Ends
    /\ UNCHANGED <<trading, engine, files, runs, touched, flushed, faults>>

\* backfill_faiss then opens the memory as the engine does ...
LoadIndex ==
    /\ script.pc = "load index"
    /\ IF Unreadable(files.index) THEN Ends
       ELSE script' = [script EXCEPT !.pc = "load metadata", !.vectors = files.index.data]
    /\ UNCHANGED <<trading, engine, files, runs, touched, flushed, faults>>

\* ... and adds every outcome of InfluxDB, also those the memory has already.
LoadMetadata ==
    /\ script.pc = "load metadata"
    /\ LET accepted == {t \in script.known : ~Refused(closed[t].pnl)}
           new == Ascending(accepted)
       IN IF Unreadable(files.meta) THEN Ends
          ELSE script' = [script EXCEPT !.pc = "index", !.vectors = @ \o new,
                                        !.meta = files.meta.data \o new]
    /\ UNCHANGED <<trading, engine, files, runs, touched, flushed, faults>>

ScriptWrites ==
    /\ \/ /\ script.pc = "index" /\ At("index open")
          /\ files' = [files EXCEPT !.index = Torn]
       \/ /\ script.pc = "index open" /\ At("metadata")
          /\ files' = [files EXCEPT !.index = File(script.vectors)]
       \/ /\ script.pc = "metadata" /\ At("metadata open")
          /\ files' = [files EXCEPT !.meta = Torn]
       \/ /\ script.pc = "metadata open" /\ Ends
          /\ files' = [files EXCEPT !.meta = File(script.meta)]
    /\ touched' = TRUE
    /\ UNCHANGED <<trading, engine, runs, flushed, faults>>

\* Mutants: a delete that has timed out is taken for done; one retry too many.
AfterTimeout == {[script EXCEPT !.pc = "redis"]}
AfterErrorOneMore ==
    {NoScript} \cup {[script EXCEPT !.attempt = a] : a \in {script.attempt + 1} \cap 1..4}

\* A timeout or a lost connection is retried twice, then the script ends with code 3,
\* as it does at once on any other error.
AfterError ==
    {NoScript} \cup {[script EXCEPT !.attempt = a] : a \in {script.attempt + 1} \cap 1..3}

\* Whatever InfluxDB then has of the range; an error may come before or after that.
DeleteOutcomes ==
    /\ script.pc = "influx"
    /\ \/ influx' = influx \ script.known /\ At("redis")
       \/ influx' \in {influx, influx \ script.known} /\ script' \in AfterError
    /\ UNCHANGED <<closed, unwritten, added, due, engine, files, runs, touched, flushed, faults>>

\* Deletes nothing modelled here; an error ends the script with code 4.
FlushRedis ==
    /\ script.pc = "redis"
    /\ (At("unlink index") \/ Ends)
    /\ UNCHANGED <<trading, engine, files, runs, touched, flushed, faults>>

Unlink ==
    /\ \/ /\ script.pc = "unlink index" /\ At("unlink metadata")
          /\ files' = [files EXCEPT !.index = Missing]
          /\ UNCHANGED flushed
       \/ /\ script.pc = "unlink metadata" /\ Ends
          /\ files' = [files EXCEPT !.meta = Missing]
          /\ flushed' = TRUE
    /\ touched' = TRUE
    /\ UNCHANGED <<trading, engine, runs, faults>>

ScriptDies ==
    /\ script.pc # "idle" /\ Fault /\ Ends
    /\ UNCHANGED <<trading, engine, files, runs, touched, flushed>>
-----------------------------------------------------------------------------
Persist == PersistStart \/ PersistIndex \/ OpenMetadata \/ PersistMetadata
ScriptStep ==
    \/ ReadMetadata \/ ReadIndex \/ LoadIndex \/ LoadMetadata \/ ScriptWrites
    \/ DeleteOutcomes \/ FlushRedis \/ Unlink

Next ==
    \/ \E t \in Trades : Close(t) \/ Add(t) \/ \E w \in Writers : WriteOutcome(w, t)
    \/ Boot \/ BootMetadata \/ Persist \/ Crash
    \/ StartScript \/ ScriptStep \/ ScriptDies

Spec == Init /\ [][Next]_vars

\* The container is restarted until the engine starts, and a script that runs goes on.
FairSpec == Spec /\ WF_vars(Boot) /\ WF_vars(BootMetadata) /\ WF_vars(Persist)
                 /\ WF_vars(ScriptStep)
-----------------------------------------------------------------------------
(***************************************************************************)
(* Properties                                                              *)
(***************************************************************************)
\* Until a script has written or deleted a file, crashes of the engine leave the
\* vectors and the metadata either paired or of different lengths, however they fall
\* between memory.py's two writes: a look at the lengths shows the damage.
MismatchIsVisible ==
    ~touched /\ eng # "boot" /\ Len(ram.vectors) = Len(ram.meta)
        => ram.vectors = ram.meta

\* Nor do they take a trade from an engine that has started which it had persisted:
\* with a file half written it does not start.
PersistedSurvives ==
    ~touched /\ eng \notin {"down", "boot"} => persisted \subseteq Range(ram.meta)

\* After flush_dirty_data has run to its end, also over timeouts and retries, no
\* outcome of its range is left for backfill_faiss to bring back, but those that the
\* OMS or the engine, after its training, has written since the flush started.
OutcomesStayFlushed == flushed => due \cap influx = {}

\* The engine starts again, unless a writer has died and left a file half written.
EngineReturns ==
    eng = "down" ~> \/ eng = "up"
                    \/ script.pc = "idle" /\ "torn" \in {files.index.state, files.meta.state}

\* What a rebalancing script chooses, for every memory of up to four entries (a
\* loss below -0.5, one below -0.05, a gain, and one above 0.15): no entry
\* twice, and a side that is larger than twice the other only if the other is empty.
RebalanceCorrect == runs = 0 /\ faults = 0 /\ eng = "down" /\ closed = <<>> =>
    \A n \in 0..4 : \A dir \in [1..n -> Directions], pnl \in [1..n -> {-600, -60, 40, 200}] :
        \A pick \in {Clean(dir, pnl), Balance(dir, pnl)} :
            LET side(d) == Cardinality({i \in DOMAIN pick : dir[pick[i]] = d})
                l == side("LONG")
                s == side("SHORT")
            IN /\ Cardinality(Range(pick)) = Len(pick)
               /\ l > 0 /\ s > 0 => l <= 2 * s /\ s <= 2 * l
=============================================================================
