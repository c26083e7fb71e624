----------------------- MODULE ExperienceMemoryProofs -----------------------
(***************************************************************************)
(* What ExperienceMemory promises for any number of trades, scripts and    *)
(* crashes: a pair of files that only the engine has written is paired or  *)
(* shows by its lengths that it is not, a persisted trade survives, and    *)
(* a flush that ends leaves no outcome of its range that was written       *)
(* before it started.                                                      *)
(***************************************************************************)
EXTENDS ExperienceMemory, FiniteSetTheorems, FunctionTheorems, TLAPS

Prefix(p, s) == Len(p) <= Len(s) /\ \A i \in 1..Len(p) : p[i] = s[i]

\* Paired, or told apart by their lengths: vectors are written first.
Paired(v, m) == v = m \/ Len(v) > Len(m)

LEMMA PairedLonger ==
    ASSUME NEW S, NEW v \in Seq(S), NEW m \in Seq(S), NEW old \in Seq(S),
           Paired(v, m), Prefix(old, m)
    PROVE  Paired(v, old)
<1>1. CASE Len(v) > Len(m)
  BY <1>1 DEF Paired, Prefix
<1>2. CASE v = m /\ Len(old) < Len(m)
  BY <1>2 DEF Paired
<1>3. CASE v = m /\ Len(old) = Len(m)
  <2>1. old = m
    BY <1>3 DEF Prefix
  <2> QED
    BY <1>3, <2>1 DEF Paired
<1> QED
  BY <1>1, <1>2, <1>3 DEF Paired, Prefix

LEMMA AppendKeeps ==
    ASSUME NEW S, NEW v \in Seq(S), NEW m \in Seq(S), NEW p \in Seq(S), NEW t \in S
    PROVE  /\ Paired(v, m) => Paired(Append(v, t), Append(m, t))
           /\ Prefix(p, m) => Prefix(p, Append(m, t))
           /\ Range(m) \subseteq Range(Append(m, t))
<1>1. Paired(v, m) => Paired(Append(v, t), Append(m, t))
  BY DEF Paired
<1>2. Prefix(p, m) => Prefix(p, Append(m, t))
  BY DEF Prefix
<1>3. Range(m) \subseteq Range(Append(m, t))
  <2> SUFFICES ASSUME NEW i \in DOMAIN m PROVE m[i] \in Range(Append(m, t))
    BY DEF Range
  <2>1. i \in DOMAIN Append(m, t) /\ Append(m, t)[i] = m[i]
    OBVIOUS
  <2> QED
    BY <2>1 DEF Range
<1> QED
  BY <1>1, <1>2, <1>3
-----------------------------------------------------------------------------
(***************************************************************************)
(* The files as long as no script has touched them                         *)
(***************************************************************************)
Running == eng \in {"up", "index open", "metadata", "metadata open"}

\* Types of what the engine and its files hold.
Held ==
    /\ ram.vectors \in Seq(Trades) /\ ram.meta \in Seq(Trades)
    /\ ram = [vectors |-> ram.vectors, meta |-> ram.meta]
    /\ files.index.data \in Seq(Trades) /\ files.meta.data \in Seq(Trades)
    /\ files = [index |-> files.index, meta |-> files.meta]

\* Where the engine is in its writes.
Writing ==
    /\ eng = "boot" => files.index.state # "torn" /\ ram.vectors = files.index.data
    /\ eng = "index open" => files.index.state = "torn"
    /\ eng \in {"metadata", "metadata open"} => ram.vectors = files.index.data
    /\ eng = "metadata open" => files.meta.state = "torn"

\* The entries on disk are a beginning of those in memory, and vectors are never fewer
\* than entries.
Matched ==
    /\ eng # "boot" => Paired(ram.vectors, ram.meta)
    /\ files.index.state # "torn" /\ files.meta.state # "torn" =>
         Paired(files.index.data, files.meta.data)
    /\ Running => Prefix(files.meta.data, ram.meta)

Kept ==
    /\ files.meta.state # "torn" => persisted \subseteq Range(files.meta.data)
    /\ Running => persisted \subseteq Range(ram.meta)

Intact == ~touched => Held /\ Writing /\ Matched /\ Kept

LEMMA IntactInit == Init => Intact
<1> SUFFICES ASSUME Init PROVE Held /\ Writing /\ Matched /\ Kept
  BY DEF Intact
<1>1. ram = EmptyMemory /\ eng = "down" /\ files.index = Missing /\ files.meta = Missing
      /\ files = [index |-> files.index, meta |-> files.meta] /\ persisted = {}
  BY DEF Init
<1>2. Held
  BY <1>1 DEF Held, EmptyMemory, Missing
<1>3. Writing /\ Matched /\ Kept
  BY <1>1 DEF Writing, Matched, Kept, Running, Paired, EmptyMemory, Missing
<1> QED
  BY <1>2, <1>3

\* Steps that touch neither the engine nor its files.
LEMMA OthersKeepIntact ==
    ASSUME Intact, UNCHANGED <<ram, eng, persisted, files, touched>>
    PROVE  Intact'
  BY DEF Intact, Held, Writing, Matched, Kept, Running

LEMMA AddKeepsIntact == ASSUME Intact, NEW t \in Trades, Add(t) PROVE Intact'
<1> SUFFICES ASSUME ~touched PROVE (Held /\ Writing /\ Matched /\ Kept)'
  BY DEF Add, Intact, scripts
<1>1. /\ eng = "up" /\ UNCHANGED <<eng, persisted, files>>
      /\ Held /\ Writing /\ Matched /\ Kept
  BY DEF Add, Intact
<1>2. CASE ram' = ram
  BY <1>1, <1>2 DEF Held, Writing, Matched, Kept, Running
<1>3. CASE ram' = [vectors |-> Append(ram.vectors, t), meta |-> Append(ram.meta, t)]
  <2>1. ram'.vectors = Append(ram.vectors, t) /\ ram'.meta = Append(ram.meta, t)
    BY <1>3
  <2>2. ram.vectors \in Seq(Trades) /\ ram.meta \in Seq(Trades) /\ files.meta.data \in Seq(Trades)
    BY <1>1 DEF Held
  <2>3. /\ Paired(ram'.vectors, ram'.meta) /\ Prefix(files.meta.data, ram'.meta)
        /\ Range(ram.meta) \subseteq Range(ram'.meta)
    BY <1>1, <2>1, <2>2, AppendKeeps DEF Matched, Running
  <2>4. Held'
    BY <1>1, <1>3, <2>1, <2>2 DEF Held
  <2> QED
    BY <1>1, <2>3, <2>4 DEF Writing, Matched, Kept, Running
<1> QED
  BY <1>2, <1>3 DEF Add

LEMMA BootKeepsIntact == Intact /\ Boot => Intact'
<1> SUFFICES ASSUME Intact, Boot, ~touched PROVE (Held /\ Writing /\ Matched /\ Kept)'
  BY DEF Boot, Intact, scripts
<1>1. /\ Held /\ Writing /\ Matched /\ Kept
      /\ files.index.state # "torn" /\ eng' = "boot" /\ UNCHANGED <<persisted, files>>
      /\ ram' = [vectors |-> files.index.data, meta |-> <<>>]
  BY DEF Boot, Intact, Unreadable, EmptyMemory
<1>2. Held'
  BY <1>1 DEF Held
<1>3. Writing'
  BY <1>1 DEF Held, Writing
<1>4. Matched'
  BY <1>1 DEF Matched, Running
<1>5. Kept'
  BY <1>1 DEF Kept, Running
<1> QED
  BY <1>2, <1>3, <1>4, <1>5

LEMMA BootMetadataKeepsIntact == Intact /\ BootMetadata => Intact'
<1> SUFFICES ASSUME Intact, BootMetadata, ~touched PROVE (Held /\ Writing /\ Matched /\ Kept)'
  BY DEF BootMetadata, Intact, scripts
<1>1. Held /\ Writing /\ Matched /\ Kept /\ eng = "boot" /\ UNCHANGED <<persisted, files>>
  BY DEF BootMetadata, Intact
<1>2. CASE files.meta.state = "torn"
  <2>1. ram' = EmptyMemory /\ eng' = "down"
    BY <1>2 DEF BootMetadata, Unreadable
  <2> QED
    BY <1>1, <2>1 DEF Held, Writing, Matched, Kept, Running, EmptyMemory, Paired
<1>3. CASE files.meta.state # "torn"
  <2>1. ram' = [vectors |-> files.index.data, meta |-> files.meta.data] /\ eng' = "up"
    BY <1>1, <1>3 DEF BootMetadata, Unreadable, Loaded, Writing
  <2>2. Prefix(files.meta.data, files.meta.data)
    BY <1>1 DEF Held, Prefix
  <2> QED
    BY <1>1, <1>3, <2>1, <2>2 DEF Held, Writing, Matched, Kept, Running
<1> QED
  BY <1>2, <1>3

LEMMA TornHeld == Torn.data \in Seq(Trades) /\ Torn.data = <<>> /\ Torn.state = "torn"
  BY DEF Torn

LEMMA PersistKeepsIntact == Intact /\ Persist => Intact'
<1> SUFFICES ASSUME Intact, Persist PROVE Intact'
  OBVIOUS
<1>0. UNCHANGED scripts
  BY DEF Persist, PersistStart, PersistIndex, OpenMetadata, PersistMetadata
<1> SUFFICES ASSUME ~touched PROVE (Held /\ Writing /\ Matched /\ Kept)'
  BY <1>0 DEF Intact, scripts
<1>1. Held /\ Writing /\ Matched /\ Kept /\ ram' = ram
  BY DEF Intact, Persist, PersistStart, PersistIndex, OpenMetadata, PersistMetadata
<1>2. /\ ram.vectors \in Seq(Trades) /\ ram.meta \in Seq(Trades)
      /\ files.index.data \in Seq(Trades) /\ files.meta.data \in Seq(Trades)
      /\ files = [index |-> files.index, meta |-> files.meta]
  BY <1>1 DEF Held
<1>3. CASE PersistStart
  <2>1. /\ eng' = "index open" /\ eng = "up" /\ persisted' = persisted
        /\ files' = [index |-> Torn, meta |-> files.meta]
    BY <1>2, <1>3 DEF PersistStart
  <2>2. Held'
    BY <1>1, <1>2, <2>1, TornHeld DEF Held
  <2>3. Writing'
    BY <1>1, <1>2, <2>1 DEF Writing, Torn
  <2>4. Matched'
    BY <1>1, <1>2, <2>1 DEF Matched, Running, Torn
  <2>5. Kept'
    BY <1>1, <1>2, <2>1 DEF Kept, Running
  <2> QED
    BY <2>2, <2>3, <2>4, <2>5
<1>4. CASE PersistIndex
  <2>1. files.index.state = "torn"
    BY <1>1, <1>4 DEF PersistIndex, Writing
  <2>2. /\ eng' = "metadata" /\ eng = "index open" /\ persisted' = persisted
        /\ files' = [index |-> File(ram.vectors), meta |-> files.meta]
    BY <1>2, <1>4, <2>1 DEF PersistIndex, Written
  <2>3. Paired(ram.vectors, files.meta.data)
    BY <1>1, <1>2, <2>2, PairedLonger DEF Matched, Running
  <2>4. Held'
    BY <1>1, <1>2, <2>2, <2>3 DEF Held, File
  <2>5. Writing'
    BY <1>1, <1>2, <2>2, <2>3 DEF Writing, File
  <2>6. Matched'
    BY <1>1, <1>2, <2>2, <2>3 DEF Matched, Running, File
  <2>7. Kept'
    BY <1>1, <1>2, <2>2, <2>3 DEF Kept, Running
  <2> QED
    BY <2>4, <2>5, <2>6, <2>7
<1>5. CASE OpenMetadata
  <2>1. /\ eng' = "metadata open" /\ eng = "metadata" /\ persisted' = persisted
        /\ files' = [index |-> files.index, meta |-> Torn]
    BY <1>2, <1>5 DEF OpenMetadata
  <2>2. Prefix(<<>>, ram.meta)
    BY <1>2 DEF Prefix
  <2>3. Held'
    BY <1>1, <1>2, <2>1, <2>2, TornHeld DEF Held
  <2>4. Writing'
    BY <1>1, <1>2, <2>1, <2>2 DEF Writing, Torn
  <2>5. Matched'
    BY <1>1, <1>2, <2>1, <2>2 DEF Matched, Running, Torn
  <2>6. Kept'
    BY <1>1, <1>2, <2>1, <2>2 DEF Kept, Running, Torn
  <2> QED
    BY <2>3, <2>4, <2>5, <2>6
<1>6. CASE PersistMetadata
  <2>1. files.meta.state = "torn"
    BY <1>1, <1>6 DEF PersistMetadata, Writing
  <2>2. /\ eng' = "up" /\ eng = "metadata open" /\ persisted' = Range(ram.meta)
        /\ files' = [index |-> files.index, meta |-> File(ram.meta)]
    BY <1>2, <1>6, <2>1 DEF PersistMetadata, Written
  <2>3. Prefix(ram.meta, ram.meta)
    BY <1>2 DEF Prefix
  <2>4. Held'
    BY <1>1, <1>2, <2>2, <2>3 DEF Held, File
  <2>5. Writing'
    BY <1>1, <1>2, <2>2, <2>3 DEF Writing, File
  <2>6. Matched'
    BY <1>1, <1>2, <2>2, <2>3 DEF Writing, Matched, Running, File
  <2>7. Kept'
    BY <1>1, <1>2, <2>2, <2>3 DEF Kept, Running, File
  <2> QED
    BY <2>4, <2>5, <2>6, <2>7
<1> QED
  BY <1>3, <1>4, <1>5, <1>6 DEF Persist

LEMMA CrashKeepsIntact == Intact /\ Crash => Intact'
<1> SUFFICES ASSUME Intact, Crash, ~touched PROVE (Held /\ Writing /\ Matched /\ Kept)'
  BY DEF Crash, Intact, scripts
<1>1. /\ Held /\ Writing /\ Matched /\ Kept /\ eng' = "down" /\ ram' = EmptyMemory
      /\ UNCHANGED <<persisted, files>>
  BY DEF Crash, Intact
<1>2. ram'.vectors = <<>> /\ ram'.meta = <<>> /\ ram' = [vectors |-> <<>>, meta |-> <<>>]
  BY <1>1 DEF EmptyMemory
<1>3. Held'
  BY <1>1, <1>2 DEF Held
<1>4. Writing'
  BY <1>1, <1>2 DEF Writing
<1>5. Matched'
  BY <1>1, <1>2 DEF Matched, Running, Paired
<1>6. Kept'
  BY <1>1, <1>2 DEF Kept, Running
<1> QED
  BY <1>3, <1>4, <1>5, <1>6

LEMMA IntactStep == Intact /\ [Next]_vars => Intact'
<1> SUFFICES ASSUME Intact, [Next]_vars PROVE Intact'
  OBVIOUS
<1>1. CASE \E t \in Trades : Close(t) \/ Add(t) \/ \E w \in Writers : WriteOutcome(w, t)
  <2>1. ASSUME NEW t \in Trades, Close(t) \/ \E w \in Writers : WriteOutcome(w, t) PROVE Intact'
    BY <2>1, OthersKeepIntact DEF Close, WriteOutcome, engine, scripts
  <2> QED
    BY <1>1, <2>1, AddKeepsIntact
<1>2. CASE Boot \/ BootMetadata \/ Persist \/ Crash
  BY <1>2, BootKeepsIntact, BootMetadataKeepsIntact, PersistKeepsIntact, CrashKeepsIntact
<1>3. CASE StartScript \/ ScriptDies
  BY <1>3, OthersKeepIntact DEF StartScript, Starts, ScriptDies, engine
<1>4. CASE ReadMetadata \/ ReadIndex \/ LoadIndex \/ LoadMetadata \/ DeleteOutcomes \/ FlushRedis
  <2>1. UNCHANGED <<ram, eng, persisted, files, touched>>
    BY <1>4
    DEF ReadMetadata, ReadIndex, LoadIndex, LoadMetadata, DeleteOutcomes, FlushRedis, engine
  <2> QED
    BY <2>1, OthersKeepIntact
<1>5. CASE ScriptWrites \/ Unlink
  BY <1>5 DEF ScriptWrites, Unlink, Intact
<1>6. CASE UNCHANGED vars
  BY <1>6, OthersKeepIntact DEF vars, engine, scripts
<1> QED
  BY <1>1, <1>2, <1>3, <1>4, <1>5, <1>6 DEF Next, ScriptStep

\* After crashes of the engine alone, wherever they fall between the two writes of
\* memory.py's persist, vectors and metadata are paired or differ in length.
THEOREM DamageIsVisible == Spec => []MismatchIsVisible
<1>1. Intact => MismatchIsVisible
  BY DEF Intact, Held, Matched, Paired, MismatchIsVisible
<1> QED
  BY <1>1, IntactInit, IntactStep, PTL DEF Spec

\* An engine that has started has every trade of the last complete persist.
THEOREM NothingPersistedIsLost == Spec => []PersistedSurvives
<1>1. Intact => (eng \in EngineLabels => PersistedSurvives)
  BY DEF Intact, Kept, Running, EngineLabels, PersistedSurvives
<1>2. Init => eng \in EngineLabels
  BY DEF Init, EngineLabels
<1>3. eng \in EngineLabels /\ [Next]_vars => (eng \in EngineLabels)'
  BY DEF Next, Close, WriteOutcome, Add, Boot, BootMetadata, Persist, PersistStart, PersistIndex, OpenMetadata,
         PersistMetadata, Crash, StartScript, Starts, ScriptStep, ReadMetadata, ReadIndex, LoadIndex,
         LoadMetadata, ScriptWrites, DeleteOutcomes, FlushRedis, Unlink, ScriptDies, EngineLabels,
         engine, vars
<1> QED
  BY <1>1, <1>2, <1>3, IntactInit, IntactStep, PTL DEF Spec
-----------------------------------------------------------------------------
(***************************************************************************)
(* What a flush deletes                                                    *)
(***************************************************************************)
Fields == {"pc", "kind", "vectors", "meta", "attempt", "known"}
Deleted == script.pc \in {"redis", "unlink index", "unlink metadata"}
NoneDue == due \cap influx = {}

\* Until the delete has succeeded, what is due is part of what it deletes.
FlushInv ==
    /\ DOMAIN script = Fields
    /\ script.pc = "influx" => due \subseteq script.known
    /\ Deleted \/ flushed => NoneDue

\* A step of the script that deletes nothing and flushes nothing.
LEMMA ScriptKeeps ==
    ASSUME FlushInv, UNCHANGED <<influx, due, flushed>>, DOMAIN script' = Fields,
           script'.pc # "influx", Deleted' => Deleted
    PROVE  FlushInv'
  BY DEF FlushInv, NoneDue, Deleted

LEMMA NoScriptFields == DOMAIN NoScript = Fields /\ NoScript.pc = "idle"
  BY DEF NoScript, Fields

LEMMA EndsKeeps == ASSUME FlushInv, Ends, UNCHANGED <<influx, due, flushed>> PROVE FlushInv'
  BY ScriptKeeps, NoScriptFields DEF Ends, Deleted

LEMMA FlushInit == Init => FlushInv
  BY NoScriptFields DEF Init, FlushInv, NoneDue, Deleted

\* Only flush_dirty_data comes to the delete, with the range that is due.
LEMMA StartKeepsFlush == ASSUME FlushInv, StartScript PROVE FlushInv'
<1>1. ASSUME NEW kind, NEW l, NEW known, Starts(kind, l, known)
      PROVE  DOMAIN script' = Fields /\ script'.known = known /\ script'.pc = l
             /\ influx' = influx
  BY <1>1, NoScriptFields DEF Starts, NoScript, Fields
<1>2. CASE /\ \/ \E kind \in {"clean", "balance"} : Starts(kind, "read metadata", {})
              \/ influx # {} /\ Starts("backfill", "load index", influx)
           /\ UNCHANGED <<due, flushed>>
  <2>1. DOMAIN script' = Fields /\ influx' = influx /\ script'.pc \in {"read metadata", "load index"}
    <3>1. CASE Starts("clean", "read metadata", {})
      BY <1>1, <3>1
    <3>2. CASE Starts("balance", "read metadata", {})
      BY <1>1, <3>2
    <3>3. CASE Starts("backfill", "load index", influx)
      BY <1>1, <3>3
    <3> QED
      BY <1>2, <3>1, <3>2, <3>3
  <2> QED
    BY <1>2, <2>1, ScriptKeeps DEF Deleted
<1>3. CASE \E since \in Trades :
             /\ Starts("flush", "influx", InRange(since))
             /\ due' = InRange(since) /\ flushed' = FALSE
  <2>1. PICK since \in Trades :
          Starts("flush", "influx", InRange(since)) /\ due' = InRange(since) /\ flushed' = FALSE
    BY <1>3
  <2>2. DOMAIN script' = Fields /\ script'.known = InRange(since) /\ script'.pc = "influx"
    BY <1>1, <2>1
  <2> QED
    BY <2>1, <2>2 DEF FlushInv, Deleted
<1> QED
  BY <1>2, <1>3 DEF StartScript

LEMMA DeleteKeepsFlush == ASSUME FlushInv, DeleteOutcomes PROVE FlushInv'
<1>1. /\ script.pc = "influx" /\ influx' \subseteq influx /\ UNCHANGED <<due, flushed>>
      /\ \/ influx' = influx \ script.known /\ At("redis")
         \/ script' = NoScript
         \/ \E a \in 1..3 : script' = [script EXCEPT !.attempt = a]
  BY DEF DeleteOutcomes, AfterError
<1>2. CASE influx' = influx \ script.known /\ At("redis")
  <2>1. DOMAIN script' = Fields /\ script'.pc = "redis"
    BY <1>2 DEF At, FlushInv, Fields
  <2> QED
    BY <1>1, <1>2, <2>1 DEF FlushInv, NoneDue
<1>3. CASE script' = NoScript
  BY <1>1, <1>3, NoScriptFields DEF FlushInv, NoneDue, Deleted
<1>4. CASE \E a \in 1..3 : script' = [script EXCEPT !.attempt = a]
  <2>1. DOMAIN script' = Fields /\ script'.known = script.known /\ script'.pc = script.pc
    BY <1>4 DEF FlushInv, Fields
  <2> QED
    BY <1>1, <2>1 DEF FlushInv, NoneDue, Deleted
<1> QED
  BY <1>1, <1>2, <1>3, <1>4

LEMMA FlushStep == FlushInv /\ [Next]_vars => FlushInv'
<1> SUFFICES ASSUME FlushInv, [Next]_vars PROVE FlushInv'
  OBVIOUS
<1>1. ASSUME UNCHANGED <<influx, due, script, flushed>> PROVE FlushInv'
  BY <1>1 DEF FlushInv, NoneDue, Deleted
<1>2. CASE \E t \in Trades : Close(t) \/ Add(t)
  BY <1>1, <1>2 DEF Close, Add, outcomes, scripts
<1>3. ASSUME NEW w \in Writers, NEW t \in Trades, WriteOutcome(w, t) PROVE FlushInv'
  BY <1>3 DEF WriteOutcome, scripts, FlushInv, NoneDue, Deleted
<1>4. CASE Boot \/ BootMetadata \/ Persist \/ Crash
  BY <1>1, <1>4 DEF Boot, BootMetadata, Persist, PersistStart, PersistIndex, OpenMetadata,
                    PersistMetadata, Crash, trading, outcomes, scripts
<1>5. CASE StartScript
  BY <1>5, StartKeepsFlush
<1>6. CASE ScriptDies
  BY <1>6, EndsKeeps DEF ScriptDies, trading, outcomes
<1>7. CASE ReadMetadata \/ ReadIndex \/ LoadIndex \/ LoadMetadata \/ ScriptWrites
  <2>1. UNCHANGED <<influx, due, flushed>>
    BY <1>7 DEF ReadMetadata, ReadIndex, LoadIndex, LoadMetadata, ScriptWrites, trading, outcomes
  <2>2. CASE Ends
    BY <2>1, <2>2, EndsKeeps
  <2>3. CASE ~Ends
    <3>1. /\ DOMAIN script' = Fields
          /\ script'.pc \in {"read index", "index", "load metadata",
                             "index open", "metadata", "metadata open"}
      BY <1>7, <2>3
      DEF ReadMetadata, ReadIndex, LoadIndex, LoadMetadata, ScriptWrites, At, FlushInv, Fields
    <3> QED
      BY <2>1, <3>1, ScriptKeeps DEF Deleted
  <2> QED
    BY <2>2, <2>3
<1>8. CASE DeleteOutcomes
  BY <1>8, DeleteKeepsFlush
<1>9. CASE FlushRedis
  <2>1. UNCHANGED <<influx, due, flushed>> /\ (At("unlink index") \/ Ends) /\ Deleted
    BY <1>9 DEF FlushRedis, trading, outcomes, Deleted
  <2>2. CASE At("unlink index")
    <3>1. DOMAIN script' = Fields /\ script'.pc = "unlink index"
      BY <2>2 DEF At, FlushInv, Fields
    <3> QED
      BY <2>1, <3>1, ScriptKeeps
  <2> QED
    BY <2>1, <2>2, EndsKeeps
<1>10. CASE Unlink
  <2>1. Deleted /\ UNCHANGED <<influx, due>>
    BY <1>10 DEF Unlink, Deleted, trading, outcomes
  <2>2. CASE script.pc = "unlink index"
    <3>1. DOMAIN script' = Fields /\ script'.pc = "unlink metadata" /\ flushed' = flushed
      BY <1>10, <2>2 DEF Unlink, At, FlushInv, Fields
    <3> QED
      BY <2>1, <3>1, ScriptKeeps
  <2>3. CASE script.pc = "unlink metadata"
    <3>1. script' = NoScript
      BY <1>10, <2>3 DEF Unlink, Ends
    <3> QED
      BY <2>1, <3>1, NoScriptFields DEF FlushInv, NoneDue, Deleted
  <2> QED
    BY <1>10, <2>2, <2>3 DEF Unlink
<1>11. CASE UNCHANGED vars
  BY <1>1, <1>11 DEF vars, trading, outcomes, scripts
<1> QED
  BY <1>2, <1>3, <1>4, <1>5, <1>6, <1>7, <1>8, <1>9, <1>10, <1>11 DEF Next, ScriptStep

\* After flush_dirty_data has come to its end, over whatever timeouts, retries and
\* crashes, InfluxDB has no outcome of the script's range but those that the OMS or
\* the engine has written since the script started.
THEOREM FlushedStayFlushed == Spec => []OutcomesStayFlushed
<1>1. FlushInv => OutcomesStayFlushed
  BY DEF FlushInv, NoneDue, OutcomesStayFlushed
<1> QED
  BY <1>1, FlushInit, FlushStep, PTL DEF Spec
-----------------------------------------------------------------------------
(***************************************************************************)
(* What the rebalancing scripts choose                                     *)
(***************************************************************************)
\* In a finite set with a strict order, given as the elements before each, every rank
\* is taken by one element.
LEMMA Ranks ==
    ASSUME NEW S, IsFiniteSet(S), NEW before \in [S -> SUBSET S],
           \A i \in S : i \notin before[i],
           \A i, j \in S : i = j \/ i \in before[j] \/ j \in before[i],
           \A i, j \in S : j \in before[i] => before[j] \subseteq before[i]
    PROVE  /\ \A n \in 1..Cardinality(S) : \E i \in S : Cardinality(before[i]) = n - 1
           /\ \A i, j \in S : Cardinality(before[i]) = Cardinality(before[j]) => i = j
           /\ \A i, j \in S : j \in before[i] => Cardinality(before[j]) < Cardinality(before[i])
<1> DEFINE size == Cardinality(S)
           rank == [i \in S |-> Cardinality(before[i])]
<1>1. size \in Nat
  BY FS_CardinalityType
<1>2. ASSUME NEW i \in S
      PROVE  IsFiniteSet(before[i]) /\ Cardinality(before[i]) \in 0..(size - 1)
  <2>1. IsFiniteSet(S \ {i}) /\ Cardinality(S \ {i}) = size - 1
    BY FS_RemoveElement
  <2>2. before[i] \subseteq S \ {i}
    OBVIOUS
  <2>3. IsFiniteSet(before[i]) /\ Cardinality(before[i]) <= size - 1
    BY <2>1, <2>2, FS_Subset
  <2>4. Cardinality(before[i]) \in Nat
    BY <2>3, FS_CardinalityType
  <2> QED
    BY <1>1, <2>3, <2>4
<1>3. ASSUME NEW i \in S, NEW j \in S, j \in before[i]
      PROVE  Cardinality(before[j]) < Cardinality(before[i])
  <2>1. before[j] \subseteq before[i] /\ before[j] # before[i]
    BY <1>3
  <2>2. /\ Cardinality(before[j]) <= Cardinality(before[i])
        /\ Cardinality(before[i]) # Cardinality(before[j])
    BY <1>2, <2>1, FS_Subset
  <2> QED
    BY <1>1, <1>2, <2>2
<1>4. \A i, j \in S : Cardinality(before[i]) = Cardinality(before[j]) => i = j
  <2> SUFFICES ASSUME NEW i \in S, NEW j \in S, i # j
               PROVE  Cardinality(before[i]) # Cardinality(before[j])
    OBVIOUS
  <2>1. Cardinality(before[i]) \in Int /\ Cardinality(before[j]) \in Int
    BY <1>1, <1>2
  <2> QED
    BY <1>3, <2>1
<1>5. rank \in Injection(S, 0..(size - 1))
  <2>1. rank \in [S -> 0..(size - 1)]
    BY <1>2
  <2>2. \A i, j \in S : rank[i] = rank[j] => i = j
    BY <1>4
  <2> HIDE DEF rank
  <2> QED
    BY <2>1, <2>2, Fun_IsInj
<1>6. rank \in Surjection(S, 0..(size - 1))
  <2>1. IsFiniteSet(0..(size - 1)) /\ Cardinality(0..(size - 1)) = size
    <3>1. IsFiniteSet(0..(size - 1))
          /\ Cardinality(0..(size - 1)) = IF 0 > size - 1 THEN 0 ELSE size - 1 - 0 + 1
      BY <1>1, FS_Interval
    <3> QED
      BY <1>1, <3>1
  <2> HIDE DEF rank, size
  <2> QED
    BY <1>5, <2>1, FS_Injection DEF size
<1>7. ASSUME NEW n \in 1..size PROVE \E i \in S : Cardinality(before[i]) = n - 1
  <2>1. n - 1 \in 0..(size - 1)
    BY <1>1
  <2> QED
    BY <1>6, <2>1 DEF Surjection
<1> QED
  BY <1>3, <1>4, <1>7

Least(m, n) == IF m < n THEN m ELSE n

\* A choice of positions: as many as asked for, of the set, and none twice.
Choice(p, n, S) ==
    /\ p \in [1..n -> S]
    /\ \A a, b \in 1..n : p[a] = p[b] => a = b

LEMMA AscendingChooses ==
    ASSUME NEW S \in SUBSET Int, IsFiniteSet(S)
    PROVE  Choice(Ascending(S), Cardinality(S), S)
<1> DEFINE before == [i \in S |-> {j \in S : j < i}]
<1>1. /\ \A n \in 1..Cardinality(S) : \E i \in S : Cardinality(before[i]) = n - 1
      /\ \A i, j \in S : Cardinality(before[i]) = Cardinality(before[j]) => i = j
      /\ \A i, j \in S : j \in before[i] => Cardinality(before[j]) < Cardinality(before[i])
  <2>1. before \in [S -> SUBSET S]
    OBVIOUS
  <2>2. \A i, j \in S : j \in before[i] <=> j < i
    OBVIOUS
  <2> HIDE DEF before
  <2>3. \A i \in S : i \notin before[i]
    BY <2>2
  <2>4. \A i, j \in S : i = j \/ i \in before[j] \/ j \in before[i]
    BY <2>2
  <2>5. ASSUME NEW i \in S, NEW j \in S, j \in before[i] PROVE before[j] \subseteq before[i]
    <3> SUFFICES ASSUME NEW k \in before[j] PROVE k \in before[i]
      OBVIOUS
    <3>1. k \in S
      BY <2>1
    <3> QED
      BY <2>2, <2>5, <3>1
  <2> QED
    BY <2>1, <2>3, <2>4, <2>5, Ranks
<1>2. ASSUME NEW n \in 1..Cardinality(S)
      PROVE  Ascending(S)[n] \in S /\ Cardinality({j \in S : j < Ascending(S)[n]}) = n - 1
  BY <1>1 DEF Ascending
<1>3. Cardinality(S) \in Nat
  BY FS_CardinalityType
<1>4. Ascending(S) \in [1..Cardinality(S) -> S]
  BY <1>2 DEF Ascending
<1>5. ASSUME NEW a \in 1..Cardinality(S), NEW b \in 1..Cardinality(S),
             Ascending(S)[a] = Ascending(S)[b]
      PROVE  a = b
  <2>1. a - 1 = b - 1
    BY <1>2, <1>5
  <2> QED
    BY <1>3, <2>1
<1> QED
  BY <1>4, <1>5 DEF Choice

LEMMA BestChooses ==
    ASSUME NEW S \in SUBSET Int, IsFiniteSet(S), NEW cap \in Nat, cap <= Cardinality(S),
           NEW pnl, \A i \in S : pnl[i] \in Int
    PROVE  /\ Choice(Best(S, cap, pnl), cap, S)
           /\ \A n \in 1..cap, j \in S :
                j \in Range(Best(S, cap, pnl)) \/ pnl[Best(S, cap, pnl)[n]] >= pnl[j]
<1> DEFINE Before(i) == {j \in S : pnl[j] > pnl[i] \/ (pnl[j] = pnl[i] /\ j < i)}
           before == [i \in S |-> Before(i)]
           p == Best(S, cap, pnl)
<1>1. /\ \A n \in 1..Cardinality(S) : \E i \in S : Cardinality(before[i]) = n - 1
      /\ \A i, j \in S : Cardinality(before[i]) = Cardinality(before[j]) => i = j
      /\ \A i, j \in S : j \in before[i] => Cardinality(before[j]) < Cardinality(before[i])
  <2>1. before \in [S -> SUBSET S]
    OBVIOUS
  <2>2. \A i, j \in S : j \in before[i] <=> pnl[j] > pnl[i] \/ (pnl[j] = pnl[i] /\ j < i)
    OBVIOUS
  <2> HIDE DEF before
  <2>3. \A i \in S : i \notin before[i]
    BY <2>2
  <2>4. \A i, j \in S : i = j \/ i \in before[j] \/ j \in before[i]
    BY <2>2
  <2>5. ASSUME NEW i \in S, NEW j \in S, j \in before[i] PROVE before[j] \subseteq before[i]
    <3> SUFFICES ASSUME NEW k \in before[j] PROVE k \in before[i]
      OBVIOUS
    <3>1. k \in S
      BY <2>1
    <3>2. pnl[i] \in Int /\ pnl[j] \in Int /\ pnl[k] \in Int /\ i \in Int /\ j \in Int /\ k \in Int
      BY <3>1
    <3>3. pnl[j] > pnl[i] \/ (pnl[j] = pnl[i] /\ j < i)
      BY <2>2, <2>5
    <3>4. pnl[k] > pnl[j] \/ (pnl[k] = pnl[j] /\ k < j)
      BY <2>2, <3>1
    <3>5. pnl[k] > pnl[i] \/ (pnl[k] = pnl[i] /\ k < i)
      BY <3>2, <3>3, <3>4
    <3> QED
      BY <2>2, <3>1, <3>5
  <2> QED
    BY <2>1, <2>3, <2>4, <2>5, Ranks
<1>2. Cardinality(S) \in Nat
  BY FS_CardinalityType
<1>3. p = [n \in 1..cap |-> CHOOSE i \in S : Cardinality(Before(i)) = n - 1]
  BY DEF Best
<1>4. ASSUME NEW n \in 1..cap PROVE p[n] \in S /\ Cardinality(Before(p[n])) = n - 1
  <2>1. n \in 1..Cardinality(S)
    BY <1>2
  <2>2. \E i \in S : Cardinality(Before(i)) = n - 1
    BY <1>1, <2>1
  <2> QED
    BY <1>3, <2>2
<1>5. p \in [1..cap -> S]
  BY <1>3, <1>4
<1>6. ASSUME NEW a \in 1..cap, NEW b \in 1..cap, p[a] = p[b] PROVE a = b
  <2>1. a - 1 = b - 1
    BY <1>4, <1>6
  <2> QED
    BY <2>1
<1>7. ASSUME NEW n \in 1..cap, NEW j \in S, j \notin Range(p) PROVE pnl[p[n]] >= pnl[j]
  <2> DEFINE i == p[n]
             rank == Cardinality(Before(j))
  <2>1. i \in S /\ Cardinality(before[i]) = n - 1 /\ before[j] = Before(j)
    BY <1>4
  <2>2. IsFiniteSet(Before(j)) /\ rank \in Nat
    BY FS_Subset, FS_CardinalityType
  <2>3. ASSUME rank < n - 1 PROVE FALSE
    <3>1. rank + 1 \in 1..cap
      BY <2>2, <2>3
    <3>2. p[rank + 1] \in S /\ Cardinality(Before(p[rank + 1])) = rank
      BY <1>4, <2>2, <3>1
    <3>3. Cardinality(before[p[rank + 1]]) = Cardinality(before[j])
      BY <2>1, <3>2
    <3>4. p[rank + 1] = j
      BY <1>1, <3>2, <3>3
    <3> QED
      BY <1>5, <1>7, <3>1, <3>4 DEF Range
  <2>4. ASSUME j \in before[i] PROVE FALSE
    <3>1. Cardinality(before[j]) < Cardinality(before[i])
      <4> HIDE DEF before, i
      <4> QED
        BY <1>1, <2>1, <2>4
    <3>2. rank < n - 1
      <4> HIDE DEF before, i, rank
      <4> QED
        BY <2>1, <3>1 DEF rank
    <3> QED
      BY <2>3, <3>2
  <2>5. pnl[i] \in Int /\ pnl[j] \in Int
    BY <2>1
  <2> QED
    BY <2>1, <2>4, <2>5
<1> QED
  BY <1>5, <1>6, <1>7 DEF Choice

\* A choice of as many as there are takes all of them.
LEMMA ChoiceOfAll ==
    ASSUME NEW S, IsFiniteSet(S), NEW p, Choice(p, Cardinality(S), S), NEW j \in S
    PROVE  j \in Range(p)
<1> DEFINE n == Cardinality(S)
<1>1. n \in Nat
  BY FS_CardinalityType
<1>2. p \in Injection(1..n, S)
  BY Fun_IsInj DEF Choice
<1>3. Cardinality(1..n) = n
  <2>1. Cardinality(1..n) = IF 1 > n THEN 0 ELSE n - 1 + 1
    BY <1>1, FS_Interval
  <2> QED
    BY <1>1, <2>1
<1> HIDE DEF n
<1>4. p \in Surjection(1..n, S)
  BY <1>2, <1>3, FS_Injection DEF n
<1>5. PICK i \in 1..n : p[i] = j
  BY <1>4 DEF Surjection
<1> QED
  BY <1>5 DEF Choice, Range, n

\* A side keeps its best entries up to the cap, or all of them.
LEMMA AtMostChooses ==
    ASSUME NEW S \in SUBSET Int, IsFiniteSet(S), NEW cap \in Nat,
           NEW pnl, \A i \in S : pnl[i] \in Int
    PROVE  /\ Choice(AtMost(S, cap, pnl), Least(Cardinality(S), cap), S)
           /\ \A i \in Range(AtMost(S, cap, pnl)), j \in S :
                j \in Range(AtMost(S, cap, pnl)) \/ pnl[i] >= pnl[j]
<1>1. Cardinality(S) \in Nat
  BY FS_CardinalityType
<1>2. CASE Cardinality(S) > cap
  <2>1. AtMost(S, cap, pnl) = Best(S, cap, pnl) /\ Least(Cardinality(S), cap) = cap
    BY <1>1, <1>2 DEF AtMost, Least
  <2>2. cap <= Cardinality(S)
    BY <1>1, <1>2
  <2>3. /\ Choice(Best(S, cap, pnl), cap, S)
        /\ \A n \in 1..cap, j \in S :
             j \in Range(Best(S, cap, pnl)) \/ pnl[Best(S, cap, pnl)[n]] >= pnl[j]
    BY <2>2, BestChooses
  <2>4. ASSUME NEW i \in Range(Best(S, cap, pnl))
        PROVE  \E n \in 1..cap : i = Best(S, cap, pnl)[n]
    BY <2>3 DEF Range, Choice
  <2> QED
    BY <2>1, <2>3, <2>4
<1>3. CASE ~(Cardinality(S) > cap)
  <2>1. AtMost(S, cap, pnl) = Ascending(S) /\ Least(Cardinality(S), cap) = Cardinality(S)
    BY <1>1, <1>3 DEF AtMost, Least
  <2>2. Choice(Ascending(S), Cardinality(S), S)
    BY AscendingChooses
  <2>3. \A j \in S : j \in Range(Ascending(S))
    BY <2>2, ChoiceOfAll
  <2> QED
    BY <2>1, <2>2, <2>3
<1> QED
  BY <1>2, <1>3

\* Two choices of disjoint sets, one after the other.
LEMMA ChoicesJoin ==
    ASSUME NEW S, NEW T, S \cap T = {}, NEW m \in Nat, NEW n \in Nat, NEW p, NEW q,
           Choice(p, m, S), Choice(q, n, T)
    PROVE  /\ Choice(p \o q, m + n, S \cup T)
           /\ \A i \in 1..(m + n) : (p \o q)[i] \in S <=> i <= m
<1>1. p \in Seq(S) /\ Len(p) = m /\ q \in Seq(T) /\ Len(q) = n
  BY DEF Choice
<1>2. p \in Seq(S \cup T) /\ q \in Seq(S \cup T)
  BY <1>1
<1>3. Len(p \o q) = m + n /\ DOMAIN (p \o q) = 1..(m + n)
  BY <1>1, <1>2
<1> DEFINE r == p \o q
<1>4. ASSUME NEW i \in 1..(m + n)
      PROVE  r[i] = IF i <= m THEN p[i] ELSE q[i - m]
  BY <1>1, <1>2, <1>4
<1>5. ASSUME NEW i \in 1..(m + n)
      PROVE  /\ i <= m => r[i] \in S /\ i \in 1..m
             /\ i > m => r[i] \in T /\ i - m \in 1..n
  BY <1>4 DEF Choice
<1>7. r \in [1..(m + n) -> S \cup T]
  <2>1. r \in Seq(S \cup T) /\ Len(r) = m + n
    BY <1>2, <1>3
  <2>2. r \in [1..Len(r) -> S \cup T]
    <3> HIDE DEF r
    <3> QED
      BY <2>1
  <2> QED
    BY <2>1, <2>2
<1> HIDE DEF r
<1>6. \A i \in 1..(m + n) : r[i] \in S <=> i <= m
  <2> SUFFICES ASSUME NEW i \in 1..(m + n) PROVE r[i] \in S <=> i <= m
    OBVIOUS
  <2>1. i <= m \/ i > m
    OBVIOUS
  <2> QED
    BY <1>5, <2>1
<1>8. ASSUME NEW a \in 1..(m + n), NEW b \in 1..(m + n), r[a] = r[b]
      PROVE  a = b
  <2>1. a <= m <=> b <= m
    BY <1>6, <1>8
  <2>2. CASE a <= m
    BY <1>4, <1>5, <1>8, <2>1, <2>2 DEF Choice
  <2>3. CASE ~(a <= m)
    <3>1. a - m = b - m
      BY <1>4, <1>5, <1>8, <2>1, <2>3 DEF Choice
    <3> QED
      BY <3>1
  <2> QED
    BY <2>2, <2>3
<1> QED
  BY <1>6, <1>7, <1>8 DEF Choice, r

\* What the scripts promise of a choice of positions: none twice, and a side that is
\* larger than twice the other only if the other is empty.
Rebalanced(pick, dir) ==
    LET side(d) == Cardinality({i \in DOMAIN pick : dir[pick[i]] = d})
        l == side("LONG")
        s == side("SHORT")
    IN /\ Cardinality(Range(pick)) = Len(pick)
       /\ l > 0 /\ s > 0 => l <= 2 * s /\ s <= 2 * l

LEMMA SeqWider == ASSUME NEW S, NEW T, S \subseteq T, NEW s \in Seq(S) PROVE s \in Seq(T)
  OBVIOUS

LEMMA RangeJoin ==
    ASSUME NEW S, NEW p \in Seq(S), NEW q \in Seq(S)
    PROVE  Range(p \o q) = Range(p) \cup Range(q)
<1>1. Len(p \o q) = Len(p) + Len(q) /\ Len(p) \in Nat /\ Len(q) \in Nat
  OBVIOUS
<1>2. \A i \in 1..Len(p) : (p \o q)[i] = p[i]
  OBVIOUS
<1>3. ASSUME NEW i \in 1..Len(q) PROVE (p \o q)[Len(p) + i] = q[i]
  OBVIOUS
<1>4. ASSUME NEW x \in Range(p \o q) PROVE x \in Range(p) \cup Range(q)
  <2>1. PICK i \in 1..(Len(p) + Len(q)) : x = (p \o q)[i]
    BY <1>1, <1>4 DEF Range
  <2>2. CASE i <= Len(p)
    BY <1>1, <1>2, <2>1, <2>2 DEF Range
  <2>3. CASE ~(i <= Len(p))
    <3>1. i - Len(p) \in 1..Len(q) /\ Len(p) + (i - Len(p)) = i
      BY <1>1, <2>3
    <3>2. x = q[i - Len(p)]
      BY <1>3, <2>1, <3>1
    <3> QED
      BY <3>1, <3>2 DEF Range
  <2> QED
    BY <2>2, <2>3
<1>5. ASSUME NEW x \in Range(p) \cup Range(q) PROVE x \in Range(p \o q)
  <2>1. CASE x \in Range(p)
    <3>1. PICK i \in 1..Len(p) : x = p[i]
      BY <2>1 DEF Range
    <3> QED
      BY <1>1, <1>2, <3>1 DEF Range
  <2>2. CASE x \in Range(q)
    <3>1. PICK i \in 1..Len(q) : x = q[i]
      BY <2>2 DEF Range
    <3>2. Len(p) + i \in 1..(Len(p) + Len(q))
      BY <1>1
    <3>3. (p \o q)[Len(p) + i] = x
      BY <1>3, <3>1
    <3>4. DOMAIN (p \o q) = 1..(Len(p) + Len(q))
      BY <1>1
    <3> DEFINE k == Len(p) + i
               r == p \o q
    <3>5. k \in DOMAIN r /\ r[k] = x
      BY <3>2, <3>3, <3>4
    <3> HIDE DEF k, r
    <3>6. x \in Range(r)
      BY <3>5 DEF Range
    <3> QED
      BY <3>6 DEF r
  <2> QED
    BY <1>5, <2>1, <2>2
<1> QED
  BY <1>4, <1>5

LEMMA ChoiceRange ==
    ASSUME NEW S, NEW n \in Nat, NEW p, Choice(p, n, S)
    PROVE  p \in Seq(S) /\ Len(p) = n /\ IsFiniteSet(Range(p)) /\ Cardinality(Range(p)) = n
<1>1. p \in Seq(S) /\ Len(p) = n /\ p \in [1..n -> S]
  BY DEF Choice
<1>2. p \in Surjection(1..n, Range(p))
  BY <1>1, Fun_RangeProperties
<1>3. p \in Injection(1..n, Range(p))
  <2>1. p \in [1..n -> Range(p)]
    BY <1>1 DEF Range
  <2>2. \A a, b \in 1..n : p[a] = p[b] => a = b
    BY DEF Choice
  <2> QED
    BY <2>1, <2>2, Fun_IsInj
<1>4. ExistsBijection(1..n, Range(p))
  BY <1>2, <1>3 DEF ExistsBijection, Bijection
<1>5. Cardinality(Range(p)) = n
  BY <1>4, FS_CountingElements
<1>6. IsFiniteSet(Range(p))
  BY <1>4, FS_NatBijection
<1> QED
  BY <1>1, <1>5, <1>6

\* The cap leaves neither side with more than twice the other.
LEMMA CapBalances ==
    ASSUME NEW l \in Nat, NEW s \in Nat
    PROVE  /\ Cap(l, s) \in Nat
           /\ Least(l, Cap(l, s)) \in Nat /\ Least(s, Cap(l, s)) \in Nat
           /\ Least(l, Cap(l, s)) > 0 /\ Least(s, Cap(l, s)) > 0
              => /\ Least(l, Cap(l, s)) <= 2 * Least(s, Cap(l, s))
                 /\ Least(s, Cap(l, s)) <= 2 * Least(l, Cap(l, s))
  BY DEF Cap, Least

LEMMA SidesRebalanced ==
    ASSUME NEW S \in SUBSET Int, IsFiniteSet(S),
           NEW dir, \A i \in S : dir[i] \in Directions,
           NEW pnl, \A i \in S : pnl[i] \in Int
    PROVE  Sides(S, dir, pnl) \in Seq(S) /\ Rebalanced(Sides(S, dir, pnl), dir)
<1> DEFINE long == {i \in S : dir[i] = "LONG"}
           short == {i \in S : dir[i] = "SHORT"}
           cap == Cap(Cardinality(long), Cardinality(short))
           p == AtMost(long, cap, pnl)
           q == AtMost(short, cap, pnl)
           m == Least(Cardinality(long), cap)
           n == Least(Cardinality(short), cap)
           pick == p \o q
<1>1. IsFiniteSet(long) /\ IsFiniteSet(short)
  BY FS_Subset
<1>2. /\ long \in SUBSET Int /\ short \in SUBSET Int /\ long \cap short = {}
      /\ long \cup short = S
  BY DEF Directions
<1>3. Cardinality(long) \in Nat /\ Cardinality(short) \in Nat
  BY <1>1, FS_CardinalityType
<1>4. /\ cap \in Nat /\ m \in Nat /\ n \in Nat
      /\ m > 0 /\ n > 0 => m <= 2 * n /\ n <= 2 * m
  BY <1>3, CapBalances
<1>5. (\A i \in long : pnl[i] \in Int) /\ (\A i \in short : pnl[i] \in Int)
  OBVIOUS
<1>6. Sides(S, dir, pnl) = pick
  BY DEF Sides
<1>7. \A i \in S : (i \in long <=> dir[i] = "LONG") /\ (i \in short <=> dir[i] = "SHORT")
  OBVIOUS
<1> HIDE DEF long, short, cap, m, n
<1>8. Choice(p, m, long) /\ Choice(q, n, short)
  BY <1>1, <1>2, <1>4, <1>5, AtMostChooses DEF m, n
<1> HIDE DEF p, q
<1>9. Choice(pick, m + n, S) /\ \A i \in 1..(m + n) : pick[i] \in long <=> i <= m
  BY <1>2, <1>4, <1>8, ChoicesJoin
<1> HIDE DEF pick
<1>10. /\ pick \in Seq(S) /\ Len(pick) = m + n /\ Cardinality(Range(pick)) = m + n
       /\ pick \in [1..(m + n) -> S]
  <2>1. m + n \in Nat
    BY <1>4
  <2> QED
    BY <1>9, <2>1, ChoiceRange DEF Choice
<1>11. {i \in DOMAIN pick : dir[pick[i]] = "LONG"} = 1..m
  <2>1. \A i \in 1..(m + n) : dir[pick[i]] = "LONG" <=> i <= m
    BY <1>7, <1>9, <1>10
  <2>2. DOMAIN pick = 1..(m + n)
    BY <1>10
  <2> QED
    BY <1>4, <2>1, <2>2
<1>12. {i \in DOMAIN pick : dir[pick[i]] = "SHORT"} = (m + 1)..(m + n)
  <2>1. \A i \in 1..(m + n) : dir[pick[i]] = "SHORT" <=> ~(i <= m)
    <3>1. \A i \in S : i \in short <=> i \notin long
      BY <1>2
    <3> QED
      BY <1>7, <1>9, <1>10, <3>1
  <2>2. DOMAIN pick = 1..(m + n)
    BY <1>10
  <2> QED
    BY <1>4, <2>1, <2>2
<1>13. Cardinality(1..m) = m /\ Cardinality((m + 1)..(m + n)) = n
  <2>1. Cardinality(1..m) = IF 1 > m THEN 0 ELSE m - 1 + 1
    BY <1>4, FS_Interval
  <2>2. Cardinality((m + 1)..(m + n)) = IF m + 1 > m + n THEN 0 ELSE (m + n) - (m + 1) + 1
    <3>1. m + 1 \in Int /\ m + n \in Int
      BY <1>4
    <3> QED
      BY <3>1, FS_Interval
  <2> QED
    BY <1>4, <2>1, <2>2
<1>14. Rebalanced(pick, dir)
  BY <1>4, <1>10, <1>11, <1>12, <1>13 DEF Rebalanced
<1> QED
  BY <1>6, <1>10, <1>14

\* What the cap leaves out of a side is no better than what it keeps: the entries that
\* balance_faiss and clean_faiss drop are the worst of their direction.
THEOREM SidesKeepTheBest ==
    ASSUME NEW S \in SUBSET Int, IsFiniteSet(S),
           NEW dir, \A i \in S : dir[i] \in Directions,
           NEW pnl, \A i \in S : pnl[i] \in Int,
           NEW i \in Range(Sides(S, dir, pnl)), NEW j \in S \ Range(Sides(S, dir, pnl)),
           dir[i] = dir[j]
    PROVE  pnl[i] >= pnl[j]
<1> DEFINE long == {k \in S : dir[k] = "LONG"}
           short == {k \in S : dir[k] = "SHORT"}
           cap == Cap(Cardinality(long), Cardinality(short))
           p == AtMost(long, cap, pnl)
           q == AtMost(short, cap, pnl)
           m == Least(Cardinality(long), cap)
           n == Least(Cardinality(short), cap)
<1>1. /\ IsFiniteSet(long) /\ IsFiniteSet(short)
      /\ Cardinality(long) \in Nat /\ Cardinality(short) \in Nat
  BY FS_Subset, FS_CardinalityType
<1>2. cap \in Nat /\ m \in Nat /\ n \in Nat
  BY <1>1, CapBalances
<1>3. /\ long \in SUBSET Int /\ short \in SUBSET Int
      /\ (\A k \in long : pnl[k] \in Int) /\ (\A k \in short : pnl[k] \in Int)
  OBVIOUS
<1>4. Sides(S, dir, pnl) = p \o q
  BY DEF Sides
<1>5. \A k \in S : (k \in long <=> dir[k] = "LONG") /\ (k \in short <=> dir[k] = "SHORT")
  OBVIOUS
<1> HIDE DEF long, short, cap, m, n
<1>6. /\ Choice(p, m, long) /\ Choice(q, n, short)
      /\ \A a \in Range(p), b \in long : b \in Range(p) \/ pnl[a] >= pnl[b]
      /\ \A a \in Range(q), b \in short : b \in Range(q) \/ pnl[a] >= pnl[b]
  BY <1>1, <1>2, <1>3, AtMostChooses DEF m, n
<1> HIDE DEF p, q
<1>7. /\ p \in Seq(long) /\ q \in Seq(short)
      /\ Range(p) \subseteq long /\ Range(q) \subseteq short
  <2>1. p \in Seq(long) /\ q \in Seq(short)
    BY <1>2, <1>6, ChoiceRange
  <2> QED
    BY <2>1 DEF Range
<1>8. Range(p \o q) = Range(p) \cup Range(q)
  <2>1. p \in Seq(long \cup short) /\ q \in Seq(long \cup short)
    BY <1>7, SeqWider
  <2> QED
    BY <2>1, RangeJoin
<1>9. i \in Range(p) \/ i \in Range(q)
  BY <1>4, <1>8
<1>10. j \notin Range(p) /\ j \notin Range(q)
  BY <1>4, <1>8
<1>11. CASE i \in Range(p)
  <2>1. j \in long
    BY <1>3, <1>5, <1>7, <1>11 DEF long
  <2> QED
    BY <1>6, <1>10, <1>11, <2>1
<1>12. CASE i \in Range(q)
  <2>1. j \in short
    BY <1>3, <1>5, <1>7, <1>12 DEF short
  <2> QED
    BY <1>6, <1>10, <1>12, <2>1
<1> QED
  BY <1>9, <1>11, <1>12

LEMMA MemoryPositions ==
    ASSUME NEW n \in Nat, NEW S \in SUBSET (1..n)
    PROVE  S \in SUBSET Int /\ IsFiniteSet(S)
<1>1. IsFiniteSet(1..n)
  BY FS_Interval
<1>2. IsFiniteSet(S)
  BY <1>1, FS_Subset
<1> QED
  BY <1>2

\* For every memory, of whatever size: clean_faiss and balance_faiss choose no entry
\* twice, and leave no side with more than twice the other unless the other is empty.
THEOREM ScriptsRebalance ==
    ASSUME NEW n \in Nat, NEW dir \in [1..n -> Directions], NEW pnl \in [1..n -> Int],
           NEW pick \in {Clean(dir, pnl), Balance(dir, pnl)}
    PROVE  pick \in Seq(1..n) /\ Rebalanced(pick, dir)
<1>1. ASSUME NEW S \in SUBSET (1..n), pick = Sides(S, dir, pnl)
      PROVE  pick \in Seq(1..n) /\ Rebalanced(pick, dir)
  <2>1. S \in SUBSET Int /\ IsFiniteSet(S)
    BY MemoryPositions
  <2>2. (\A i \in S : dir[i] \in Directions) /\ (\A i \in S : pnl[i] \in Int)
    OBVIOUS
  <2>3. pick \in Seq(S) /\ Rebalanced(pick, dir)
    BY <1>1, <2>1, <2>2, SidesRebalanced
  <2>4. S \subseteq 1..n
    OBVIOUS
  <2>5. pick \in Seq(1..n)
    BY <2>3, <2>4, SeqWider
  <2> QED
    BY <2>3, <2>5
<1>2. CASE pick = Clean(dir, pnl)
  <2> DEFINE kept == {i \in DOMAIN pnl : pnl[i] <= 150 /\ pnl[i] >= -500}
             firsts == {i \in kept : \A j \in kept : j < i => dir[j] # dir[i] \/ pnl[j] # pnl[i]}
  <2>1. firsts \in SUBSET (1..n)
    OBVIOUS
  <2>2. pick = Sides(firsts, dir, pnl)
    BY <1>2 DEF Clean
  <2> HIDE DEF firsts
  <2> QED
    BY <1>1, <2>1, <2>2
<1>3. CASE pick = Balance(dir, pnl)
  <2>1. pick = Sides({i \in DOMAIN pnl : pnl[i] >= -50}, dir, pnl)
    BY <1>3 DEF Balance
  <2>2. {i \in DOMAIN pnl : pnl[i] >= -50} \in SUBSET (1..n)
    OBVIOUS
  <2> QED
    BY <1>1, <2>1, <2>2
<1> QED
  BY <1>2, <1>3

\* The bounded form of ScriptsRebalance, which TLC evaluates.
THEOREM RebalancingIsCorrect == Spec => []RebalanceCorrect
<1>1. RebalanceCorrect
  <2> SUFFICES ASSUME NEW n \in 0..4, NEW dir \in [1..n -> Directions],
                      NEW pnl \in [1..n -> {-600, -60, 40, 200}],
                      NEW pick \in {Clean(dir, pnl), Balance(dir, pnl)}
               PROVE  Rebalanced(pick, dir)
    BY DEF RebalanceCorrect, Rebalanced
  <2>1. n \in Nat /\ pnl \in [1..n -> Int]
    OBVIOUS
  <2> QED
    BY <2>1, ScriptsRebalance
<1>2. RebalanceCorrect'
  <2> SUFFICES ASSUME NEW n \in 0..4, NEW dir \in [1..n -> Directions],
                      NEW pnl \in [1..n -> {-600, -60, 40, 200}],
                      NEW pick \in {Clean(dir, pnl), Balance(dir, pnl)}
               PROVE  Rebalanced(pick, dir)
    BY DEF RebalanceCorrect, Rebalanced
  <2>1. n \in Nat /\ pnl \in [1..n -> Int]
    OBVIOUS
  <2> QED
    BY <2>1, ScriptsRebalance
<1> QED
  BY <1>1, <1>2, PTL DEF Spec
-----------------------------------------------------------------------------
(***************************************************************************)
(* Types                                                                   *)
(***************************************************************************)
\* What files hold are trades that have closed.
TypeInv == TypeOK /\ files.index.data \in Seq(Known) /\ files.meta.data \in Seq(Known)

ScriptType == [pc : ScriptLabels, kind : Kinds, vectors : Seq(Known), meta : Seq(Known),
               attempt : 1..3, known : SUBSET Known]

LEMMA TypeInvInit == Init => TypeInv
<1> SUFFICES ASSUME Init PROVE TypeInv
  OBVIOUS
<1>1. Known = {} /\ closed \in [Known -> Outcomes]
  BY DEF Init, Known
<1>2. NoScript \in ScriptType
  BY DEF NoScript, ScriptType, ScriptLabels, Kinds
<1>3. Missing \in FileType /\ EmptyMemory \in [vectors : Seq(Known), meta : Seq(Known)]
  BY DEF Missing, FileType, EmptyMemory
<1>4. /\ files \in [index : FileType, meta : FileType]
      /\ files.index.data \in Seq(Known) /\ files.meta.data \in Seq(Known)
  <2>1. files = [index |-> Missing, meta |-> Missing] /\ Missing.data \in Seq(Known)
    BY DEF Init, Missing
  <2> QED
    BY <1>3, <2>1
<1>5. ram \in [vectors : Seq(Known), meta : Seq(Known)] /\ script \in ScriptType
  BY <1>2, <1>3 DEF Init
<1>6. /\ runs \in 0..MaxScripts /\ faults \in 0..MaxFaults /\ touched \in BOOLEAN
      /\ eng \in EngineLabels
  <2>1. runs = 0 /\ faults = 0 /\ touched = FALSE /\ eng = "down"
    BY DEF Init
  <2>2. 0 \in 0..MaxScripts /\ 0 \in 0..MaxFaults
    BY BoundsAssumption
  <2> QED
    BY <2>1, <2>2 DEF EngineLabels
<1>7. /\ Known \subseteq Trades /\ influx \subseteq Known /\ added \subseteq Known
      /\ persisted \subseteq Known /\ due \subseteq Known /\ flushed \in BOOLEAN
      /\ unwritten \subseteq Writers \X Known
  BY <1>1 DEF Init
<1> HIDE DEF Known
<1> QED
  BY <1>1, <1>4, <1>5, <1>6, <1>7 DEF TypeInv, TypeOK, ScriptType

LEMMA FileTypes ==
    ASSUME NEW s \in Seq(Known), Known \subseteq Trades, NEW f \in FileType
    PROVE  File(s) \in FileType /\ Torn \in FileType /\ Missing \in FileType
           /\ Written(f, s) \in FileType
           /\ File(s).data = s /\ Torn.data = <<>> /\ Missing.data = <<>>
           /\ Written(f, s).data \in {f.data, s}
<1>1. s \in Seq(Trades)
  BY SeqWider
<1> QED
  BY <1>1 DEF File, Torn, Missing, Written, FileType

\* Steps that close no trade.
LEMMA TypeKept ==
    ASSUME TypeInv, UNCHANGED closed,
           influx' \subseteq Known, unwritten' \subseteq Writers \X Known,
           added' \subseteq Known, due' \subseteq Known,
           ram' \in [vectors : Seq(Known), meta : Seq(Known)], eng' \in EngineLabels,
           files' \in [index : FileType, meta : FileType],
           files'.index.data \in Seq(Known), files'.meta.data \in Seq(Known),
           script' \in ScriptType, runs' \in 0..MaxScripts, touched' \in BOOLEAN,
           persisted' \subseteq Known, flushed' \in BOOLEAN, faults' \in 0..MaxFaults
    PROVE  TypeInv'
  BY DEF TypeInv, TypeOK, Known, ScriptType

LEMMA CloseTypes == ASSUME TypeInv, NEW t \in Trades, Close(t) PROVE TypeInv'
<1>1. PICK o \in Outcomes :
        closed' = [u \in Known \cup {t} |-> IF u = t THEN o ELSE closed[u]]
  BY DEF Close
<1>2. Known' = Known \cup {t} /\ Known \subseteq Known'
  BY <1>1 DEF Known
<1>3. closed' \in [Known' -> Outcomes]
  BY <1>1, <1>2 DEF TypeInv, TypeOK
<1>4. Seq(Known) \subseteq Seq(Known')
  BY <1>2, SeqWider
<1>5. /\ UNCHANGED <<influx, added, due, ram, eng, files, script, runs, touched>>
      /\ UNCHANGED <<persisted, flushed, faults>>
      /\ unwritten' \subseteq unwritten \cup Writers \X {t}
  BY DEF Close, engine, scripts
<1>6. ram' \in [vectors : Seq(Known'), meta : Seq(Known')]
  BY <1>4, <1>5 DEF TypeInv, TypeOK
<1>7. script' \in ScriptType'
  BY <1>2, <1>4, <1>5 DEF TypeInv, TypeOK, ScriptType
<1>8. files'.index.data \in Seq(Known') /\ files'.meta.data \in Seq(Known')
      /\ files' \in [index : FileType, meta : FileType]
  BY <1>4, <1>5 DEF TypeInv, TypeOK
<1>9. /\ Known' \subseteq Trades /\ influx' \subseteq Known' /\ added' \subseteq Known'
      /\ persisted' \subseteq Known' /\ due' \subseteq Known' /\ flushed' \in BOOLEAN
      /\ unwritten' \subseteq Writers \X Known'
      /\ eng' \in EngineLabels /\ runs' \in 0..MaxScripts /\ touched' \in BOOLEAN
      /\ faults' \in 0..MaxFaults
  BY <1>2, <1>5 DEF TypeInv, TypeOK
<1> QED
  BY <1>3, <1>6, <1>7, <1>8, <1>9 DEF TypeInv, TypeOK, ScriptType

LEMMA WriteTypes ==
    ASSUME TypeInv, NEW w \in Writers, NEW t \in Trades, WriteOutcome(w, t)
    PROVE  TypeInv'
<1>1. <<w, t>> \in Writers \X Known
  BY DEF WriteOutcome, TypeInv, TypeOK
<1>2. t \in Known
  BY <1>1
<1>3. /\ influx' \subseteq Known /\ due' \subseteq Known /\ unwritten' \subseteq Writers \X Known
      /\ UNCHANGED <<closed, added, ram, eng, persisted, files, script, runs, touched, flushed, faults>>
  BY <1>2 DEF WriteOutcome, engine, scripts, TypeInv, TypeOK
<1> QED
  BY <1>3, TypeKept DEF TypeInv, TypeOK, ScriptType

LEMMA EngineTypes ==
    ASSUME TypeInv, (\E t \in Trades : Add(t)) \/ Boot \/ BootMetadata \/ Persist \/ Crash
    PROVE  TypeInv'
<1>0. /\ UNCHANGED <<closed, influx, due, script, runs, touched, flushed>>
      /\ influx \subseteq Known /\ due \subseteq Known
      /\ unwritten' \subseteq Writers \X Known
      /\ script \in ScriptType /\ runs \in 0..MaxScripts
      /\ touched \in BOOLEAN /\ flushed \in BOOLEAN
  BY DEF Add, Boot, BootMetadata, Persist, PersistStart, PersistIndex, OpenMetadata,
     PersistMetadata, Crash, scripts, trading, outcomes, TypeInv, TypeOK, ScriptType
<1>1. /\ added \subseteq Known /\ persisted \subseteq Known /\ faults \in 0..MaxFaults
      /\ eng \in EngineLabels /\ Known \subseteq Trades
      /\ ram \in [vectors : Seq(Known), meta : Seq(Known)]
      /\ files \in [index : FileType, meta : FileType]
      /\ files.index.data \in Seq(Known) /\ files.meta.data \in Seq(Known)
  BY DEF TypeInv, TypeOK
<1>2. EmptyMemory \in [vectors : Seq(Known), meta : Seq(Known)]
  BY DEF EmptyMemory
<1>3. CASE \E t \in Trades : Add(t)
  <2>1. PICK t \in Trades : Add(t)
    BY <1>3
  <2>2. t \in Known
    BY <2>1 DEF Add
  <2>3. ram' \in [vectors : Seq(Known), meta : Seq(Known)]
    BY <1>1, <2>1, <2>2 DEF Add
  <2> QED
    BY <1>0, <1>1, <2>1, <2>2, <2>3, TypeKept DEF Add, EngineLabels
<1>4. CASE Boot
  <2>1. ram' = [vectors |-> files.index.data, meta |-> <<>>] /\ eng' = "boot"
    BY <1>4 DEF Boot, EmptyMemory
  <2>2. ram' \in [vectors : Seq(Known), meta : Seq(Known)]
    BY <1>1, <2>1
  <2> QED
    BY <1>0, <1>1, <1>4, <2>1, <2>2, TypeKept DEF Boot, EngineLabels, trading
<1>5. CASE BootMetadata
  <2>1. ram' \in [vectors : Seq(Known), meta : Seq(Known)]
    <3>1. [vectors |-> ram.vectors, meta |-> files.meta.data]
             \in [vectors : Seq(Known), meta : Seq(Known)]
      BY <1>1
    <3>2. ram' \in {EmptyMemory, [vectors |-> ram.vectors, meta |-> files.meta.data]}
      BY <1>5 DEF BootMetadata, Loaded
    <3> QED
      BY <1>2, <3>1, <3>2
  <2>2. eng' \in EngineLabels
    BY <1>5 DEF BootMetadata, EngineLabels
  <2> QED
    BY <1>0, <1>1, <1>5, <2>1, <2>2, TypeKept DEF BootMetadata, trading
<1>6. CASE Crash
  <2>1. faults' \in 0..MaxFaults
    BY <1>1, <1>6, BoundsAssumption DEF Crash, Fault
  <2>2. eng' \in EngineLabels /\ ram' = EmptyMemory /\ UNCHANGED <<added, persisted, files>>
    BY <1>6 DEF Crash, EngineLabels, trading
  <2> QED
    BY <1>0, <1>1, <1>2, <2>1, <2>2, TypeKept
<1>7. CASE Persist
  <2>1. ram.vectors \in Seq(Known) /\ ram.meta \in Seq(Known)
        /\ files.index \in FileType /\ files.meta \in FileType
    BY <1>1
  <2>2. /\ files'.index.data \in Seq(Known) /\ files'.meta.data \in Seq(Known)
        /\ files' \in [index : FileType, meta : FileType]
    <3>1. PICK f \in FileType :
            /\ f.data \in Seq(Known)
            /\ files' = [files EXCEPT !.index = f] \/ files' = [files EXCEPT !.meta = f]
      <4>1. CASE PersistStart \/ OpenMetadata
        <5>1. Torn \in FileType /\ Torn.data \in Seq(Known)
          BY DEF Torn, FileType
        <5> QED
          BY <4>1, <5>1 DEF PersistStart, OpenMetadata
      <4>2. CASE PersistIndex
        BY <1>1, <2>1, <4>2, FileTypes DEF PersistIndex
      <4>3. CASE PersistMetadata
        BY <1>1, <2>1, <4>3, FileTypes DEF PersistMetadata
      <4> QED
        BY <1>7, <4>1, <4>2, <4>3 DEF Persist
    <3> QED
      BY <1>1, <3>1
  <2>3. Range(ram.meta) \subseteq Known
    BY <2>1 DEF Range
  <2>4. persisted' \subseteq Known /\ eng' \in EngineLabels /\ UNCHANGED <<ram, added, faults>>
    BY <1>1, <1>7, <2>3 DEF Persist, PersistStart, PersistIndex, OpenMetadata, PersistMetadata,
       EngineLabels, trading
  <2> QED
    BY <1>0, <1>1, <2>2, <2>4, TypeKept
<1> QED
  BY <1>3, <1>4, <1>5, <1>6, <1>7

\* What a rewrite has chosen is made of entries and vectors it has read.
LEMMA ChosenTypes ==
    ASSUME TypeInv, NEW m \in Seq(Known), NEW v \in Seq(Known), NEW pick,
           pick = Chosen(m), Range(pick) \subseteq DOMAIN v
    PROVE  /\ [n \in DOMAIN pick |-> m[pick[n]]] \in Seq(Known)
           /\ [n \in DOMAIN Ascending(Range(pick)) |-> v[Ascending(Range(pick))[n]]] \in Seq(Known)
<1> DEFINE dir == [i \in DOMAIN m |-> closed[m[i]].dir]
           pnl == [i \in DOMAIN m |-> closed[m[i]].pnl]
           order == Ascending(Range(pick))
<1>1. Len(m) \in Nat /\ DOMAIN m = 1..Len(m) /\ DOMAIN v = 1..Len(v) /\ Len(v) \in Nat
  OBVIOUS
<1>2. \A i \in 1..Len(m) : m[i] \in Known
  OBVIOUS
<1>3. \A u \in Known : closed[u].dir \in Directions /\ closed[u].pnl \in Int
  <2>1. ASSUME NEW u \in Known PROVE closed[u] \in [dir : {"LONG", "SHORT"}, pnl : Int]
    BY OutcomesAssumption DEF TypeInv, TypeOK
  <2> QED
    BY <2>1 DEF Directions
<1>4. dir \in [1..Len(m) -> Directions] /\ pnl \in [1..Len(m) -> Int]
  BY <1>1, <1>2, <1>3
<1>5. pick \in {Clean(dir, pnl), Balance(dir, pnl)}
  BY DEF Chosen
<1>6. pick \in Seq(1..Len(m))
  <2> HIDE DEF dir, pnl
  <2> QED
    BY <1>1, <1>4, <1>5, ScriptsRebalance
<1>7. [n \in DOMAIN pick |-> m[pick[n]]] \in Seq(Known)
  <2>1. \A n \in DOMAIN pick : m[pick[n]] \in Known
    BY <1>2, <1>6
  <2>2. DOMAIN pick = 1..Len(pick) /\ Len(pick) \in Nat
    BY <1>6
  <2> QED
    BY <2>1, <2>2
<1>8. Range(pick) \in SUBSET Int /\ IsFiniteSet(Range(pick))
  BY <1>1, MemoryPositions
<1>9. order \in [1..Cardinality(Range(pick)) -> Range(pick)] /\ Cardinality(Range(pick)) \in Nat
  BY <1>8, AscendingChooses, FS_CardinalityType DEF Choice
<1>10. [n \in DOMAIN order |-> v[order[n]]] \in Seq(Known)
  <2>1. \A n \in DOMAIN order : v[order[n]] \in Known
    <3> HIDE DEF order
    <3> QED
      BY <1>1, <1>9
  <2> HIDE DEF order
  <2> QED
    BY <1>9, <2>1
<1> QED
  BY <1>7, <1>10

\* Steps of the scripts that write no file.
LEMMA ScriptTypes ==
    ASSUME TypeInv, UNCHANGED <<closed, unwritten, added, due, ram, eng, persisted, files>>,
           UNCHANGED <<runs, touched, flushed>>,
           influx' \subseteq influx, script' \in ScriptType, faults' \in 0..MaxFaults
    PROVE  TypeInv'
<1>1. influx' \subseteq Known
  BY DEF TypeInv, TypeOK
<1> QED
  BY <1>1, TypeKept DEF TypeInv, TypeOK

LEMMA StartTypes ==
    ASSUME TypeInv, NEW kind \in Kinds, NEW l \in ScriptLabels, NEW known \in SUBSET Known,
           Starts(kind, l, known), due' \subseteq Known, flushed' \in BOOLEAN
    PROVE  TypeInv'
<1>1. script' \in ScriptType
  <2>1. script' = [pc |-> l, kind |-> kind, vectors |-> <<>>, meta |-> <<>>, attempt |-> 1,
                   known |-> known]
    BY DEF Starts, NoScript
  <2>2. <<>> \in Seq(Known) /\ 1 \in 1..3
    OBVIOUS
  <2> HIDE DEF Known
  <2> QED
    BY <2>1, <2>2 DEF ScriptType
<1>2. runs' \in 0..MaxScripts
  BY BoundsAssumption DEF Starts, TypeInv, TypeOK
<1> QED
  BY <1>1, <1>2, TypeKept DEF Starts, TypeInv, TypeOK, trading, engine

LEMMA ReadingTypes ==
    ASSUME TypeInv, ReadMetadata \/ ReadIndex \/ LoadIndex \/ LoadMetadata
    PROVE  TypeInv'
<1>1. /\ UNCHANGED <<closed, unwritten, added, due, ram, eng, persisted, files>>
      /\ UNCHANGED <<runs, touched, flushed>>
      /\ influx' = influx /\ faults' = faults /\ faults \in 0..MaxFaults
      /\ script \in ScriptType /\ NoScript \in ScriptType
      /\ files.index.data \in Seq(Known) /\ files.meta.data \in Seq(Known)
  <2>1. NoScript \in ScriptType
    BY DEF NoScript, ScriptType, ScriptLabels, Kinds
  <2> QED
    BY <2>1 DEF ReadMetadata, ReadIndex, LoadIndex, LoadMetadata, trading, outcomes, engine, TypeInv,
       TypeOK, ScriptType
<1>2. CASE Ends
  BY <1>1, <1>2, ScriptTypes DEF Ends
<1>3. CASE ReadMetadata /\ ~Ends
  <2>1. script' \in ScriptType
    BY <1>1, <1>3 DEF ReadMetadata, ScriptType, ScriptLabels
  <2> QED
    BY <1>1, <2>1, ScriptTypes
<1>4. CASE ReadIndex /\ ~Ends
  <2> DEFINE m == script.meta
             v == files.index.data
             pick == Chosen(m)
             order == Ascending(Range(pick))
  <2>1. /\ Range(pick) \subseteq DOMAIN v
        /\ script' = [script EXCEPT !.pc = "index",
                        !.meta = [n \in DOMAIN pick |-> m[pick[n]]],
                        !.vectors = [n \in DOMAIN order |-> v[order[n]]]]
    BY <1>4 DEF ReadIndex
  <2>2. m \in Seq(Known)
    BY <1>1 DEF ScriptType
  <2>3. /\ [n \in DOMAIN pick |-> m[pick[n]]] \in Seq(Known)
        /\ [n \in DOMAIN order |-> v[order[n]]] \in Seq(Known)
    BY <1>1, <2>1, <2>2, ChosenTypes
  <2> HIDE DEF m, v, pick, order
  <2>4. script' \in ScriptType
    BY <1>1, <2>1, <2>3 DEF ScriptType, ScriptLabels
  <2> QED
    BY <1>1, <2>4, ScriptTypes
<1>5. CASE LoadIndex /\ ~Ends
  <2>1. script' \in ScriptType
    BY <1>1, <1>5 DEF LoadIndex, ScriptType, ScriptLabels
  <2> QED
    BY <1>1, <2>1, ScriptTypes
<1>6. CASE LoadMetadata /\ ~Ends
  <2> DEFINE accepted == {t \in script.known : ~Refused(closed[t].pnl)}
             new == Ascending(accepted)
  <2>1. script' = [script EXCEPT !.pc = "index", !.vectors = @ \o new, !.meta = files.meta.data \o new]
    BY <1>6 DEF LoadMetadata
  <2>2. accepted \subseteq Known /\ accepted \subseteq Trades
    BY <1>1 DEF ScriptType, TypeInv, TypeOK
  <2>3. accepted \in SUBSET Int /\ IsFiniteSet(accepted)
    <3>1. Cardinality(Trades) \in Nat /\ Trades = 1..Cardinality(Trades)
      BY TradesAssumption, FS_CardinalityType
    <3> QED
      BY <2>2, <3>1, MemoryPositions
  <2>4. new \in [1..Cardinality(accepted) -> accepted] /\ Cardinality(accepted) \in Nat
    BY <2>3, AscendingChooses, FS_CardinalityType DEF Choice
  <2> HIDE DEF new, accepted
  <2>5. new \in Seq(Known)
    BY <2>2, <2>4
  <2>6. script.vectors \o new \in Seq(Known) /\ files.meta.data \o new \in Seq(Known)
    BY <1>1, <2>5 DEF ScriptType
  <2>7. script' \in ScriptType
    BY <1>1, <2>1, <2>6 DEF ScriptType, ScriptLabels
  <2> QED
    BY <1>1, <2>7, ScriptTypes
<1> QED
  BY <1>2, <1>3, <1>4, <1>5, <1>6

LEMMA WritingTypes == ASSUME TypeInv, ScriptWrites \/ Unlink PROVE TypeInv'
<1>1. /\ UNCHANGED <<closed, influx, unwritten, added, due, ram, eng, persisted, runs, faults>>
      /\ touched' = TRUE /\ script \in ScriptType /\ NoScript \in ScriptType
      /\ files \in [index : FileType, meta : FileType] /\ flushed \in BOOLEAN
      /\ files.index.data \in Seq(Known) /\ files.meta.data \in Seq(Known)
  <2>1. NoScript \in ScriptType
    BY DEF NoScript, ScriptType, ScriptLabels, Kinds
  <2> QED
    BY <2>1 DEF ScriptWrites, Unlink, trading, outcomes, engine, TypeInv, TypeOK, ScriptType
<1>2. script' \in ScriptType /\ flushed' \in BOOLEAN
  <2>1. \A l \in ScriptLabels : [script EXCEPT !.pc = l] \in ScriptType
    BY <1>1 DEF ScriptType
  <2>2. script' = NoScript \/ \E l \in ScriptLabels : script' = [script EXCEPT !.pc = l]
    BY DEF ScriptWrites, Unlink, At, Ends, ScriptLabels
  <2>3. flushed' \in {flushed, TRUE}
    BY DEF ScriptWrites, Unlink
  <2> QED
    BY <1>1, <2>1, <2>2, <2>3
<1>3. PICK f \in FileType :
        /\ f.data \in Seq(Known)
        /\ files' = [files EXCEPT !.index = f] \/ files' = [files EXCEPT !.meta = f]
  <2>1. /\ \A s \in Seq(Known) : File(s) \in FileType /\ File(s).data \in Seq(Known)
        /\ Torn \in FileType /\ Missing \in FileType
        /\ Torn.data \in Seq(Known) /\ Missing.data \in Seq(Known)
    <3>1. Known \subseteq Trades
      BY DEF TypeInv, TypeOK
    <3>2. Missing \in FileType /\ Missing.data \in Seq(Known)
      BY DEF Missing, FileType
    <3> QED
      BY <3>1, <3>2, FileTypes
  <2>2. script.vectors \in Seq(Known) /\ script.meta \in Seq(Known)
    BY <1>1 DEF ScriptType
  <2>3. CASE ScriptWrites
    BY <2>1, <2>2, <2>3 DEF ScriptWrites
  <2>4. CASE Unlink
    BY <2>1, <2>4 DEF Unlink
  <2> QED
    BY <2>3, <2>4
<1>4. /\ files' \in [index : FileType, meta : FileType]
      /\ files'.index.data \in Seq(Known) /\ files'.meta.data \in Seq(Known)
  BY <1>1, <1>3
<1> QED
  BY <1>1, <1>2, <1>4, TypeKept DEF TypeInv, TypeOK

LEMMA DeletingTypes == ASSUME TypeInv, DeleteOutcomes \/ FlushRedis \/ ScriptDies PROVE TypeInv'
<1>1. /\ UNCHANGED <<closed, unwritten, added, due, ram, eng, persisted, files>>
      /\ UNCHANGED <<runs, touched, flushed>>
      /\ influx' \subseteq influx /\ script \in ScriptType /\ NoScript \in ScriptType
  <2>1. NoScript \in ScriptType
    BY DEF NoScript, ScriptType, ScriptLabels, Kinds
  <2> QED
    BY <2>1 DEF DeleteOutcomes, FlushRedis, ScriptDies, trading, outcomes, engine, TypeInv, TypeOK,
       ScriptType
<1>2. faults' \in 0..MaxFaults
  <2>1. faults' = faults \/ (faults < MaxFaults /\ faults' = faults + 1)
    BY DEF DeleteOutcomes, FlushRedis, ScriptDies, Fault
  <2>2. faults \in 0..MaxFaults
    BY DEF TypeInv, TypeOK
  <2> QED
    BY <2>1, <2>2, BoundsAssumption
<1>3. script' \in ScriptType
  <2>1. \/ script' = NoScript
        \/ \E l \in ScriptLabels : script' = [script EXCEPT !.pc = l]
        \/ \E a \in 1..3 : script' = [script EXCEPT !.attempt = a]
    BY DEF DeleteOutcomes, FlushRedis, ScriptDies, AfterError, At, Ends, ScriptLabels
  <2> QED
    BY <1>1, <2>1 DEF ScriptType
<1> QED
  BY <1>1, <1>2, <1>3, ScriptTypes

LEMMA TypeInvStep == TypeInv /\ [Next]_vars => TypeInv'
<1> SUFFICES ASSUME TypeInv, [Next]_vars PROVE TypeInv'
  OBVIOUS
<1>1. CASE \E t \in Trades : Close(t) \/ \E w \in Writers : WriteOutcome(w, t)
  BY <1>1, CloseTypes, WriteTypes
<1>2. CASE (\E t \in Trades : Add(t)) \/ Boot \/ BootMetadata \/ Persist \/ Crash
  BY <1>2, EngineTypes
<1>3. CASE StartScript
  <2>1. /\ {"clean", "balance", "backfill", "flush"} \subseteq Kinds
        /\ {"read metadata", "load index", "influx"} \subseteq ScriptLabels
        /\ influx \in SUBSET Known
    BY DEF Kinds, ScriptLabels, TypeInv, TypeOK
  <2>2. {} \in SUBSET Known /\ \A since : InRange(since) \in SUBSET Known
    BY DEF InRange
  <2> HIDE DEF Known
  <2>3. PICK kind \in Kinds, l \in ScriptLabels, known \in SUBSET Known :
          Starts(kind, l, known) /\ due' \in {due, known} /\ flushed' \in {flushed, FALSE}
    BY <1>3, <2>1, <2>2 DEF StartScript
  <2>4. due \subseteq Known /\ flushed \in BOOLEAN
    BY DEF TypeInv, TypeOK
  <2> QED
    BY <2>3, <2>4, StartTypes
<1>4. CASE ScriptStep \/ ScriptDies
  BY <1>4, ReadingTypes, WritingTypes, DeletingTypes DEF ScriptStep
<1>5. CASE UNCHANGED vars
  BY <1>5 DEF TypeInv, TypeOK, Known, vars, trading, outcomes, engine, scripts
<1> QED
  BY <1>1, <1>2, <1>3, <1>4, <1>5 DEF Next

\* Memory, files and scripts hold sequences of closed trades, whatever a rebalancing
\* script picks out of what it has read.
THEOREM MemoryTypeCorrect == Spec => []TypeOK
<1>1. TypeInv => TypeOK
  BY DEF TypeInv
<1> QED
  BY <1>1, TypeInvInit, TypeInvStep, PTL DEF Spec
=============================================================================
