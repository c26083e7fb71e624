--------------------------- MODULE ModelDeployProofs ---------------------------
(***************************************************************************)
(* Proofs about ModelDeploy, for any number of trainings, any scores and   *)
(* any number of faults.                                                   *)
(***************************************************************************)
EXTENDS ModelDeploy, TLAPS

\* A training process that runs has a session.
Holding == \A t \in Trainers : tr[t].pc # "idle" => tr[t].s \in Sessions

TrainerRecords == [pc : TrainLabels, s : {0} \cup Sessions, k : Files]
EngineRecords == [pc : EngineLabels, boot : BOOLEAN, k : Files,
                  version : {Boot} \cup Sessions, got : [Files -> Weights],
                  seen : Nat \X Nat, last : Nat \X Nat]

LEMMA ModTimesType == ASSUME TypeOK PROVE ModTimes \in Nat \X Nat
<1>1. \A v \in {None, Boot} \cup Sessions : DirAt(v) \in Nat
  BY DEF TypeOK, DirAt
<1>2. \A a, b \in Nat : Later(a, b) \in Nat
  BY DEF Later
<1>3. DirAt(manifest.version) \in Nat /\ DirAt(current) \in Nat /\ manifest.at \in Nat
  BY <1>1 DEF TypeOK
<1> QED
  BY <1>2, <1>3 DEF ModTimes

LEMMA ContentType == ASSUME TypeOK PROVE Content(Source(eng.k), eng.k) \in Weights
<1>1. eng.version \in Weights /\ eng.k \in Files
  BY DEF TypeOK, Weights
<1>2. \A v \in Sessions, f \in Files : active[v].files[f] \in Weights
  BY DEF TypeOK
<1>3. Source(eng.k) \in {None, Boot} \cup Sessions
  BY <1>1 DEF TypeOK, Source
<1> QED
  BY <1>1, <1>2, <1>3 DEF Content, Weights

LEMMA EngineType ==
    ASSUME TypeOK
    PROVE  eng \in EngineRecords /\ 1 \in Files /\ {"read", "idle"} \subseteq EngineLabels
  BY DEF TypeOK, EngineRecords, Files, EngineLabels

LEMMA OpenedType ==
    ASSUME TypeOK, NEW w \in Weights, Opened(w)
    PROVE  eng' \in EngineRecords
<1>1. (IF eng.k = 3 THEN 1 ELSE eng.k + 1) \in Files
  BY DEF TypeOK, Files
<1>2. (IF eng.k = 3 THEN "swap" ELSE "open") \in EngineLabels
  BY DEF EngineLabels
<1>3. [eng.got EXCEPT ![eng.k] = w] \in [Files -> Weights]
  BY DEF TypeOK
<1> QED
  BY <1>1, <1>2, <1>3 DEF TypeOK, Opened, EngineRecords

\* The training processes stay well typed whatever one of them does.
LEMMA TrainerUpdate ==
    ASSUME TypeOK, Holding, NEW t \in Trainers, NEW r \in TrainerRecords,
           r.pc # "idle" => r.s \in Sessions, tr' = [tr EXCEPT ![t] = r]
    PROVE  tr' \in [Trainers -> TrainerRecords] /\ Holding'
<1>1. tr \in [Trainers -> TrainerRecords]
  BY DEF TypeOK, TrainerRecords
<1>2. tr' \in [Trainers -> TrainerRecords]
  BY <1>1
<1>3. tr'[t] = r /\ \A u \in Trainers \ {t} : tr'[u] = tr[u]
  BY <1>1
<1> QED
  BY <1>2, <1>3 DEF Holding

LEMMA TrainerStep ==
    ASSUME TypeOK, Holding, NEW t \in Trainers, tr[t].pc # "idle",
           \/ \E l \in TrainLabels : Goto(t, l)
           \/ tr' = [tr EXCEPT ![t].k = @ + 1] /\ tr[t].k # 3
           \/ Exit(t)
    PROVE  tr' \in [Trainers -> TrainerRecords] /\ Holding'
<1> DEFINE w == tr[t]
<1>1. tr \in [Trainers -> TrainerRecords] /\ w \in TrainerRecords /\ w.s \in Sessions
  BY DEF TypeOK, TrainerRecords, Holding
<1>2. CASE \E l \in TrainLabels : Goto(t, l)
  <2>1. PICK l \in TrainLabels : Goto(t, l)
    BY <1>2
  <2> DEFINE r == [w EXCEPT !.pc = l, !.k = 1]
  <2>3. 1 \in Files
    BY DEF Files
  <2>4. r \in TrainerRecords /\ r.s = w.s
    BY <1>1, <2>1, <2>3 DEF TrainerRecords
  <2>5. tr' = [tr EXCEPT ![t] = r]
    BY <1>1, <2>1 DEF Goto
  <2> QED
    BY <1>1, <2>4, <2>5, TrainerUpdate
<1>3. CASE tr' = [tr EXCEPT ![t].k = @ + 1] /\ tr[t].k # 3
  <2> DEFINE r == [w EXCEPT !.k = @ + 1]
  <2>1. w.k + 1 \in Files
    BY <1>1, <1>3 DEF TrainerRecords, Files
  <2>2. r \in TrainerRecords /\ r.s = w.s
    BY <1>1, <2>1 DEF TrainerRecords
  <2>3. tr' = [tr EXCEPT ![t] = r]
    BY <1>1, <1>3
  <2> QED
    BY <1>1, <2>2, <2>3, TrainerUpdate
<1>4. CASE Exit(t)
  <2>1. NoTraining \in TrainerRecords /\ NoTraining.pc = "idle"
    BY DEF NoTraining, TrainerRecords, TrainLabels, Files
  <2> QED
    BY <1>4, <2>1, TrainerUpdate DEF Exit
<1> QED
  BY <1>2, <1>3, <1>4

LEMMA TypeInit == Init => TypeOK /\ Holding
<1> SUFFICES ASSUME Init PROVE TypeOK /\ Holding
  OBVIOUS
<1>1. Boot \in Weights /\ None \in Weights /\ 1 \in Files
  BY DEF Weights, Files
<1>2. /\ staging \in [Files -> Weights]
      /\ active \in [Sessions -> [files : [Files -> Weights], at : Nat]]
  BY <1>1 DEF Init, Bundle
<1>3. manifest \in [version : {Boot} \cup Sessions, at : Nat] /\ current \in {None} \cup Sessions
  BY DEF Init
<1>4. /\ report \in [version : {None} \cup Sessions, acc : {0} \cup Accs]
      /\ acc \in [Sessions -> {0} \cup Accs]
  BY DEF Init
<1>5. tr \in [Trainers -> TrainerRecords] /\ Holding
  BY <1>1 DEF Init, NoTraining, TrainLabels, TrainerRecords, Holding
<1>6. eng \in EngineRecords
  BY <1>1 DEF Init, Starting, EngineLabels, EngineRecords, Bundle
<1>7. served \in [version : {None, Boot} \cup Sessions, files : [Files -> Weights]]
  BY <1>1 DEF Init, Unserved, Bundle
<1>8. sessions = 0 /\ reload = FALSE /\ clock = 0 /\ faults = 0
  BY DEF Init
<1>9. 0 \in 0..MaxSessions /\ 0 \in 0..MaxFaults
  BY MaxSessionsAssumption, MaxFaultsAssumption
<1> QED
  BY <1>2, <1>3, <1>4, <1>5, <1>6, <1>7, <1>8, <1>9 DEF TypeOK, TrainerRecords, EngineRecords

LEMMA TypeStep == ASSUME TypeOK, Holding, [Next]_vars PROVE TypeOK' /\ Holding'
<1> USE MaxSessionsAssumption, MaxFaultsAssumption DEF disk, engine, TrainerRecords, EngineRecords
<1>1. ASSUME NEW t \in Trainers, Start(t) PROVE TypeOK' /\ Holding'
  <2>1. sessions' \in Sessions /\ sessions' \in 0..MaxSessions
    BY <1>1 DEF Start, Sessions, TypeOK
  <2> DEFINE r == [pc |-> "train", s |-> sessions', k |-> 1]
  <2>2. r \in TrainerRecords
    BY <2>1 DEF TrainerRecords, TrainLabels, Files
  <2>3. tr' \in [Trainers -> TrainerRecords] /\ Holding'
    BY <1>1, <2>1, <2>2, TrainerUpdate DEF Start
  <2> QED
    BY <1>1, <2>1, <2>3 DEF Start, TypeOK, TrainerRecords
<1>2. ASSUME NEW t \in Trainers, Train(t) PROVE TypeOK' /\ Holding'
  <2>1. tr[t].pc # "idle" /\ tr[t].s \in Sessions
    BY <1>2 DEF Train, Insufficient, Evaluate, Export, Copy, Unlink, Link, WriteManifest,
       PublishReload, WriteReport, Holding
  <2>2. CASE Insufficient(t)
    BY <2>1, <2>2, TrainerStep DEF Insufficient, TypeOK
  <2>3. CASE Evaluate(t)
    <3>1. PICK best \in Accs, major \in BOOLEAN :
              /\ acc' = [acc EXCEPT ![tr[t].s] = best]
              /\ \/ Goto(t, "export") /\ UNCHANGED report
                 \/ Exit(t) /\ report' = [version |-> None, acc |-> 0]
      BY <2>3 DEF Evaluate
    <3>2. "export" \in TrainLabels
      BY DEF TrainLabels
    <3>3. tr' \in [Trainers -> TrainerRecords] /\ Holding'
      BY <2>1, <3>1, <3>2, TrainerStep
    <3>4. acc' \in [Sessions -> {0} \cup Accs]
          /\ report' \in [version : {None} \cup Sessions, acc : {0} \cup Accs]
      <4>1. acc \in [Sessions -> {0} \cup Accs] /\ report \in [version : {None} \cup Sessions, acc : {0} \cup Accs]
        BY DEF TypeOK
      <4>2. acc' \in [Sessions -> {0} \cup Accs]
        BY <3>1, <4>1
      <4>3. report' \in [version : {None} \cup Sessions, acc : {0} \cup Accs]
        BY <3>1, <4>1
      <4> QED
        BY <4>2, <4>3
    <3> QED
      BY <2>3, <3>3, <3>4 DEF Evaluate, TypeOK
  <2>4. CASE Export(t) \/ Copy(t)
    <3>1. "copy" \in TrainLabels /\ "unlink" \in TrainLabels
      BY DEF TrainLabels
    <3>2. tr' \in [Trainers -> TrainerRecords] /\ Holding'
      <4>1. CASE tr[t].k = 3
        BY <2>1, <2>4, <3>1, <4>1, TrainerStep DEF Export, Copy
      <4>2. CASE tr[t].k # 3
        BY <2>1, <2>4, <4>2, TrainerStep DEF Export, Copy
      <4> QED
        BY <4>1, <4>2
    <3>3. CASE Export(t)
      BY <2>1, <3>2, <3>3 DEF Export, TypeOK, Weights
    <3>4. CASE Copy(t)
      <4>1. clock' \in Nat
        BY <3>4 DEF Copy, TypeOK
      <4>2. [active[tr[t].s].files EXCEPT ![tr[t].k] = staging[tr[t].k]] \in [Files -> Weights]
        BY <2>1 DEF TypeOK
      <4>3. active' \in [Sessions -> [files : [Files -> Weights], at : Nat]]
        BY <2>1, <3>4, <4>1, <4>2 DEF Copy, TypeOK
      <4> QED
        BY <3>2, <3>4, <4>1, <4>3 DEF Copy, TypeOK
    <3> QED
      BY <2>4, <3>3, <3>4
  <2>5. CASE Unlink(t) \/ Link(t) \/ WriteManifest(t) \/ PublishReload(t)
    <3>1. {"link", "manifest", "publish", "report"} \subseteq TrainLabels
      BY DEF TrainLabels
    <3>2. tr' \in [Trainers -> TrainerRecords] /\ Holding'
      BY <2>1, <2>5, <3>1, TrainerStep DEF Unlink, Link, WriteManifest, PublishReload
    <3>3. CASE Unlink(t)
      BY <2>1, <3>2, <3>3 DEF Unlink, TypeOK
    <3>4. CASE Link(t)
      BY <2>1, <3>2, <3>4 DEF Link, TypeOK
    <3>5. CASE WriteManifest(t)
      BY <2>1, <3>2, <3>5 DEF WriteManifest, TypeOK
    <3>6. CASE PublishReload(t)
      BY <2>1, <3>2, <3>6 DEF PublishReload, TypeOK
    <3> QED
      BY <2>5, <3>3, <3>4, <3>5, <3>6
  <2>6. CASE WriteReport(t)
    BY <2>1, <2>6, TrainerStep DEF WriteReport, TypeOK
  <2> QED
    BY <1>2, <2>2, <2>3, <2>4, <2>5, <2>6 DEF Train
<1>3. ASSUME NEW t \in Trainers, TrainerDies(t) PROVE TypeOK' /\ Holding'
  BY <1>3, TrainerStep DEF TrainerDies, TypeOK
<1>4. CASE Load
  <2>1. CASE Boots
    <3>1. eng' = [eng EXCEPT !.pc = "read", !.k = 1]
      BY <2>1 DEF Boots
    <3>2. eng' \in EngineRecords
      BY <3>1, EngineType DEF EngineRecords
    <3> QED
      BY <2>1, <3>2 DEF Boots, TypeOK, Holding
  <2>2. CASE ReadManifest
    BY <2>2 DEF ReadManifest, TypeOK, Holding, EngineLabels, Bundle, Weights
  <2>3. CASE OpenFile
    BY <2>3, ContentType, OpenedType DEF OpenFile, TypeOK, Holding
  <2>4. CASE Swap
    BY <2>4 DEF Swap, TypeOK, Holding, EngineLabels
  <2>5. CASE Stamp
    BY <2>5, ModTimesType DEF Stamp, TypeOK, Holding, EngineLabels
  <2> QED
    BY <1>4, <2>1, <2>2, <2>3, <2>4, <2>5 DEF Load
<1>5. CASE Hear
  <2>1. eng' = [eng EXCEPT !.pc = "read", !.k = 1, !.seen = ModTimes]
    BY <1>5 DEF Hear, ReloadMessage, Watch, BeginLoad
  <2>2. eng' \in EngineRecords
    BY <2>1, EngineType, ModTimesType DEF EngineRecords
  <2> QED
    BY <1>5, <2>2 DEF Hear, ReloadMessage, Watch, TypeOK, Holding
<1>6. CASE RestoreBootstrap
  <2> DEFINE v == Source(eng.k)
  <2>1. v \in Sessions /\ clock' = clock + 1 /\ faults' = faults + 1 /\ faults < MaxFaults
        /\ active' = [active EXCEPT ![v] = [files |-> [active[v].files EXCEPT ![eng.k] = Boot],
                                            at |-> clock']]
    BY <1>6 DEF RestoreBootstrap
  <2>2. active' \in [Sessions -> [files : [Files -> Weights], at : Nat]] /\ clock' \in Nat
    <3>1. clock' \in Nat /\ active \in [Sessions -> [files : [Files -> Weights], at : Nat]]
      BY <2>1 DEF TypeOK
    <3>2. [active[v].files EXCEPT ![eng.k] = Boot] \in [Files -> Weights]
      BY <2>1, <3>1 DEF Weights
    <3> QED
      BY <2>1, <3>1, <3>2
  <2>3. Boot \in Weights
    BY DEF Weights
  <2>4. eng' \in EngineRecords
    BY <1>6, <2>3, OpenedType DEF RestoreBootstrap
  <2> QED
    <3>1. faults' \in 0..MaxFaults
      BY <2>1 DEF TypeOK
    <3>2. UNCHANGED <<staging, current, manifest, report, tr, sessions, acc, served, reload>>
      BY <1>6 DEF RestoreBootstrap
    <3>3. Holding'
      BY <3>2 DEF Holding
    <3> QED
      BY <2>2, <2>4, <3>1, <3>2, <3>3 DEF TypeOK
<1>7. CASE LoadFails \/ Restart
  <2>1. Starting \in EngineRecords
    BY DEF Starting, EngineLabels, Files, Bundle, Weights
  <2>2. Unserved \in [version : {None, Boot} \cup Sessions, files : [Files -> Weights]]
    BY DEF Unserved, Bundle, Weights
  <2>3. CASE LoadFails
    <3>1. eng' = Starting \/ eng' = [eng EXCEPT !.pc = "idle", !.k = 1]
      BY <2>3 DEF LoadFails
    <3>2. eng' \in EngineRecords
      BY <2>1, <3>1, EngineType DEF EngineRecords
    <3> QED
      BY <2>3, <3>2 DEF LoadFails, TypeOK, Holding
  <2>4. CASE Restart
    <3>1. tr' \in [Trainers -> TrainerRecords] /\ Holding'
      BY <2>4 DEF Restart, NoTraining, Holding, TrainLabels, Files
    <3>2. /\ eng' \in EngineRecords
          /\ served' \in [version : {None, Boot} \cup Sessions, files : [Files -> Weights]]
      BY <2>1, <2>2, <2>4 DEF Restart
    <3> QED
      <4>1. faults' \in 0..MaxFaults /\ reload' \in BOOLEAN
        <5>1. faults \in 0..MaxFaults
          BY DEF TypeOK
        <5>2. faults < MaxFaults /\ faults' = faults + 1 /\ reload' = FALSE
          BY <2>4 DEF Restart
        <5>3. faults' \in 0..MaxFaults
          BY <5>1, <5>2
        <5> QED
          BY <5>2, <5>3
      <4>2. UNCHANGED <<disk, sessions, acc, clock>>
        BY <2>4 DEF Restart
      <4> QED
        BY <3>1, <3>2, <4>1, <4>2 DEF TypeOK, TrainerRecords, EngineRecords
  <2> QED
    BY <1>7, <2>3, <2>4
<1>8. CASE UNCHANGED vars
  BY <1>8 DEF vars, TypeOK, Holding
<1> QED
  BY <1>1, <1>2, <1>3, <1>4, <1>5, <1>6, <1>7, <1>8 DEF Next

\* The engine, the disk and the training processes stay well typed, for any
\* number of trainers, trainings and faults.
THEOREM DeployTypeCorrect == Spec => []TypeOK
<1>1. Init => TypeOK /\ Holding
  BY TypeInit
<1>2. TypeOK /\ Holding /\ [Next]_vars => (TypeOK /\ Holding)'
  BY TypeStep
<1> QED
  BY <1>1, <1>2, PTL DEF Spec
-----------------------------------------------------------------------------
(***************************************************************************)
(* The engine's own worker is the only trainer                             *)
(***************************************************************************)
OneTrainer == Trainers = {"worker"}
worker == tr["worker"]

Right(v, f) == active[v].files[f] \in {v, Boot}
Complete(v) == \A f \in Files : Right(v, f)

\* What a promotion has achieved, label by label: the staging directory up to the
\* file at hand, then the directory of the version.
Deploying ==
    /\ worker.pc = "export" => \A f \in Files : f < worker.k => staging[f] = worker.s
    /\ worker.pc = "copy" =>
         /\ \A f \in Files : staging[f] = worker.s
         /\ \A f \in Files : f < worker.k => Right(worker.s, f)
    /\ worker.pc \in {"unlink", "link", "manifest", "publish", "report"} => Complete(worker.s)

\* The version a load has read stays complete while the load opens its files.
LoadsOne ==
    /\ eng.version \in Sessions => Complete(eng.version)
    /\ \A f \in Files : eng.got[f] \in {None, Boot, eng.version}
    /\ \A f \in Files : served.files[f] \in {None, Boot, served.version}

LEMMA WorkerMoves ==
    ASSUME TypeOK, OneTrainer
    PROVE  /\ worker \in TrainerRecords
           /\ \A l : Goto("worker", l) => worker'.pc = l /\ worker'.s = worker.s /\ worker'.k = 1
           /\ Exit("worker") => worker'.pc = "idle"
           /\ tr' = [tr EXCEPT !["worker"].k = @ + 1] =>
                worker'.pc = worker.pc /\ worker'.s = worker.s /\ worker'.k = worker.k + 1
<1>1. tr \in [Trainers -> TrainerRecords] /\ "worker" \in Trainers
  BY DEF TypeOK, OneTrainer, TrainerRecords
<1>2. worker \in TrainerRecords
  BY <1>1 DEF worker
<1>3. ASSUME NEW l, Goto("worker", l)
      PROVE  worker'.pc = l /\ worker'.s = worker.s /\ worker'.k = 1
  BY <1>1, <1>2, <1>3 DEF Goto, worker, TrainerRecords
<1>4. ASSUME Exit("worker") PROVE worker'.pc = "idle"
  BY <1>1, <1>4 DEF Exit, NoTraining, worker
<1>5. ASSUME tr' = [tr EXCEPT !["worker"].k = @ + 1]
      PROVE  worker'.pc = worker.pc /\ worker'.s = worker.s /\ worker'.k = worker.k + 1
  BY <1>1, <1>2, <1>5 DEF worker, TrainerRecords
<1> QED
  BY <1>2, <1>3, <1>4, <1>5

\* A step of the system is one of the worker, of the engine, or changes neither the
\* directories nor the worker.
LEMMA StepsOfOne ==
    ASSUME OneTrainer, [Next]_vars
    PROVE  \/ Start("worker") \/ Train("worker") \/ TrainerDies("worker")
           \/ Load \/ Hear \/ RestoreBootstrap \/ LoadFails \/ Restart \/ UNCHANGED vars
  BY DEF OneTrainer, Next

\* A right file stays right: the worker copies only what it has exported.
LEMMA RightStays ==
    ASSUME TypeOK, Holding, OneTrainer, Deploying, [Next]_vars,
           NEW v \in Sessions, NEW f \in Files, Right(v, f)
    PROVE  Right(v, f)'
<1>1. active \in [Sessions -> [files : [Files -> Weights], at : Nat]]
  BY DEF TypeOK
<1>2. CASE Copy("worker")
  <2>1. worker.pc = "copy" /\ worker.s \in Sessions /\ worker.k \in Files
    BY <1>2, WorkerMoves DEF Copy, Holding, OneTrainer, worker, TrainerRecords
  <2>2. staging[worker.k] = worker.s
    BY <2>1 DEF Deploying
  <2>3. active' = [active EXCEPT ![worker.s] =
                     [files |-> [active[worker.s].files EXCEPT ![worker.k] = worker.s],
                      at |-> clock']]
    BY <1>2, <2>2 DEF Copy, worker
  <2>4. v # worker.s => active'[v] = active[v]
    BY <1>1, <2>3
  <2>5. v = worker.s =>
          active'[v].files[f] = IF f = worker.k THEN worker.s ELSE active[v].files[f]
    BY <1>1, <2>1, <2>3
  <2> QED
    BY <2>4, <2>5 DEF Right
<1>3. CASE RestoreBootstrap
  <2> DEFINE u == Source(eng.k)
  <2>1. u \in Sessions /\ eng.k \in Files
        /\ active' = [active EXCEPT ![u] = [files |-> [active[u].files EXCEPT ![eng.k] = Boot],
                                            at |-> clock']]
    BY <1>3 DEF RestoreBootstrap, TypeOK
  <2>2. v # u => active'[v] = active[v]
    BY <1>1, <2>1
  <2>3. v = u => active'[v].files[f] = IF f = eng.k THEN Boot ELSE active[v].files[f]
    BY <1>1, <2>1
  <2> QED
    BY <2>2, <2>3 DEF Right
<1>4. CASE ~Copy("worker") /\ ~RestoreBootstrap
  <2>1. active' = active
    BY <1>4, StepsOfOne DEF Start, Train, Insufficient, Evaluate, Export, Unlink, Link,
       WriteManifest, PublishReload, WriteReport, TrainerDies, Load, Boots, ReadManifest,
       OpenFile, Swap, Stamp, Hear, ReloadMessage, Watch, LoadFails, Restart, vars, disk
  <2> QED
    BY <2>1 DEF Right
<1> QED
  BY <1>2, <1>3, <1>4

\* A step of the worker brings the staging directory and the version further.
LEMMA DeployingStep ==
    ASSUME TypeOK, Holding, OneTrainer, Deploying, [Next]_vars
    PROVE  Deploying'
<1>1. CASE UNCHANGED <<tr, staging>>
  <2>1. worker' = worker
    BY <1>1 DEF worker
  <2>2. worker.pc # "idle" => worker.s \in Sessions
    BY DEF Holding, OneTrainer, worker
  <2>3. worker.pc = "copy" =>
          \A f \in Files : f < worker.k => active'[worker.s].files[f] \in {worker.s, Boot}
    BY <2>2, RightStays DEF Deploying, Right
  <2>4. worker.pc \in {"unlink", "link", "manifest", "publish", "report"} =>
          \A f \in Files : active'[worker.s].files[f] \in {worker.s, Boot}
    BY <2>2, RightStays DEF Deploying, Complete, Right
  <2> QED
    BY <1>1, <2>1, <2>3, <2>4 DEF Deploying, Complete, Right
<1>2. CASE worker'.pc \in {"idle", "train"}
  BY <1>2 DEF Deploying
<1>3. CASE Train("worker")
  <2>1. worker.pc # "idle" /\ worker.s \in Sessions
    BY <1>3 DEF Train, Insufficient, Evaluate, Export, Copy, Unlink, Link, WriteManifest,
       PublishReload, WriteReport, Holding, OneTrainer, worker
  <2>2. CASE Insufficient("worker") \/ WriteReport("worker")
    BY <1>2, <2>2, WorkerMoves DEF Insufficient, WriteReport
  <2>3. CASE Evaluate("worker")
    <3>1. Goto("worker", "export") \/ Exit("worker")
      BY <2>3 DEF Evaluate
    <3>2. CASE Goto("worker", "export")
      <4>1. worker'.pc = "export" /\ worker'.k = 1
        BY <3>2, WorkerMoves
      <4> QED
        BY <4>1 DEF Deploying, Files
    <3> QED
      BY <1>2, <3>1, <3>2, WorkerMoves
  <2>4. CASE Export("worker")
    <3>1. worker.pc = "export" /\ staging \in [Files -> Weights]
          /\ staging' = [staging EXCEPT ![worker.k] = worker.s]
      BY <2>4 DEF Export, worker, TypeOK
    <3>2. worker.k \in Files
      BY WorkerMoves DEF TrainerRecords
    <3>3. \A f \in Files : f <= worker.k => staging'[f] = worker.s
      BY <3>1, <3>2 DEF Deploying, Files
    <3>4. CASE worker.k = 3
      <4>1. worker'.pc = "copy" /\ worker'.s = worker.s /\ worker'.k = 1
        BY <2>4, <3>4, WorkerMoves DEF Export, worker
      <4> QED
        BY <3>3, <3>4, <4>1 DEF Deploying, Files
    <3>5. CASE worker.k # 3
      <4>1. worker'.pc = "export" /\ worker'.s = worker.s /\ worker'.k = worker.k + 1
        BY <2>4, <3>1, <3>5, WorkerMoves DEF Export, worker
      <4> QED
        BY <3>2, <3>3, <4>1 DEF Deploying, Files
    <3> QED
      BY <3>4, <3>5
  <2>5. CASE Copy("worker")
    <3>1. worker.pc = "copy" /\ staging' = staging
          /\ active' = [active EXCEPT ![worker.s] =
                          [files |-> [active[worker.s].files EXCEPT ![worker.k] = staging[worker.k]],
                           at |-> clock']]
      BY <2>5 DEF Copy, worker
    <3>2. worker.k \in Files /\ active \in [Sessions -> [files : [Files -> Weights], at : Nat]]
      BY WorkerMoves DEF TrainerRecords, TypeOK
    <3>3. active'[worker.s].files[worker.k] = worker.s
      BY <2>1, <3>1, <3>2 DEF Deploying
    <3>4. \A f \in Files : f < worker.k => active'[worker.s].files[f] \in {worker.s, Boot}
      BY <2>1, <3>1, RightStays DEF Deploying, Right
    <3>5. \A f \in Files : f <= worker.k => active'[worker.s].files[f] \in {worker.s, Boot}
      BY <3>2, <3>3, <3>4 DEF Files
    <3>6. CASE worker.k = 3
      <4>1. worker'.pc = "unlink" /\ worker'.s = worker.s
        BY <2>5, <3>6, WorkerMoves DEF Copy, worker
      <4> QED
        BY <3>5, <3>6, <4>1 DEF Deploying, Complete, Right, Files
    <3>7. CASE worker.k # 3
      <4>1. worker'.pc = "copy" /\ worker'.s = worker.s /\ worker'.k = worker.k + 1
        BY <2>5, <3>1, <3>7, WorkerMoves DEF Copy, worker
      <4>2. \A f \in Files : f < worker.k + 1 => f <= worker.k
        BY <3>2 DEF Files
      <4>3. \A f \in Files : staging'[f] = worker.s
        BY <3>1 DEF Deploying
      <4> QED
        BY <3>5, <4>1, <4>2, <4>3 DEF Deploying, Right
    <3> QED
      BY <3>6, <3>7
  <2>6. CASE Unlink("worker") \/ Link("worker") \/ WriteManifest("worker")
             \/ PublishReload("worker")
    <3>1. worker.pc \in {"unlink", "link", "manifest", "publish"} /\ worker'.s = worker.s
          /\ worker'.pc \in {"link", "manifest", "publish", "report"}
      BY <2>6, WorkerMoves DEF Unlink, Link, WriteManifest, PublishReload, worker
    <3>2. \A f \in Files : active'[worker.s].files[f] \in {worker.s, Boot}
      BY <2>1, <3>1, RightStays DEF Deploying, Complete, Right
    <3> QED
      BY <3>1, <3>2 DEF Deploying, Complete, Right
  <2> QED
    BY <1>3, <2>2, <2>3, <2>4, <2>5, <2>6 DEF Train
<1>4. CASE Start("worker") \/ TrainerDies("worker") \/ Restart
  <2>1. CASE Start("worker")
    BY <1>2, <2>1 DEF Start, worker, TypeOK, OneTrainer
  <2>2. CASE TrainerDies("worker")
    BY <1>2, <2>2, WorkerMoves DEF TrainerDies
  <2>3. CASE Restart
    BY <1>2, <2>3 DEF Restart, NoTraining, worker, OneTrainer
  <2> QED
    BY <1>4, <2>1, <2>2, <2>3
<1>5. CASE Load \/ Hear \/ RestoreBootstrap \/ LoadFails \/ UNCHANGED vars
  BY <1>1, <1>5 DEF Load, Boots, ReadManifest, OpenFile, Swap, Stamp, Hear, ReloadMessage, Watch,
     RestoreBootstrap, LoadFails, vars, disk
<1> QED
  BY <1>3, <1>4, <1>5, StepsOfOne

\* The manifest moves to a version that is complete.
LEMMA ManifestStep ==
    ASSUME TypeOK, Holding, OneTrainer, Deploying, ManifestComplete, [Next]_vars
    PROVE  ManifestComplete'
<1>1. CASE WriteManifest("worker")
  <2>1. worker.pc = "manifest" /\ worker.s \in Sessions /\ manifest'.version = worker.s
    BY <1>1 DEF WriteManifest, worker, Holding, OneTrainer
  <2>2. \A f \in Files : active'[worker.s].files[f] \in {worker.s, Boot}
    BY <2>1, RightStays DEF Deploying, Complete, Right
  <2> QED
    BY <2>1, <2>2 DEF ManifestComplete
<1>2. CASE manifest' = manifest
  <2>1. manifest.version \in Sessions =>
          \A f \in Files : active'[manifest.version].files[f] \in {manifest.version, Boot}
    BY RightStays DEF ManifestComplete, Right
  <2> QED
    BY <1>2, <2>1 DEF ManifestComplete
<1>3. WriteManifest("worker") \/ manifest' = manifest
  BY StepsOfOne DEF Start, Train, Insufficient, Evaluate, Export, Copy, Unlink, Link,
     PublishReload, WriteReport, TrainerDies, Load, Boots, ReadManifest, OpenFile, Swap, Stamp,
     Hear, ReloadMessage, Watch, RestoreBootstrap, LoadFails, Restart, vars, disk
<1> QED
  BY <1>1, <1>2, <1>3

\* The file at hand comes from the version the load has read, or from the image.
LEMMA ReadsOne ==
    ASSUME TypeOK, LoadsOne
    PROVE  Content(Source(eng.k), eng.k) \in {None, Boot, eng.version}
<1>1. eng.k \in Files /\ eng.version \in {Boot} \cup Sessions
  BY DEF TypeOK
<1>2. CASE eng.version \in Sessions
  <2>1. active[eng.version].files[eng.k] \in {eng.version, Boot}
    BY <1>1, <1>2 DEF LoadsOne, Complete, Right
  <2>2. Source(eng.k) = eng.version
    BY <1>2, <2>1 DEF Source, None, Boot, Sessions
  <2> QED
    BY <1>2, <2>1, <2>2 DEF Content
<1>3. CASE eng.version \notin Sessions
  BY <1>1, <1>3 DEF Source, Content
<1> QED
  BY <1>2, <1>3

LEMMA LoadsStep ==
    ASSUME TypeOK, Holding, OneTrainer, Deploying, ManifestComplete, LoadsOne, [Next]_vars
    PROVE  LoadsOne'
<1>1. eng.version \in Sessions =>
        \A f \in Files : active'[eng.version].files[f] \in {eng.version, Boot}
  BY RightStays DEF LoadsOne, Complete, Right
<1>2. eng.got \in [Files -> Weights] /\ eng.k \in Files
  BY DEF TypeOK
<1>3. CASE /\ eng'.version = eng.version /\ eng'.got = eng.got
           /\ served' = served
  BY <1>1, <1>3 DEF LoadsOne, Complete, Right
<1>4. CASE ReadManifest
  <2>1. eng'.version = manifest.version /\ eng'.got = Bundle(None) /\ served' = served
        /\ active' = active
    BY <1>4 DEF ReadManifest, disk, TypeOK
  <2>2. \A f \in Files : eng'.got[f] = None
    BY <2>1 DEF Bundle
  <2>3. manifest.version \in Sessions =>
          \A f \in Files : active'[manifest.version].files[f] \in {manifest.version, Boot}
    BY <2>1 DEF ManifestComplete
  <2> QED
    BY <2>1, <2>2, <2>3 DEF LoadsOne, Complete, Right
<1>5. CASE OpenFile \/ RestoreBootstrap
  <2>1. PICK w \in {None, Boot, eng.version} : Opened(w)
    BY <1>5, ReadsOne DEF OpenFile, RestoreBootstrap
  <2>2. eng'.version = eng.version /\ eng'.got = [eng.got EXCEPT ![eng.k] = w]
    BY <2>1 DEF Opened, TypeOK
  <2>3. \A f \in Files : eng'.got[f] \in {None, Boot, eng.version}
    BY <1>2, <2>1, <2>2 DEF LoadsOne
  <2>4. served' = served
    BY <1>5 DEF OpenFile, RestoreBootstrap
  <2> QED
    BY <1>1, <2>2, <2>3, <2>4 DEF LoadsOne, Complete, Right
<1>6. CASE Swap
  <2>1. served' = [version |-> eng.version, files |-> eng.got]
        /\ eng'.version = eng.version /\ eng'.got = eng.got
    BY <1>6 DEF Swap, TypeOK
  <2> QED
    BY <1>1, <2>1 DEF LoadsOne, Complete, Right
<1>7. CASE Restart \/ (LoadFails /\ eng' = Starting)
  <2>1. eng' = Starting /\ (served' = Unserved \/ served' = served)
    BY <1>7 DEF Restart, LoadFails
  <2>2. Boot \notin Sessions
    BY DEF Boot, Sessions
  <2>3. \A f \in Files : eng'.got[f] = None
    BY <2>1 DEF Starting, Bundle
  <2>4. \A f \in Files : served'.files[f] \in {None, Boot, served'.version}
    BY <2>1 DEF Unserved, Bundle, LoadsOne
  <2> QED
    BY <2>1, <2>2, <2>3, <2>4 DEF LoadsOne, Starting
<1>8. CASE Boots \/ Stamp \/ Hear \/ (LoadFails /\ eng' # Starting)
  BY <1>3, <1>8 DEF Boots, Stamp, Hear, ReloadMessage, Watch, BeginLoad, LoadFails, TypeOK
<1>9. CASE Start("worker") \/ Train("worker") \/ TrainerDies("worker") \/ UNCHANGED vars
  BY <1>3, <1>9 DEF Start, Train, Insufficient, Evaluate, Export, Copy, Unlink, Link,
     WriteManifest, PublishReload, WriteReport, TrainerDies, engine, vars
<1>10. CASE Load \/ LoadFails
  BY <1>4, <1>5, <1>6, <1>7, <1>8, <1>10 DEF Load
<1> QED
  BY <1>5, <1>7, <1>8, <1>9, <1>10, StepsOfOne

DeployInv == TypeOK /\ Holding /\ Deploying /\ ManifestComplete /\ LoadsOne

LEMMA DeployInit == ASSUME OneTrainer, Init PROVE DeployInv
<1>1. worker.pc = "idle"
  BY DEF Init, OneTrainer, NoTraining, worker
<1>2. Deploying
  BY <1>1 DEF Deploying
<1>3. ManifestComplete
  BY DEF Init, ManifestComplete, Boot, Sessions
<1>4. LoadsOne
  BY DEF Init, LoadsOne, Starting, Unserved, Bundle, Boot, Sessions
<1> QED
  BY <1>2, <1>3, <1>4, TypeInit DEF DeployInv

LEMMA DeployStep == ASSUME OneTrainer, DeployInv, [Next]_vars PROVE DeployInv'
  BY TypeStep, DeployingStep, ManifestStep, LoadsStep DEF DeployInv

\* Wherever a promotion is cut, and however many there are, the manifest names a
\* directory with all files of one training (or of the image), as long as the
\* engine's worker is the only trainer.
THEOREM ManifestAlwaysComplete == ASSUME OneTrainer PROVE Spec => []ManifestComplete
<1>1. Init => DeployInv
  BY DeployInit
<1>2. DeployInv /\ [Next]_vars => DeployInv'
  BY DeployStep
<1>3. DeployInv => ManifestComplete
  BY DEF DeployInv
<1> QED
  BY <1>1, <1>2, <1>3, PTL DEF Spec

\* The engine never serves files of two trainings, however its loads race with
\* promotions.
THEOREM BundleOfOneTraining == ASSUME OneTrainer PROVE Spec => []ServedFromOneTraining
<1>1. Init => DeployInv
  BY DeployInit
<1>2. DeployInv /\ [Next]_vars => DeployInv'
  BY DeployStep
<1>3. DeployInv => ServedFromOneTraining
  <2>1. None \notin Sessions /\ Boot \notin Sessions
    BY DEF None, Boot, Sessions
  <2> QED
    BY <2>1 DEF DeployInv, LoadsOne, ServedFromOneTraining
<1> QED
  BY <1>1, <1>2, <1>3, PTL DEF Spec
-----------------------------------------------------------------------------
(***************************************************************************)
(* What a promotion is compared with, and the abstract deployment          *)
(***************************************************************************)
Deciding == {"train", "export", "copy", "unlink", "link", "manifest"}
Promoting == {"export", "copy", "unlink", "link", "manifest", "publish", "report"}

\* The session of the running training is newer than whatever is on disk.
WorkerOrdered ==
    /\ manifest.version <= sessions /\ report.version <= sessions
    /\ worker.pc # "idle" => worker.s = sessions /\ report.version < worker.s
    /\ worker.pc \in Deciding => manifest.version < worker.s

\* A training on its way to the manifest was compared with the report on disk.
Judged ==
    /\ report.version \in Sessions => report.acc = acc[report.version]
    /\ worker.pc \in Promoting /\ report.version \in Sessions => acc[worker.s] >= report.acc - 5

\* A load never reads an older version than the one the engine serves.
EngineOrdered ==
    /\ eng.version <= manifest.version /\ served.version <= manifest.version
    /\ eng.pc \in {"open", "swap"} => served.version <= eng.version

LEMMA Numbers ==
    ASSUME TypeOK
    PROVE  /\ sessions \in Nat /\ manifest.version \in Nat
           /\ report.version \in Int /\ report.version >= -1
           /\ served.version \in Int /\ served.version >= -1
           /\ eng.version \in Nat /\ Sessions \subseteq Nat
<1>1. Sessions \subseteq Nat /\ 0..MaxSessions \subseteq Nat
  BY MaxSessionsAssumption DEF Sessions
<1>2. Boot \in Nat /\ Boot >= -1 /\ None \in Int /\ None >= -1
  BY DEF Boot, None
<1>3. \A n \in Nat : n \in Int /\ n >= -1
  OBVIOUS
<1>4. sessions \in 0..MaxSessions /\ manifest.version \in {Boot} \cup Sessions
      /\ report.version \in {None} \cup Sessions
  BY DEF TypeOK
<1>5. served.version \in {None, Boot} \cup Sessions /\ eng.version \in {Boot} \cup Sessions
  BY DEF TypeOK
<1> HIDE DEF Sessions, Boot, None
<1> QED
  BY <1>1, <1>2, <1>3, <1>4, <1>5

\* What the steps of the worker do to the files its order and its judgement rest on.
LEMMA WorkerCases ==
    ASSUME TypeOK, Holding, OneTrainer, [Next]_vars
    PROVE  \/ UNCHANGED <<tr, manifest, report, sessions, acc>>
           \/ Start("worker")
           \/ worker'.pc = "idle" /\ UNCHANGED <<manifest, report, sessions, acc>>
           \/ Insufficient("worker") \/ Evaluate("worker") \/ WriteManifest("worker")
           \/ WriteReport("worker")
           \/ /\ worker.pc \in Promoting /\ worker'.pc \in Promoting
              /\ worker'.pc \in Deciding => worker.pc \in Deciding
              /\ worker'.s = worker.s
              /\ UNCHANGED <<manifest, report, sessions, acc>>
<1>1. CASE Load \/ Hear \/ RestoreBootstrap \/ LoadFails \/ UNCHANGED vars
  BY <1>1 DEF Load, Boots, ReadManifest, OpenFile, Swap, Stamp, Hear, ReloadMessage, Watch,
     RestoreBootstrap, LoadFails, vars, disk
<1>2. CASE Restart
  <2>1. worker'.pc = "idle"
    BY <1>2 DEF Restart, NoTraining, worker, OneTrainer
  <2> QED
    BY <1>2, <2>1 DEF Restart, disk
<1>3. CASE TrainerDies("worker")
  BY <1>3, WorkerMoves DEF TrainerDies, disk
<1>4. CASE Export("worker") \/ Copy("worker")
  <2>1. worker'.pc \in {worker.pc, "copy", "unlink"} /\ worker'.s = worker.s
        /\ worker.pc \in {"export", "copy"}
    BY <1>4, WorkerMoves DEF Export, Copy, worker
  <2> QED
    BY <1>4, <2>1 DEF Export, Copy, Promoting, Deciding
<1>5. CASE Unlink("worker") \/ Link("worker") \/ PublishReload("worker")
  <2>1. CASE Unlink("worker") \/ Link("worker")
    <3>1. worker.pc \in {"unlink", "link"} /\ worker'.pc \in {"link", "manifest"}
          /\ worker'.s = worker.s
      BY <2>1, WorkerMoves DEF Unlink, Link, worker
    <3> QED
      BY <2>1, <3>1 DEF Unlink, Link, Promoting, Deciding
  <2>2. CASE PublishReload("worker")
    <3>1. worker.pc = "publish" /\ worker'.pc = "report" /\ worker'.s = worker.s
      BY <2>2, WorkerMoves DEF PublishReload, worker
    <3> QED
      BY <2>2, <3>1 DEF PublishReload, Promoting, Deciding, disk
  <2> QED
    BY <1>5, <2>1, <2>2
<1>6. CASE Train("worker")
  BY <1>4, <1>5, <1>6 DEF Train
<1> QED
  BY <1>1, <1>2, <1>3, <1>6, StepsOfOne

LEMMA WorkerOrderedStep ==
    ASSUME TypeOK, Holding, OneTrainer, WorkerOrdered, [Next]_vars
    PROVE  WorkerOrdered'
<1> USE Numbers DEF WorkerOrdered
<1>1. CASE UNCHANGED <<tr, manifest, report, sessions, acc>>
  BY <1>1 DEF worker
<1>2. CASE Start("worker")
  <2>1. sessions' = sessions + 1 /\ worker'.pc = "train" /\ worker'.s = sessions'
        /\ manifest' = manifest /\ report' = report
    BY <1>2 DEF Start, worker, TypeOK, OneTrainer, disk
  <2> QED
    BY <2>1
<1>3. CASE worker'.pc = "idle" /\ UNCHANGED <<manifest, report, sessions, acc>>
  BY <1>3 DEF Deciding
<1>4. CASE Insufficient("worker") \/ WriteReport("worker")
  <2>1. worker'.pc = "idle" /\ manifest' = manifest /\ sessions' = sessions
    BY <1>4, WorkerMoves DEF Insufficient, WriteReport
  <2>2. report'.version \in {None, worker.s} /\ worker.pc # "idle"
    BY <1>4 DEF Insufficient, WriteReport, worker
  <2> QED
    BY <2>1, <2>2 DEF None, Deciding
<1>5. CASE Evaluate("worker")
  <2>1. worker.pc = "train" /\ manifest' = manifest /\ sessions' = sessions
    BY <1>5 DEF Evaluate, worker
  <2>2. CASE Goto("worker", "export") /\ UNCHANGED report
    BY <2>1, <2>2, WorkerMoves DEF Deciding
  <2>3. CASE Exit("worker") /\ report' = [version |-> None, acc |-> 0]
    BY <2>1, <2>3, WorkerMoves DEF Deciding, None
  <2> QED
    BY <1>5, <2>2, <2>3 DEF Evaluate
<1>6. CASE WriteManifest("worker")
  <2>1. worker.pc = "manifest" /\ worker'.pc = "publish" /\ worker'.s = worker.s
        /\ manifest'.version = worker.s /\ report' = report /\ sessions' = sessions
    BY <1>6, WorkerMoves DEF WriteManifest, worker
  <2> QED
    BY <2>1 DEF Deciding
<1>7. CASE /\ worker.pc \in Promoting /\ worker'.pc \in Promoting
           /\ worker'.pc \in Deciding => worker.pc \in Deciding
           /\ worker'.s = worker.s
           /\ UNCHANGED <<manifest, report, sessions, acc>>
  BY <1>7 DEF Promoting
<1> QED
  BY <1>1, <1>2, <1>3, <1>4, <1>5, <1>6, <1>7, WorkerCases

LEMMA JudgedStep ==
    ASSUME TypeOK, Holding, OneTrainer, WorkerOrdered, Judged, [Next]_vars
    PROVE  Judged'
<1> USE DEF Judged
<1>0. acc \in [Sessions -> {0} \cup Accs] /\ report.acc \in {0} \cup Accs
  BY DEF TypeOK
<1>1. CASE UNCHANGED <<tr, manifest, report, sessions, acc>>
  BY <1>1 DEF worker
<1>2. CASE Start("worker")
  <2>1. worker'.pc = "train" /\ acc' = acc /\ report' = report
    BY <1>2 DEF Start, worker, TypeOK, OneTrainer, disk
  <2> QED
    BY <2>1 DEF Promoting
<1>3. CASE worker'.pc = "idle" /\ UNCHANGED <<manifest, report, sessions, acc>>
  BY <1>3 DEF Promoting
<1>4. CASE Insufficient("worker") \/ WriteReport("worker")
  <2>1. worker'.pc = "idle" /\ acc' = acc
    BY <1>4, WorkerMoves DEF Insufficient, WriteReport
  <2>2. report' = [version |-> None, acc |-> 0]
        \/ report' = [version |-> worker.s, acc |-> acc[worker.s]]
    BY <1>4 DEF Insufficient, WriteReport, worker
  <2>3. None \notin Sessions
    BY DEF None, Sessions
  <2> QED
    BY <2>1, <2>2, <2>3 DEF Promoting
<1>5. CASE Evaluate("worker")
  <2>1. PICK best \in Accs, major \in BOOLEAN :
          /\ acc' = [acc EXCEPT ![worker.s] = best]
          /\ \/ /\ ShouldPromote(best, PrevAcc, major)
                /\ Goto("worker", "export") /\ UNCHANGED report
             \/ Exit("worker") /\ report' = [version |-> None, acc |-> 0]
    BY <1>5 DEF Evaluate, worker
  <2>2. worker.pc = "train" /\ worker.s \in Sessions /\ report.version < worker.s
    BY <1>5 DEF Evaluate, worker, Holding, OneTrainer, WorkerOrdered
  <2>3. report.version # worker.s /\ acc'[worker.s] = best
    BY <1>0, <2>1, <2>2, Numbers
  <2>4. report.version \in Sessions => acc'[report.version] = acc[report.version]
    BY <1>0, <2>1, <2>3
  <2>5. CASE /\ ShouldPromote(best, PrevAcc, major)
             /\ Goto("worker", "export") /\ UNCHANGED report
    <3>1. worker'.s = worker.s /\ best >= report.acc - 5
      BY <2>5, WorkerMoves DEF ShouldPromote, PrevAcc
    <3> QED
      BY <2>3, <2>4, <2>5, <3>1
  <2>6. CASE Exit("worker") /\ report' = [version |-> None, acc |-> 0]
    <3>1. None \notin Sessions
      BY DEF None, Sessions
    <3> QED
      BY <2>6, <3>1
  <2> QED
    BY <2>1, <2>5, <2>6
<1>6. CASE WriteManifest("worker")
  <2>1. worker.pc = "manifest" /\ worker'.s = worker.s /\ report' = report /\ acc' = acc
    BY <1>6, WorkerMoves DEF WriteManifest, worker
  <2> QED
    BY <2>1 DEF Promoting
<1>7. CASE /\ worker.pc \in Promoting /\ worker'.pc \in Promoting
           /\ worker'.s = worker.s
           /\ UNCHANGED <<manifest, report, sessions, acc>>
  BY <1>7
<1> QED
  BY <1>1, <1>2, <1>3, <1>4, <1>5, <1>6, <1>7, WorkerCases

\* The manifest moves forward only.
LEMMA ManifestForward ==
    ASSUME TypeOK, Holding, OneTrainer, WorkerOrdered, [Next]_vars
    PROVE  /\ manifest.version <= manifest'.version
           /\ manifest'.version # manifest.version => WriteManifest("worker")
<1>1. CASE WriteManifest("worker")
  <2>1. worker.pc = "manifest" /\ manifest'.version = worker.s
    BY <1>1 DEF WriteManifest, worker
  <2> QED
    BY <1>1, <2>1, Numbers DEF WorkerOrdered, Deciding
<1>2. CASE manifest' = manifest
  BY <1>2, Numbers
<1> QED
  BY <1>1, <1>2, WorkerCases DEF Start, Insufficient, Evaluate, WriteReport, disk

LEMMA EngineOrderedStep ==
    ASSUME TypeOK, Holding, OneTrainer, WorkerOrdered, EngineOrdered, [Next]_vars
    PROVE  EngineOrdered'
<1> USE Numbers, ManifestForward DEF EngineOrdered
<1>0. manifest'.version \in Nat
  <2>1. manifest'.version \in {Boot} \cup Sessions
    BY TypeStep DEF TypeOK
  <2> QED
    BY <2>1 DEF Boot, Sessions
<1>1. CASE eng' = eng /\ served' = served
  BY <1>0, <1>1
<1>2. CASE ReadManifest
  <2>1. eng'.version = manifest.version /\ served' = served /\ manifest' = manifest
    BY <1>2 DEF ReadManifest, disk, TypeOK
  <2> QED
    BY <2>1
<1>3. CASE OpenFile \/ RestoreBootstrap
  <2>1. eng.pc = "open" /\ eng'.version = eng.version /\ served' = served
    BY <1>3 DEF OpenFile, RestoreBootstrap, Opened, TypeOK
  <2> QED
    BY <1>0, <2>1
<1>4. CASE Swap
  <2>1. served'.version = eng.version /\ eng'.version = eng.version
    BY <1>4 DEF Swap, TypeOK
  <2> QED
    BY <1>0, <2>1
<1>5. CASE Stamp \/ Boots \/ Hear \/ LoadFails
  <2>0. eng \in EngineRecords
    BY EngineType
  <2>1. eng'.version \in {eng.version, 0} /\ served' = served /\ eng'.pc \notin {"open", "swap"}
    <3>1. CASE Stamp \/ Boots \/ Hear
      BY <2>0, <3>1 DEF Stamp, Boots, Hear, ReloadMessage, Watch, BeginLoad, EngineRecords
    <3>2. CASE LoadFails
      BY <2>0, <3>2 DEF LoadFails, Starting, Boot, EngineRecords
    <3> QED
      BY <1>5, <3>1, <3>2
  <2> QED
    BY <1>0, <2>1
<1>6. CASE Restart
  <2>1. eng'.version = 0 /\ eng'.pc = "boot" /\ served'.version = -1
    BY <1>6 DEF Restart, Starting, Unserved, Boot, None
  <2> QED
    BY <1>0, <2>1
<1>7. CASE Start("worker") \/ Train("worker") \/ TrainerDies("worker") \/ UNCHANGED vars
  BY <1>1, <1>7 DEF Start, Train, Insufficient, Evaluate, Export, Copy, Unlink, Link,
     WriteManifest, PublishReload, WriteReport, TrainerDies, engine, vars
<1> QED
  BY <1>2, <1>3, <1>4, <1>5, <1>6, <1>7, StepsOfOne DEF Load

OrderInv == TypeOK /\ Holding /\ WorkerOrdered /\ Judged /\ EngineOrdered

LEMMA OrderInit == ASSUME OneTrainer, Init PROVE OrderInv
<1>1. worker.pc = "idle"
  BY DEF Init, OneTrainer, NoTraining, worker
<1>2. manifest.version = 0 /\ report.version = -1 /\ sessions = 0
  BY DEF Init, Boot, None
<1>3. WorkerOrdered
  BY <1>1, <1>2 DEF WorkerOrdered, Deciding
<1>4. Judged
  BY <1>1, <1>2 DEF Judged, Promoting, Sessions
<1>5. EngineOrdered
  BY <1>2 DEF EngineOrdered, Init, Starting, Unserved, Boot, None
<1> QED
  BY <1>3, <1>4, <1>5, TypeInit DEF OrderInv

LEMMA OrderStep == ASSUME OneTrainer, OrderInv, [Next]_vars PROVE OrderInv'
  BY TypeStep, WorkerOrderedStep, JudgedStep, EngineOrderedStep DEF OrderInv

\* A promotion replaces a model by a worse one only when the report it was compared
\* with is not the report of that model, for any scores and any faults.
THEOREM WorseNeedsLostReport == ASSUME OneTrainer PROVE Spec => DowngradeNeedsLostReport
<1>1. Init => OrderInv
  BY OrderInit
<1>2. OrderInv /\ [Next]_vars => OrderInv'
  BY OrderStep
<1>3. OrderInv /\ [Next]_vars =>
        [Downgrade(manifest.version, manifest'.version) => report.version # manifest.version]_vars
  <2> SUFFICES ASSUME OrderInv, [Next]_vars, Downgrade(manifest.version, manifest'.version),
                      report.version = manifest.version
               PROVE  FALSE
    OBVIOUS
  <2>1. manifest.version \in Sessions /\ manifest'.version \in Sessions
        /\ acc[manifest'.version] < acc[manifest.version] - 5
    BY DEF Downgrade
  <2>2. acc[manifest.version] \in Nat /\ acc[manifest'.version] \in Nat
    <3>1. acc \in [Sessions -> {0} \cup Accs]
      BY DEF OrderInv, TypeOK
    <3>2. \A v \in Sessions : acc[v] \in Nat
      <4>1. \A v \in Sessions : acc[v] \in {0} \cup Accs
        BY <3>1
      <4>2. {0} \cup Accs \subseteq Nat
        <5>1. 0 \in Nat
          OBVIOUS
        <5> QED
          BY <5>1, AccsAssumption
      <4> QED
        BY <4>1, <4>2
    <3> QED
      BY <2>1, <3>2
  <2>3. WriteManifest("worker")
    BY <2>1, <2>2, ManifestForward DEF OrderInv
  <2>4. worker.pc = "manifest" /\ manifest'.version = worker.s
    BY <2>3 DEF WriteManifest, worker
  <2> QED
    BY <2>1, <2>2, <2>4 DEF OrderInv, Judged, Promoting
<1> QED
  BY <1>1, <1>2, <1>3, PTL DEF Spec, DowngradeNeedsLostReport

\* Every step of the deployment is a promotion, a swap, a restart or a stutter of
\* DeploySlot: the engine serves what was promoted and never goes back.  That it
\* follows in the end is for the model checker.
THEOREM FollowsSlot == ASSUME OneTrainer PROVE Spec => Slot!Init /\ [][Slot!Next]_(Slot!vars)
<1>1. Init => OrderInv /\ Slot!Init
  <2>1. Init => OrderInv
    BY OrderInit
  <2>2. Init => manifest.version = 0 /\ served.version = -1
    BY DEF Init, Unserved, Boot, None
  <2> QED
    BY <2>1, <2>2 DEF Slot!Init
<1>2. OrderInv /\ [Next]_vars => OrderInv'
  BY OrderStep
<1>3. OrderInv /\ [Next]_vars => [Slot!Next]_(Slot!vars)
  <2> SUFFICES ASSUME OrderInv, [Next]_vars PROVE [Slot!Next]_(Slot!vars)
    OBVIOUS
  <2> USE DEF OrderInv
  <2>1. CASE WriteManifest("worker")
    <3>1. worker.pc = "manifest" /\ worker.s \in Sessions /\ manifest'.version = worker.s
          /\ served' = served
      BY <2>1 DEF WriteManifest, worker, Holding, OneTrainer, engine
    <3>2. manifest.version < worker.s /\ worker.s \in Nat /\ worker.s <= MaxSessions
      BY <3>1, MaxSessionsAssumption DEF WorkerOrdered, Deciding, Sessions
    <3> QED
      BY <3>1, <3>2, Numbers, MaxSessionsAssumption DEF Slot!Next, Slot!Promote
  <2>2. CASE Swap
    <3>1. served'.version = eng.version /\ served.version <= eng.version
          /\ eng.version <= manifest.version /\ manifest' = manifest
      BY <2>2 DEF Swap, EngineOrdered, disk
    <3>2. CASE served.version = eng.version
      BY <3>1, <3>2 DEF Slot!vars
    <3>3. CASE served.version # eng.version
      BY <3>1, <3>3, Numbers DEF Slot!Next, Slot!Serve
    <3> QED
      BY <3>2, <3>3
  <2>3. CASE Restart
    BY <2>3 DEF Restart, disk, Unserved, None, Slot!Next, Slot!Restart
  <2>4. CASE manifest'.version = manifest.version /\ served' = served
    BY <2>4 DEF Slot!vars
  <2>5. WriteManifest("worker") \/ manifest'.version = manifest.version
    BY ManifestForward
  <2>6. Swap \/ Restart \/ served' = served
    BY StepsOfOne DEF Start, Train, Insufficient, Evaluate, Export, Copy, Unlink, Link,
       WriteManifest, PublishReload, WriteReport, TrainerDies, Load, Boots, ReadManifest, OpenFile,
       Stamp, Hear, ReloadMessage, Watch, RestoreBootstrap, LoadFails, engine, vars
  <2> QED
    BY <2>1, <2>2, <2>3, <2>4, <2>5, <2>6
<1> QED
  BY <1>1, <1>2, <1>3, PTL DEF Spec
=============================================================================
