----------------------------- MODULE ModelDeploy -----------------------------
(***************************************************************************)
(* From a training to the model that answers: the processes that run       *)
(* scripts/train.py (the one RollingRetrainWorker spawns and the one an    *)
(* operator starts with daily_retrain.py), the model directory they write  *)
(* (onnx_deploy.py, model_manifest.py), the report they read and write,    *)
(* and the hot swap of the engine (inference.py, engine.py).               *)
(*                                                                         *)
(* A step is one access to a shared file.  Weights are named by the        *)
(* training session that made them.                                        *)
(***************************************************************************)
EXTENDS Integers

CONSTANTS
    Trainers,      \* processes that run train.py: "worker", and perhaps "daily"
    MaxSessions,   \* bound: trainings started
    Accs,          \* validation scores, in thousandths
    MaxFaults      \* bound: killed trainings, failed loads and engine restarts

ASSUME TrainersAssumption == "worker" \in Trainers
ASSUME MaxSessionsAssumption == MaxSessions \in Nat
ASSUME AccsAssumption == Accs \subseteq Nat
ASSUME MaxFaultsAssumption == MaxFaults \in Nat

VARIABLES
    staging,    \* file -> weights in models/staging
    active,     \* version -> its directory models/active/<version>
    current,    \* the version the symbolic link models/current names, or None
    manifest,   \* manifest.json: version and modification time
    report,     \* retrain_report.json: version and val_acc
    tr,         \* the training processes
    sessions,   \* trainings started so far
    acc,        \* session -> the score its training measured
    eng,        \* the load in progress, and the modification times of the last
    served,     \* the engine's bundle
    reload,     \* a message on models:reload awaits the listener
    clock,      \* modification times
    faults

disk == <<staging, active, current, manifest, report>>
engine == <<eng, served, reload>>
vars == <<disk, tr, sessions, acc, engine, clock, faults>>

None == -1            \* no file, no version
Boot == 0             \* the weights export_models.py put in the image
Sessions == 1..MaxSessions
Weights == {None, Boot} \cup Sessions
Files == 1..3         \* orderbook_cnn, flow_gru_attention, decision_mlp
Bundle(w) == [f \in Files |-> w]

TrainLabels == {"idle", "train", "export", "copy", "unlink", "link", "manifest",
                "publish", "report"}
EngineLabels == {"boot", "idle", "read", "open", "swap", "stamp"}

TypeOK ==
    /\ staging \in [Files -> Weights]
    /\ active \in [Sessions -> [files : [Files -> Weights], at : Nat]]
    /\ current \in {None} \cup Sessions
    /\ manifest \in [version : {Boot} \cup Sessions, at : Nat]
    /\ report \in [version : {None} \cup Sessions, acc : {0} \cup Accs]
    /\ tr \in [Trainers -> [pc : TrainLabels, s : {0} \cup Sessions, k : Files]]
    /\ sessions \in 0..MaxSessions
    /\ acc \in [Sessions -> {0} \cup Accs]
    /\ eng \in [pc : EngineLabels, boot : BOOLEAN, k : Files,
                version : {Boot} \cup Sessions, got : [Files -> Weights],
                seen : Nat \X Nat, last : Nat \X Nat]
    /\ served \in [version : {None, Boot} \cup Sessions, files : [Files -> Weights]]
    /\ reload \in BOOLEAN
    /\ clock \in Nat
    /\ faults \in 0..MaxFaults

NoTraining == [pc |-> "idle", s |-> 0, k |-> 1]
Starting == [pc |-> "boot", boot |-> TRUE, k |-> 1, version |-> Boot,
             got |-> Bundle(None), seen |-> <<0, 0>>, last |-> <<0, 0>>]
Unserved == [version |-> None, files |-> Bundle(None)]

Init ==
    /\ staging = Bundle(None)
    /\ active = [v \in Sessions |-> [files |-> Bundle(None), at |-> 0]]
    /\ current = None
    /\ manifest = [version |-> Boot, at |-> 0]
    /\ report = [version |-> None, acc |-> 0]
    /\ tr = [t \in Trainers |-> NoTraining]
    /\ sessions = 0
    /\ acc = [s \in Sessions |-> 0]
    /\ eng = Starting /\ served = Unserved /\ reload = FALSE
    /\ clock = 0 /\ faults = 0
-----------------------------------------------------------------------------
(***************************************************************************)
(* Training                                                                *)
(***************************************************************************)
\* Mutant: the file index of the step before is kept.
GotoKeepsIndex(t, l) == tr' = [tr EXCEPT ![t].pc = l]

Goto(t, l) == tr' = [tr EXCEPT ![t].pc = l, ![t].k = 1]
Exit(t) == tr' = [tr EXCEPT ![t] = NoTraining]

\* The worker trains once at a time, and only for an engine that runs.
MayTrain(t) ==
    /\ tr[t].pc = "idle"
    /\ t = "worker" => ~eng.boot

Start(t) ==
    /\ MayTrain(t)
    /\ sessions < MaxSessions
    /\ sessions' = sessions + 1
    /\ tr' = [tr EXCEPT ![t] = [pc |-> "train", s |-> sessions', k |-> 1]]
    /\ UNCHANGED <<disk, acc, engine, clock, faults>>

\* Too few samples: exit code 3.  The report names no version and no val_acc.
Insufficient(t) ==
    /\ tr[t].pc = "train"
    /\ report' = [version |-> None, acc |-> 0]
    /\ Exit(t)
    /\ UNCHANGED <<staging, active, current, manifest, sessions, acc, engine, clock, faults>>

\* A report without val_acc counts as a score of 0.
PrevAcc == report.acc

\* Mutant: a better loss is enough.
ShouldPromoteByLoss(best, prev, majorLossImproved) == best > prev + 20 \/ majorLossImproved

ShouldPromote(best, prev, majorLossImproved) ==
    /\ best > prev + 20 \/ majorLossImproved
    /\ best >= prev - 5

\* The epochs end with the best score; a rejected model is reported without
\* val_acc, exit code 5.
Evaluate(t) ==
    /\ tr[t].pc = "train"
    /\ \E best \in Accs, major \in BOOLEAN :
         /\ acc' = [acc EXCEPT ![tr[t].s] = best]
         /\ IF ShouldPromote(best, PrevAcc, major)
            THEN Goto(t, "export") /\ UNCHANGED report
            ELSE Exit(t) /\ report' = [version |-> None, acc |-> 0]
    /\ UNCHANGED <<staging, active, current, manifest, sessions, engine, clock, faults>>

\* One file after the other, each replaced as a whole.  validate_onnx then only
\* opens them.
Export(t) ==
    /\ tr[t].pc = "export"
    /\ staging' = [staging EXCEPT ![tr[t].k] = tr[t].s]
    /\ IF tr[t].k = 3 THEN Goto(t, "copy") ELSE tr' = [tr EXCEPT ![t].k = @ + 1]
    /\ UNCHANGED <<active, current, manifest, report, sessions, acc, engine, clock, faults>>

Copy(t) ==
    /\ tr[t].pc = "copy"
    /\ clock' = clock + 1
    /\ active' = [active EXCEPT ![tr[t].s] =
                    [files |-> [@.files EXCEPT ![tr[t].k] = staging[tr[t].k]],
                     at |-> clock']]
    /\ IF tr[t].k = 3 THEN Goto(t, "unlink") ELSE tr' = [tr EXCEPT ![t].k = @ + 1]
    /\ UNCHANGED <<staging, current, manifest, report, sessions, acc, engine, faults>>

Unlink(t) ==
    /\ tr[t].pc = "unlink"
    /\ current' = None
    /\ Goto(t, "link")
    /\ UNCHANGED <<staging, active, manifest, report, sessions, acc, engine, clock, faults>>

Link(t) ==
    /\ tr[t].pc = "link"
    /\ current' = tr[t].s
    /\ Goto(t, "manifest")
    /\ UNCHANGED <<staging, active, manifest, report, sessions, acc, engine, clock, faults>>

WriteManifest(t) ==
    /\ tr[t].pc = "manifest"
    /\ clock' = clock + 1
    /\ manifest' = [version |-> tr[t].s, at |-> clock']
    /\ Goto(t, "publish")
    /\ UNCHANGED <<staging, active, current, report, sessions, acc, engine, faults>>

\* Redis pub/sub keeps nothing for a listener that is not subscribed (the engine
\* starts, or its listener sleeps after an error); an error is printed.
PublishReload(t) ==
    /\ tr[t].pc = "publish"
    /\ reload' \in IF eng.boot THEN {reload} ELSE {TRUE, reload}
    /\ Goto(t, "report")
    /\ UNCHANGED <<disk, sessions, acc, eng, served, clock, faults>>

\* The checkpoint is saved before the report; only a later training reads it.
WriteReport(t) ==
    /\ tr[t].pc = "report"
    /\ report' = [version |-> tr[t].s, acc |-> acc[tr[t].s]]
    /\ Exit(t)
    /\ UNCHANGED <<staging, active, current, manifest, sessions, acc, engine, clock, faults>>

\* The subprocess times out and is killed, or an exception ends it.
TrainerDies(t) ==
    /\ tr[t].pc # "idle"
    /\ faults < MaxFaults /\ faults' = faults + 1
    /\ Exit(t)
    /\ UNCHANGED <<disk, sessions, acc, engine, clock>>
-----------------------------------------------------------------------------
(***************************************************************************)
(* The engine.  A load is one synchronous call of the event loop, but the  *)
(* training processes write between its file accesses.                     *)
(***************************************************************************)
DirAt(v) == IF v \in Sessions THEN active[v].at ELSE 0
Later(a, b) == IF a >= b THEN a ELSE b

\* Modification times of the manifest, and of whatever a load would read.
ModTimes == <<manifest.at, Later(manifest.at, Later(DirAt(manifest.version), DirAt(current)))>>

Changed == ModTimes[1] > eng.last[1] \/ ModTimes[2] > eng.last[2]

BeginLoad == eng' = [eng EXCEPT !.pc = "read", !.k = 1, !.seen = ModTimes]

\* A message forces a load, whatever the modification times say.
ReloadMessage ==
    /\ eng.pc = "idle" /\ reload
    /\ reload' = FALSE
    /\ BeginLoad
    /\ UNCHANGED <<disk, tr, sessions, acc, served, clock, faults>>

\* The watch loop loads when a time is newer than at the last load.
Watch ==
    /\ eng.pc = "idle" /\ Changed
    /\ BeginLoad
    /\ UNCHANGED <<disk, tr, sessions, acc, served, reload, clock, faults>>

\* HotSwapONNXInference(): loads first and reads the times afterwards.
Boots ==
    /\ eng.pc = "boot"
    /\ eng' = [eng EXCEPT !.pc = "read", !.k = 1]
    /\ UNCHANGED <<disk, tr, sessions, acc, served, reload, clock, faults>>

ReadManifest ==
    /\ eng.pc = "read"
    /\ eng' = [eng EXCEPT !.pc = "open", !.version = manifest.version, !.got = Bundle(None)]
    /\ UNCHANGED <<disk, tr, sessions, acc, served, reload, clock, faults>>

\* Mutant: every file looks the version up in the manifest of its moment.
SourceNow(k) == manifest.version

\* The directory file k is loaded from: the manifest's, then the one current names.
\* A file that neither has is left out of the bundle.
Source(k) ==
    IF eng.version \in Sessions /\ active[eng.version].files[k] = None
    THEN IF current # None /\ active[current].files[k] # None THEN current ELSE None
    ELSE eng.version

Content(v, k) == IF v \in Sessions THEN active[v].files[k] ELSE v

\* Mutant: one file too many.
OpenedOneMore(w) ==
    eng' = [eng EXCEPT !.got = [f \in Files |-> IF f = eng.k THEN w ELSE eng.got[f]],
                       !.k = IF @ = 4 THEN 1 ELSE @ + 1,
                       !.pc = IF eng.k = 4 THEN "swap" ELSE "open"]

Opened(w) ==
    eng' = [eng EXCEPT !.got[eng.k] = w,
                       !.k = IF @ = 3 THEN 1 ELSE @ + 1,
                       !.pc = IF eng.k = 3 THEN "swap" ELSE "open"]

OpenFile ==
    /\ eng.pc = "open"
    /\ Opened(Content(Source(eng.k), eng.k))
    /\ UNCHANGED <<disk, tr, sessions, acc, served, reload, clock, faults>>

\* The runtime cannot open a promoted file: the weights of the image are copied
\* over it, and served.
RestoreBootstrap ==
    /\ eng.pc = "open"
    /\ faults < MaxFaults /\ faults' = faults + 1
    /\ LET v == Source(eng.k) IN
         /\ v \in Sessions
         /\ clock' = clock + 1
         /\ active' = [active EXCEPT ![v] = [files |-> [@.files EXCEPT ![eng.k] = Boot],
                                             at |-> clock']]
    /\ Opened(Boot)
    /\ UNCHANGED <<staging, current, manifest, report, tr, sessions, acc, served, reload>>

\* A file cannot be opened and nothing can replace it.  A running engine keeps its
\* bundle and the times of the last load; a starting one dies, and is restarted.
LoadFails ==
    /\ eng.pc = "open"
    /\ faults < MaxFaults /\ faults' = faults + 1
    /\ Source(eng.k) # None
    /\ eng' = IF eng.boot THEN Starting ELSE [eng EXCEPT !.pc = "idle", !.k = 1]
    /\ UNCHANGED <<disk, tr, sessions, acc, served, reload, clock>>

\* Mutant: the modification times are read after the load.
SwapStampsLate ==
    /\ eng.pc = "swap"
    /\ served' = [version |-> eng.version, files |-> eng.got]
    /\ eng' = IF eng.boot THEN [eng EXCEPT !.pc = "stamp"]
              ELSE [eng EXCEPT !.pc = "idle", !.last = ModTimes]
    /\ UNCHANGED <<disk, tr, sessions, acc, reload, clock, faults>>

Swap ==
    /\ eng.pc = "swap"
    /\ served' = [version |-> eng.version, files |-> eng.got]
    /\ eng' = IF eng.boot THEN [eng EXCEPT !.pc = "stamp"]
              ELSE [eng EXCEPT !.pc = "idle", !.last = eng.seen]
    /\ UNCHANGED <<disk, tr, sessions, acc, reload, clock, faults>>

Stamp ==
    /\ eng.pc = "stamp"
    /\ eng' = [eng EXCEPT !.pc = "idle", !.boot = FALSE, !.last = ModTimes]
    /\ UNCHANGED <<disk, tr, sessions, acc, served, reload, clock, faults>>

\* The container restarts, with every process in it.
Restart ==
    /\ faults < MaxFaults /\ faults' = faults + 1
    /\ tr' = [t \in Trainers |-> NoTraining]
    /\ eng' = Starting /\ served' = Unserved /\ reload' = FALSE
    /\ UNCHANGED <<disk, sessions, acc, clock>>
-----------------------------------------------------------------------------
Train(t) ==
    \/ Insufficient(t) \/ Evaluate(t) \/ Export(t) \/ Copy(t) \/ Unlink(t) \/ Link(t)
    \/ WriteManifest(t) \/ PublishReload(t) \/ WriteReport(t)

Load == Boots \/ ReadManifest \/ OpenFile \/ Swap \/ Stamp
Hear == ReloadMessage \/ Watch

Next ==
    \/ \E t \in Trainers : Start(t) \/ Train(t) \/ TrainerDies(t)
    \/ Load \/ Hear \/ RestoreBootstrap \/ LoadFails \/ Restart

Spec == Init /\ [][Next]_vars

\* Processes are scheduled, the watch loop wakes up, and a training ends (its
\* epochs are bounded, and the worker's is killed at its timeout).  No training
\* has to start.
Fairness ==
    /\ \A t \in Trainers : WF_vars(Train(t))
    /\ WF_vars(Load)
    /\ WF_vars(Hear)

FairSpec == Spec /\ Fairness
-----------------------------------------------------------------------------
(***************************************************************************)
(* Properties                                                              *)
(***************************************************************************)
\* Wherever a promotion is cut, the manifest names a directory in which every
\* file is, with the weights of the training it names (or of the image, where the
\* engine has restored one).  Needs a single trainer: staging is shared.
ManifestComplete ==
    manifest.version \in Sessions =>
        \A f \in Files : active[manifest.version].files[f] \in {manifest.version, Boot}

\* A load that races with a promotion never serves the CNN of one training with
\* the MLP of another.
ServedFromOneTraining ==
    \A f, g \in Files : {served.files[f], served.files[g]} \subseteq Sessions
                        => served.files[f] = served.files[g]

\* A promotion may replace a model by one with a lower score only when the report
\* it compared with was not that model's: another training has overwritten it, or
\* the promoting training was cut before it wrote it.
Downgrade(old, new) == old \in Sessions /\ new \in Sessions /\ acc[new] < acc[old] - 5
DowngradeNeedsLostReport ==
    [][Downgrade(manifest.version, manifest'.version) => report.version # manifest.version]_vars

\* Promotions and swaps follow DeploySlot.
Slot == INSTANCE DeploySlot WITH promoted <- manifest.version, served <- served.version
SlotSpec == Slot!Spec
=============================================================================
