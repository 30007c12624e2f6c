--------------------------- MODULE ModelRegistry ---------------------------
(***************************************************************************)
(* Trained models, from the file they are dumped to until they score an    *)
(* alert: ml/registry.py, the end of ml/train.py, ModelService of          *)
(* ml/scoring.py and the stages train and score of pipeline.py.  Trainers  *)
(* are processes, each with one transaction; files are shared and written  *)
(* outside it.                                                             *)
(*                                                                         *)
(* Simplifications: training is deterministic (fixed seeds, one job), so   *)
(* an artifact, its hash and its metrics are those of the data it was      *)
(* fitted on; a rejected row's transaction ends at once.                   *)
(***************************************************************************)
EXTENDS Integers, Sequences, FiniteSets, Nullable

CONSTANTS
    Data,        \* alerts and labels a training may find
    Metrics,     \* [Data -> what the reports say of the model, in percent]
    Trainers,    \* processes at pipeline --train
    Threads,     \* of the API, at /health/ready, and one per pipeline --score
    Scorers,     \* the latter
    ProcessOf,   \* [Threads -> process]: each process has one ModelService
    Alerts,
    MaxSecond,   \* bound: the clock the versions are named after
    MaxModels,   \* bound: rows of model_versions
    MaxLock      \* bound: lock_version of an alert

Seconds == 1..MaxSecond
Ids == 1..MaxModels
Processes == {ProcessOf[th] : th \in Threads}

ASSUME RegistryAssumption ==
    /\ Metrics \in [Data -> [prAuc : 0..100, baseline : 0..100, recall : 0..100, groupCv : 0..100]]
    /\ MaxSecond \in Nat \ {0} /\ MaxModels \in Nat /\ MaxLock \in Nat \ {0}
    /\ Scorers \subseteq Threads /\ DOMAIN ProcessOf = Threads
    /\ \A s \in Scorers, th \in Threads : ProcessOf[s] = ProcessOf[th] => s = th
    /\ None \notin Data /\ None \notin Int

VARIABLES
    now,         \* the clock, in seconds
    files,       \* [Seconds -> the artifact in registry/alert_risk/<version>]
    models,      \* committed rows of model_versions
    nextId,      \* created_at of the next row
    trainer,     \* [Trainers -> the training in progress]
    cache,       \* [Processes -> ModelService._loaded]
    thread,      \* [Threads -> the call of _ensure or the scoring stage in progress]
    alerts,      \* [Alerts -> model_version_id and lock_version]
    predictions, \* [Alerts -> model_version_id of its predictions rows]
    rewritten,   \* history: versions whose file was written more than once
    overlaps     \* history: pairs of rows promoted by transactions that overlapped

history == <<rewritten, overlaps>>
trainVars == <<now, files, models, nextId, trainer, history>>
serveVars == <<cache, thread, alerts, predictions>>
registryVars == <<trainVars, serveVars>>

(* created_at orders the rows as id does.                                  *)
ModelVersion == [id : Ids, version : Seconds, data : Data, sha : Data \cup {None},
                 stage : {"staging", "production", "archived"}]

Training == [pc : {"idle", "fitted", "dumped", "hashed", "registered", "archiving", "promoted"},
             data : Data \cup {None}, version : Seconds \cup {None}, sha : Data \cup {None},
             id : Ids \cup {None}, seen : SUBSET Ids, archived : SUBSET Ids]

NoTraining == [pc |-> "idle", data |-> None, version |-> None, sha |-> None,
               id |-> None, seen |-> {}, archived |-> {}]

(* model: the row the thread looked up; locks: the alerts it selected, with *)
(* the lock_version of each; scored: the row each was scored with.         *)
Call == [pc : {"idle", "scoring", "looked", "loaded"}, model : Ids \cup {None},
         locks : [Alerts -> 0..MaxLock], scored : [Alerts -> Ids \cup {None}]]

NoCall == [pc |-> "idle", model |-> None, locks |-> [a \in Alerts |-> 0],
           scored |-> [a \in Alerts |-> None]]

TrainTypeOK ==
    /\ now \in Seconds /\ nextId \in 1..(MaxModels + 1)
    /\ files \in [Seconds -> Data \cup {None}]
    /\ models \subseteq ModelVersion
    /\ trainer \in [Trainers -> Training]
    /\ rewritten \subseteq Seconds /\ overlaps \subseteq SUBSET Ids

ServeTypeOK ==
    /\ cache \in [Processes -> [id : Ids \cup {None}, artifact : Data \cup {None}]]
    /\ thread \in [Threads -> Call]
    /\ alerts \in [Alerts -> [model : Ids \cup {None}, lock : 1..MaxLock]]
    /\ predictions \in [Alerts -> Seq(Ids)]

RegistryTypeOK == TrainTypeOK /\ ServeTypeOK
-----------------------------------------------------------------------------
(* train, save_artifact and register                                       *)

(* Rows inserted and not committed.                                        *)
Inserting(t) == trainer[t].pc \in {"registered", "archiving", "promoted"}

NextSecond ==
    /\ now < MaxSecond
    /\ now' = now + 1
    /\ UNCHANGED <<files, models, nextId, trainer, history, serveVars>>

(* The version is the second in which the fit ends.                        *)
Fit(t, d) ==
    /\ trainer[t].pc = "idle"
    /\ trainer' = [trainer EXCEPT ![t] = [NoTraining EXCEPT !.pc = "fitted", !.data = d,
                                                            !.version = now]]
    /\ UNCHANGED <<now, files, models, nextId, history, serveVars>>

Directory(t) == trainer[t].version

(* joblib.dump into a directory that may exist already.                    *)
Dump(t) ==
    /\ trainer[t].pc = "fitted"
    /\ files' = [files EXCEPT ![Directory(t)] = trainer[t].data]
    /\ rewritten' = IF files[Directory(t)] = None THEN rewritten
                    ELSE rewritten \cup {Directory(t)}
    /\ trainer' = [trainer EXCEPT ![t].pc = "dumped"]
    /\ UNCHANGED <<now, models, nextId, overlaps, serveVars>>

HashFile(t) ==
    /\ trainer[t].pc = "dumped"
    /\ trainer' = [trainer EXCEPT ![t].pc = "hashed", ![t].sha = files[Directory(t)]]
    /\ UNCHANGED <<now, files, models, nextId, history, serveVars>>

VersionTaken(t) == \E r \in models : r.version = trainer[t].version

(* The unique key makes an insert wait for another one of the same version. *)
MayInsert(t) ==
    \A q \in Trainers \ {t} : Inserting(q) => trainer[q].version # trainer[t].version

Register(t) ==
    /\ trainer[t].pc = "hashed"
    /\ MayInsert(t) /\ ~ VersionTaken(t)
    /\ nextId <= MaxModels
    /\ trainer' = [trainer EXCEPT ![t].pc = "registered", ![t].id = nextId]
    /\ nextId' = nextId + 1
    /\ UNCHANGED <<now, files, models, history, serveVars>>

(* IntegrityError: session_scope rolls back; the file stays.               *)
RegisterFails(t) ==
    /\ trainer[t].pc = "hashed"
    /\ MayInsert(t) /\ VersionTaken(t)
    /\ trainer' = [trainer EXCEPT ![t] = NoTraining]
    /\ UNCHANGED <<now, files, models, nextId, history, serveVars>>

NewVersion(t, stage) ==
    [id |-> trainer[t].id, version |-> trainer[t].version, data |-> trainer[t].data,
     sha |-> trainer[t].sha, stage |-> stage]
-----------------------------------------------------------------------------
(* The promotion gates and promote                                         *)

Gates(m) == m.prAuc >= m.baseline /\ m.recall >= 90 /\ m.groupCv >= 80

Production(S) == {r \in S : r.stage = "production"}

KeepInStaging(t) ==
    /\ trainer[t].pc = "registered"
    /\ ~ Gates(Metrics[trainer[t].data])
    /\ models' = models \cup {NewVersion(t, "staging")}
    /\ trainer' = [trainer EXCEPT ![t] = NoTraining]
    /\ UNCHANGED <<now, files, nextId, history, serveVars>>

Promoting(t) == trainer[t].pc \in {"archiving", "promoted"}

(* UPDATE ... WHERE stage = 'production' takes its snapshot ...            *)
StartPromotion(t) ==
    /\ trainer[t].pc = "registered"
    /\ Gates(Metrics[trainer[t].data])
    /\ trainer' = [trainer EXCEPT ![t].pc = "archiving",
                                  ![t].seen = {r.id : r \in Production(models)}]
    /\ overlaps' = overlaps \cup {{trainer[t].id, trainer[q].id} : q \in {q \in Trainers \ {t} : Promoting(q)}}
    /\ UNCHANGED <<now, files, models, nextId, rewritten, serveVars>>

(* Mutation: the UPDATE archives the first row it finds.                   *)
ArchivedOne(t) == {i \in trainer[t].seen : \A j \in trainer[t].seen : i <= j}

(* ... and, once no other transaction has one of its rows locked, applies  *)
(* to those that still are in production.                                  *)
Archived(t) == {r.id : r \in {r \in Production(models) : r.id \in trainer[t].seen}}

Archive(t) ==
    /\ trainer[t].pc = "archiving"
    /\ \A q \in Trainers \ {t} : trainer[q].archived \cap trainer[t].seen = {}
    /\ trainer' = [trainer EXCEPT ![t].pc = "promoted", ![t].archived = Archived(t)]
    /\ UNCHANGED <<now, files, models, nextId, history, serveVars>>

(* Mutation: the UPDATE's refresh of the session loses the new stage.      *)
PromotedLost(t) ==
    {IF r.id \in trainer[t].archived THEN [r EXCEPT !.stage = "archived"] ELSE r : r \in models}
    \cup {NewVersion(t, IF trainer[t].archived = {} THEN "production" ELSE "staging")}

Promoted(t) ==
    {IF r.id \in trainer[t].archived THEN [r EXCEPT !.stage = "archived"] ELSE r : r \in models}
    \cup {NewVersion(t, "production")}

CommitPromotion(t) ==
    /\ trainer[t].pc = "promoted"
    /\ models' = Promoted(t)
    /\ trainer' = [trainer EXCEPT ![t] = NoTraining]
    /\ UNCHANGED <<now, files, nextId, history, serveVars>>

(* The process dies or the database fails: what is flushed is lost, files  *)
(* are not.                                                                *)
TrainerDies(t) ==
    /\ trainer[t].pc # "idle"
    /\ trainer' = [trainer EXCEPT ![t] = NoTraining]
    /\ UNCHANGED <<now, files, models, nextId, history, serveVars>>
-----------------------------------------------------------------------------
(* ModelService                                                            *)

Mutable == <<alerts, predictions, trainVars>>

IsLatest(r, S) == r \in S /\ \A q \in S : q.id <= r.id

RowOf(i) == CHOOSE r \in models : r.id = i

(* The alerts the stage has still to score.                                *)
ToScore(th) == {a \in Alerts : thread[th].locks[a] # 0 /\ thread[th].scored[a] = None}

MayLook(th) ==
    IF th \in Scorers THEN thread[th].pc = "scoring" /\ ToScore(th) # {}
    ELSE thread[th].pc = "idle"

(* get_production, outside the lock: the latest row if there are several.  *)
Look(th) ==
    /\ MayLook(th)
    /\ \E r \in models :
          /\ IsLatest(r, Production(models))
          /\ thread' = [thread EXCEPT ![th].pc = "looked", ![th].model = r.id]
    /\ UNCHANGED <<cache, Mutable>>

Cached(th) == cache[ProcessOf[th]].id = thread[th].model

(* Mutation: load without comparing hashes.                                *)
Anything(r) == TRUE

Verified(r) == files[r.version] = r.sha

(* Under the lock: another row's model is loaded if its file is intact ... *)
Load(th) ==
    LET r == RowOf(thread[th].model)
    IN  /\ thread[th].pc = "looked"
        /\ Cached(th) \/ Verified(r)
        /\ cache' = IF Cached(th) THEN cache
                    ELSE [cache EXCEPT ![ProcessOf[th]] = [id |-> r.id, artifact |-> files[r.version]]]
        /\ thread' = [thread EXCEPT ![th].pc = "loaded"]
        /\ UNCHANGED Mutable

(* ... and if it is not, the request is not ready, the stage is rolled back *)
Refuse(th) ==
    /\ thread[th].pc = "looked"
    /\ ~ Cached(th) /\ ~ Verified(RowOf(thread[th].model))
    /\ thread' = [thread EXCEPT ![th] = NoCall]
    /\ UNCHANGED <<cache, Mutable>>

(* is_ready: _loaded is read again, without the lock.                      *)
Ready(th) ==
    /\ th \notin Scorers
    /\ thread[th].pc = "loaded"
    /\ thread' = [thread EXCEPT ![th] = NoCall]
    /\ UNCHANGED <<cache, Mutable>>
-----------------------------------------------------------------------------
(* score_all_alerts                                                        *)

Unscored == {a \in Alerts : alerts[a].model = None}

StartScoring(th) ==
    /\ th \in Scorers
    /\ thread[th].pc = "idle"
    /\ Unscored # {}
    /\ thread' = [thread EXCEPT ![th] =
                    [NoCall EXCEPT !.pc = "scoring",
                                   !.locks = [a \in Alerts |-> IF a \in Unscored THEN alerts[a].lock ELSE 0]]]
    /\ UNCHANGED <<cache, Mutable>>

(* score_alert: each alert calls _ensure anew.                             *)
Score(th, a) ==
    /\ th \in Scorers
    /\ thread[th].pc = "loaded"
    /\ a \in ToScore(th)
    /\ thread' = [thread EXCEPT ![th].pc = "scoring", ![th].model = None,
                                ![th].scored[a] = cache[ProcessOf[th]].id]
    /\ UNCHANGED <<cache, Mutable>>

Selected(th) == {a \in Alerts : thread[th].locks[a] # 0}

(* Mutation: no version_id_col on alerts.                                  *)
AnyLock(th) == TRUE

Unchanged(th) == \A a \in Selected(th) : alerts[a].lock = thread[th].locks[a]

(* flush: UPDATE ... WHERE lock_version = what was read, for every alert,  *)
(* and their predictions; commit.                                          *)
CommitScores(th) ==
    /\ thread[th].pc = "scoring" /\ ToScore(th) = {}
    /\ Unchanged(th)
    /\ \A a \in Selected(th) : alerts[a].lock < MaxLock
    /\ alerts' = [a \in Alerts |-> IF a \in Selected(th)
                                   THEN [model |-> thread[th].scored[a], lock |-> alerts[a].lock + 1]
                                   ELSE alerts[a]]
    /\ predictions' = [a \in Alerts |-> IF a \in Selected(th)
                                        THEN Append(predictions[a], thread[th].scored[a])
                                        ELSE predictions[a]]
    /\ thread' = [thread EXCEPT ![th] = NoCall]
    /\ UNCHANGED <<cache, trainVars>>

(* StaleDataError, any other failure or the death of the process.          *)
ScoringFails(th) ==
    /\ th \in Scorers
    /\ thread[th].pc # "idle"
    /\ thread' = [thread EXCEPT ![th] = NoCall]
    /\ UNCHANGED <<cache, Mutable>>

(* A request of the case workflow commits its change of an alert.          *)
Touch(a) ==
    /\ alerts[a].lock < MaxLock - 1
    /\ alerts' = [alerts EXCEPT ![a].lock = @ + 1]
    /\ UNCHANGED <<cache, thread, predictions, trainVars>>
-----------------------------------------------------------------------------
RegistryInit ==
    /\ now = 1 /\ nextId = 1 /\ models = {} /\ rewritten = {} /\ overlaps = {}
    /\ files = [v \in Seconds |-> None]
    /\ trainer = [t \in Trainers |-> NoTraining]
    /\ cache = [p \in Processes |-> [id |-> None, artifact |-> None]]
    /\ thread = [th \in Threads |-> NoCall]
    /\ alerts = [a \in Alerts |-> [model |-> None, lock |-> 1]]
    /\ predictions = [a \in Alerts |-> <<>>]

TrainerStep(t) ==
    \/ Dump(t) \/ HashFile(t) \/ Register(t) \/ RegisterFails(t)
    \/ KeepInStaging(t) \/ StartPromotion(t) \/ Archive(t) \/ CommitPromotion(t)

ThreadStep(th) ==
    \/ Look(th) \/ Load(th) \/ Refuse(th) \/ Ready(th)
    \/ StartScoring(th) \/ CommitScores(th) \/ ScoringFails(th)
    \/ \E a \in Alerts : Score(th, a)

RegistryNext ==
    \/ NextSecond
    \/ \E t \in Trainers : TrainerStep(t) \/ TrainerDies(t) \/ \E d \in Data : Fit(t, d)
    \/ \E th \in Threads : ThreadStep(th)
    \/ \E a \in Alerts : Touch(a)

RegistrySpec == RegistryInit /\ [][RegistryNext]_registryVars
-----------------------------------------------------------------------------
(* What a process serves under the name of a version is the artifact whose *)
(* hash is in that version's row, whatever happened to the files since,    *)
(* and it is the one the row describes (its data and metrics), unless two  *)
(* trainings ended in the same second (load_verified, _ensure, register).  *)
ServedVerified ==
    \A p \in Processes : cache[p].id # None =>
       \E r \in models : /\ r.id = cache[p].id /\ r.sha = cache[p].artifact
                         /\ r.version \in rewritten \/ r.data = r.sha

(* Two versions are in production only if their promotions overlapped: a   *)
(* promotion archives all it can see, also what an earlier overlap left    *)
(* behind (promote).                                                       *)
ProductionUnlessOverlap ==
    \A q, r \in Production(models) : q # r => {q.id, r.id} \in overlaps

(* An alert that has a score has exactly one prediction, by the version it *)
(* names, which was promoted; an alert without a score has none, whatever  *)
(* stages, requests and crashes came together (score_all_alerts).          *)
ScoresTraceable ==
    \A a \in Alerts :
       IF alerts[a].model = None THEN predictions[a] = <<>>
       ELSE /\ predictions[a] = <<alerts[a].model>>
            /\ \E r \in models : r.id = alerts[a].model /\ r.stage # "staging"

(* Once a version is in production there always is one: no promotion, and  *)
(* no crash within one, leaves the services without a model (promote).     *)
StaysServed == [][Production(models) # {} => Production(models)' # {}]_registryVars
-----------------------------------------------------------------------------
(* Why it is so: what the trainings in progress rely on, ...               *)

Overlapped(i, j) == {i, j} \in overlaps

TrainingOk(t) ==
    LET x == trainer[t] IN
    /\ x.pc # "idle" => x.data \in Data /\ x.version \in Seconds
    /\ x.pc = "dumped" => x.version \in rewritten \/ files[x.version] = x.data
    /\ x.pc \in {"hashed", "registered", "archiving", "promoted"} =>
          x.version \in rewritten \/ x.sha = x.data
    /\ Inserting(t) => /\ x.id \in Ids /\ x.id < nextId
                       /\ \A r \in models : r.id # x.id
                       /\ \A q \in Trainers \ {t} : Inserting(q) => trainer[q].id # x.id
    /\ Promoting(t) =>
          /\ \A r \in Production(models) : r.id \in x.seen \/ Overlapped(r.id, x.id)
          /\ \A q \in Trainers \ {t} : Promoting(q) => Overlapped(trainer[q].id, x.id)
    /\ x.pc = "promoted" =>
          \A r \in Production(models) : r.id \in x.archived \/ Overlapped(r.id, x.id)

RowsOk ==
    \A r \in models : /\ r.id < nextId
                      /\ r.version \in rewritten \/ r.data = r.sha
                      /\ \A q \in models : q.id = r.id => q = r

TrainInv == TrainTypeOK /\ RowsOk /\ ProductionUnlessOverlap /\ \A t \in Trainers : TrainingOk(t)

(* ... and what the threads know: a model that was looked up, loaded or    *)
(* scored with is that of a row that was promoted, and an alert whose lock *)
(* is still what a scoring stage read is still without a score.            *)
PromotedId(i) == \E r \in models : r.id = i /\ r.stage # "staging"

CallOk(th) ==
    LET x == thread[th] IN
    /\ x.pc = "looked" => PromotedId(x.model)
    /\ x.pc = "loaded" => cache[ProcessOf[th]].id # None
    /\ \A a \in Alerts :
          /\ x.scored[a] # None => PromotedId(x.scored[a])
          /\ x.locks[a] <= alerts[a].lock
          /\ x.locks[a] = alerts[a].lock => alerts[a].model = None

CacheOk(p) == cache[p].id # None => PromotedId(cache[p].id)

ServeInv ==
    /\ ServeTypeOK /\ ServedVerified /\ ScoresTraceable
    /\ \A th \in Threads : CallOk(th)
    /\ \A p \in Processes : CacheOk(p)

RegistryInv == TrainInv /\ ServeInv
=============================================================================
