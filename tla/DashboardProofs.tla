---------------------------- MODULE DashboardProofs ----------------------------
(***************************************************************************)
(* Proofs about Dashboard, for any number of users and keys, any data sets *)
(* and old files, and any number of trainings and saves.                   *)
(***************************************************************************)
EXTENDS Dashboard, TLAPS

Bares == {f \in OldFiles : IsBare(f)}
Names == {NoName} \cup {d.name : d \in DataSets} \cup {f.estimator.of : f \in Bares}
BareColumns == UNION {f.estimator.columns : f \in Bares}
DataColumns == UNION {d.columns : d \in DataSets}
Columns == DataColumns \cup BareColumns

Estimators == [state : {"absent", "unfitted", "fitted"}, of : Names,
               columns : SUBSET Columns]
Objects == [estimator : Estimators, columns : SUBSET Columns,
            importances : Names, metrics : Names, ok : BOOLEAN]

(* What is maintained of an object in memory and of one in a file.         *)
Sound(o) == /\ o \in Objects
            /\ o.ok => Answers(o)
            /\ kind = "risk classifier" => ReportsOwn(o)

SoundFile(f) == \/ f \in {NoFile, Partial}
                \/ f \in Bares
                \/ \E o \in Objects : Sound(o) /\ f = Dump(o)

ModelInv == kind \in Kinds /\ Sound(object) /\ SoundFile(file)

LEMMA DataTypes ==
    ASSUME NEW d \in DataSets
    PROVE  d.name \in Names /\ d.columns \in SUBSET Columns /\ Fitted(d) \in Estimators
BY DEF Names, Columns, DataColumns, Fitted, Estimators

LEMMA BareTypes ==
    ASSUME NEW f \in Bares
    PROVE  /\ f.state = "bare" /\ f.named \in BOOLEAN
           /\ f.estimator \in Estimators /\ f.estimator.state = "fitted"
           /\ f.estimator.of \in Names /\ f.estimator.columns \in SUBSET Columns
<1> DEFINE e == [name |-> f.estimator.of, columns |-> f.estimator.columns]
<1>1. f.state = "bare" /\ f.named \in BOOLEAN /\ f = Bare(e, f.named)
  BY DEF Bares, IsBare
<1>2. f.estimator = Fitted(e)
  BY <1>1 DEF Bare
<1>3. f.estimator.of \in Names
  BY DEF Names
<1>4. \A x \in f.estimator.columns : x \in BareColumns
  BY DEF BareColumns
<1>5. BareColumns \subseteq Columns
  BY DEF Columns
<1>6. f.estimator.columns \in SUBSET Columns
  BY <1>4, <1>5
<1> QED
  BY <1>1, <1>2, <1>3, <1>6 DEF Fitted, Estimators

LEMMA FreshSound == Sound(Fresh)
BY DEF Sound, Fresh, Objects, Estimators, NoEstimator, Names, ReportsOwn

(* Training, whether it ends well or raises anywhere.                      *)
LEMMA TrainedSound ==
    ASSUME kind \in Kinds, NEW o, Sound(o), NEW d \in DataSets
    PROVE  Sound(Trained(kind, o, d))
<1> USE DEF Sound, Trained, Objects
<1>0. /\ d.name \in Names /\ d.columns \in SUBSET Columns
      /\ Fitted(d) \in Estimators /\ Unfitted \in Estimators /\ NoName \in Names
  BY DataTypes DEF Names, Unfitted, Estimators
<1>1. CASE d.refused
  BY <1>1 DEF Train, Fit
<1>2. CASE ~d.refused /\ kind = "risk classifier"
  <2>1. CASE d.fails = "split"
    BY <1>0, <1>2, <2>1 DEF Train, ReportsOwn
  <2>2. CASE d.fails = "fit"
    BY <1>0, <1>2, <2>2 DEF Train, ReportsOwn
  <2>3. CASE d.fails \notin {"split", "fit"}
    <3> DEFINE m == IF d.holdout THEN d.name ELSE NoName
    <3>1. m \in Names /\ (m \notin {NoName, d.name} => FALSE)
      BY <1>0
    <3>2. Train(o, d) = [estimator |-> Fitted(d), columns |-> d.columns,
                         importances |-> d.name, metrics |-> m, ok |-> TRUE]
      BY <1>2, <2>3 DEF Train
    <3> DEFINE t == [estimator |-> Fitted(d), columns |-> d.columns,
                     importances |-> d.name, metrics |-> m, ok |-> TRUE]
    <3>3. t \in Objects
      BY <1>0, <3>1
    <3>4. Fitted(d).state = "fitted" /\ Fitted(d).of = d.name
          /\ Fitted(d).columns = d.columns
      BY DEF Fitted
    <3>5. Answers(t) /\ ReportsOwn(t)
      BY <3>1, <3>4 DEF Answers, ReportsOwn
    <3> QED
      BY <1>2, <3>2, <3>3, <3>5
  <2> QED
    BY <2>1, <2>2, <2>3
<1>3. CASE ~d.refused /\ kind = "anomaly detector"
  BY <1>0, <1>3 DEF Fit, Answers, Fitted
<1> QED
  BY <1>1, <1>2, <1>3 DEF Kinds

(* Loading a file that is sound.                                           *)
LEMMA LoadSound ==
    ASSUME kind \in Kinds, NEW o, Sound(o), NEW f, SoundFile(f), Readable(f)
    PROVE  Sound(Load(kind, o, f))
<1>1. CASE f \in Bares
  <2>1. Load(kind, o, f) =
            [estimator |-> f.estimator,
             columns |-> IF f.named THEN f.estimator.columns ELSE {},
             importances |-> IF kind = "risk classifier" /\ f.named
                             THEN f.estimator.of ELSE NoName,
             metrics |-> o.metrics, ok |-> f.named]
    BY <1>1, BareTypes DEF Load, Sound, Objects
  <2>2. IsBare(f) /\ f \in OldFiles
    BY <1>1 DEF Bares
  <2>3. NoName \in Names /\ {} \in SUBSET Columns /\ o.metrics \in Names
    BY DEF Names, Sound, Objects
  <2>4. /\ f.named \in BOOLEAN /\ f.estimator \in Estimators
        /\ f.estimator.state = "fitted"
        /\ f.estimator.of \in Names /\ f.estimator.columns \in SUBSET Columns
    BY <1>1, BareTypes
  <2>5. CASE f.named = FALSE
    <3> DEFINE t == [estimator |-> f.estimator, columns |-> {},
              importances |-> NoName, metrics |-> o.metrics, ok |-> FALSE]
    <3>1. Load(kind, o, f) = t
      BY <2>1, <2>5
    <3>2. t \in Objects
      BY <2>3, <2>4 DEF Objects
    <3>3. ~t.ok
      OBVIOUS
    <3> QED
      BY <3>1, <3>2, <3>3 DEF Sound, ReportsOwn
  <2>6. CASE f.named = TRUE
    <3> DEFINE i == IF kind = "risk classifier" THEN f.estimator.of ELSE NoName
               t == [estimator |-> f.estimator, columns |-> f.estimator.columns,
                     importances |-> i, metrics |-> o.metrics, ok |-> TRUE]
    <3>1. Load(kind, o, f) = t
      BY <2>1, <2>6
    <3>2. i \in Names
      BY <2>3, <2>4
    <3>3. t \in Objects
      BY <2>3, <2>4, <3>2 DEF Objects
    <3>4. Answers(t)
      BY <2>4 DEF Answers
    <3>5. kind = "risk classifier" => ReportsOwn(t)
      BY <2>2 DEF ReportsOwn
    <3> QED
      BY <3>1, <3>3, <3>4, <3>5 DEF Sound
  <2> QED
    BY <2>4, <2>5, <2>6
<1>2. CASE \E p \in Objects : Sound(p) /\ f = Dump(p)
  BY <1>2 DEF Load, Dump
<1>3. f \notin {NoFile, Partial}
  BY DEF Readable, NoFile, Partial
<1> QED
  BY <1>1, <1>2, <1>3 DEF SoundFile

LEMMA ModelInit == Init => ModelInv
<1> SUFFICES ASSUME Init PROVE ModelInv
  OBVIOUS
<1>1. SoundFile(file)
  BY DashboardAssumption DEF Init, SoundFile, Bares
<1> QED
  BY <1>1, FreshSound DEF Init, ModelInv

(* Every step leaves the object and the file sound.                        *)
LEMMA ModelStep == ModelInv /\ [Next]_vars => ModelInv'
<1> SUFFICES ASSUME ModelInv, [Next]_vars PROVE ModelInv'
  OBVIOUS
<1>1. CASE Trainer
  <2>1. kind' = kind
    BY <1>1 DEF Trainer, New, LoadObject, BeginSave, EndSave, StopSave, TrainObject
  <2>2. ASSUME Sound(object') PROVE Sound(object)'
    BY <2>1, <2>2 DEF Sound
  <2>3. ASSUME SoundFile(file') PROVE SoundFile(file)'
    BY <2>1, <2>3 DEF SoundFile, Sound
  <2>4. Sound(object')
    BY <1>1, FreshSound, TrainedSound, LoadSound
       DEF ModelInv, Trainer, New, LoadObject, BeginSave, EndSave, StopSave, TrainObject
  <2>5. SoundFile(file')
    BY <1>1 DEF ModelInv, Trainer, New, LoadObject, BeginSave, EndSave, StopSave,
                TrainObject, SoundFile, Sound
  <2> QED
    BY <2>1, <2>2, <2>3, <2>4, <2>5 DEF ModelInv
<1>2. CASE UNCHANGED model
  BY <1>2 DEF model, ModelInv, Sound, SoundFile
<1>3. ASSUME NEW u \in Users, Continue(u) PROVE UNCHANGED model
  BY <1>3 DEF Continue, LookUp, Lock, CheckPath, Analyse, Fail, Write, Show, Step
<1>4. ASSUME NEW u \in Users, NEW k \in Keys, Rerun(u, k) \/ ClearAndRerun(u, k)
      PROVE  UNCHANGED model
  BY <1>4 DEF Rerun, ClearAndRerun, Begin
<1> QED
  BY <1>1, <1>2, <1>3, <1>4 DEF Next, vars

(* A model that was trained, or loaded, to the end is saved with the       *)
(* columns it was fitted on: every analysis that reads the file gets an    *)
(* answer (train, fit, save and load of both classes).                     *)
THEOREM SavedAnswers == Spec => []SavedModelAnswers
<1>1. ModelInv => SavedModelAnswers
  <2> SUFFICES ASSUME ModelInv, Readable(file) PROVE Loaded.ok => Answers(Loaded)
    BY DEF SavedModelAnswers
  <2>1. Sound(Load(kind, Fresh, file))
    BY FreshSound, LoadSound DEF ModelInv
  <2> QED
    BY <2>1 DEF Sound, Loaded
<1> QED
  BY ModelInit, ModelStep, <1>1, PTL DEF Spec

(* The importances and metrics an object reports are those of its model.   *)
THEOREM ReportsItsModel == Spec => []OwnMetrics
<1>1. ModelInv => OwnMetrics
  BY DEF ModelInv, Sound, OwnMetrics
<1> QED
  BY ModelInit, ModelStep, <1>1, PTL DEF Spec

-----------------------------------------------------------------------------
(* The cache. What a run shows is one of these.                            *)
Results == [of : Names \cup {"rules", "error", "no result"}, saves : Nat]
Places == {"idle", "looking", "locking", "computing", "analysing", "writing"}

CacheTypes == /\ saves \in Nat
              /\ pc \in [Users -> Places]
              /\ key \in [Users -> Keys]
              /\ uses \in [Users -> BOOLEAN]
              /\ result \in [Users -> Results]
              /\ cache \in [Keys -> Results]
              /\ lock \in [Keys -> Users \cup {NoOne}]
              /\ since \in [Users -> Nat]
              /\ current \in [Users -> BOOLEAN]
              /\ cleared \in BOOLEAN

(* v has read what its analysis will show.                                 *)
HasRead(v) == pc[v] = "writing" \/ (pc[v] = "analysing" /\ ~uses[v])

(* A run that cleared the cache meets only results that are at least as    *)
(* new, in the cache and in the analyses under way.                        *)
CurrentInv ==
    \A u \in Users : current[u] =>
        /\ since[u] <= saves
        /\ pc[u] = "idle" /\ result[u] # Error => result[u].saves >= since[u]
        /\ pc[u] # "idle" =>
               /\ \A k \in Keys : cache[k] # NoResult => cache[k].saves >= since[u]
               /\ \A v \in Users : HasRead(v) => result[v].saves >= since[u]

(* While nobody clears the cache, an analysis holds the lock of its key    *)
(* until the entry is written, once, and what is shown is the entry.       *)
LockInv ==
    ~cleared =>
        \A u \in Users :
            /\ Analysing(u) => lock[key[u]] = u /\ cache[key[u]] = NoResult
            /\ pc[u] = "idle" /\ result[u] \notin {NoResult, Error}
                   => cache[key[u]] = result[u]

CacheInv == ModelInv /\ CacheTypes /\ CurrentInv /\ LockInv

LEMMA ResultTypes == NoResult \in Results /\ Error \in Results
BY DEF NoResult, Error, Results

LEMMA CacheInit == Init => CacheInv
<1> SUFFICES ASSUME Init PROVE CacheInv
  OBVIOUS
<1>1. CacheTypes
  BY ResultTypes, DashboardAssumption DEF Init, CacheTypes, Places
<1>2. CurrentInv /\ LockInv
  BY DEF Init, CurrentInv, LockInv, Analysing
<1> QED
  BY <1>1, <1>2, ModelInit DEF CacheInv

(* The trainer only moves the number of saves, upwards.                    *)
LEMMA TrainerStep ==
    ASSUME CacheInv, Trainer
    PROVE  CacheTypes' /\ CurrentInv' /\ LockInv'
<1>1. saves' \in Nat /\ saves' >= saves /\ UNCHANGED <<runs, stored>>
  BY DEF CacheInv, CacheTypes, Trainer, New, LoadObject, BeginSave, EndSave, StopSave,
         TrainObject
<1>2. CacheTypes'
  BY <1>1 DEF CacheInv, CacheTypes, runs, stored
<1>3. CurrentInv'
  <2> SUFFICES ASSUME NEW u \in Users, current[u]
               PROVE  since[u] <= saves'
    BY <1>1 DEF CacheInv, CurrentInv, HasRead, runs, stored
  <2>1. since[u] \in Nat /\ saves \in Nat /\ since[u] <= saves
    BY DEF CacheInv, CacheTypes, CurrentInv
  <2> QED
    BY <1>1, <2>1
<1>4. LockInv'
  BY <1>1 DEF CacheInv, LockInv, Analysing, runs, stored
<1> QED
  BY <1>2, <1>3, <1>4

LEMMA RerunStep ==
    ASSUME CacheInv, NEW u \in Users, NEW c \in Keys, Rerun(u, c)
    PROVE  CacheTypes' /\ CurrentInv' /\ LockInv'
<1> USE DEF CacheInv, Rerun, Begin, model, stored
<1>1. CacheTypes'
  BY ResultTypes DEF CacheTypes, Places
<1>2. CurrentInv'
  BY DEF CacheTypes, CurrentInv, HasRead
<1>3. LockInv'
  BY DEF CacheTypes, LockInv, Analysing
<1> QED
  BY <1>1, <1>2, <1>3

LEMMA ClearAndRerunStep ==
    ASSUME CacheInv, NEW u \in Users, NEW c \in Keys, ClearAndRerun(u, c)
    PROVE  CacheTypes' /\ CurrentInv' /\ LockInv'
<1> USE DEF CacheInv, ClearAndRerun, Begin, model, Emptied
<1>1. CacheTypes'
  BY ResultTypes DEF CacheTypes, Places
<1>2. CurrentInv'
  <2>1. \A k \in Keys : cache'[k] = NoResult
    OBVIOUS
  <2>2. ASSUME \E v \in Users : Analysing(v) PROVE ~current'[u]
    BY <2>2 DEF CacheTypes
  <2>3. ASSUME \A v \in Users : ~Analysing(v)
        PROVE  \A v \in Users : ~HasRead(v)'
    BY <2>3 DEF CacheTypes, HasRead, Analysing
  <2>4. since'[u] <= saves' /\ pc'[u] # "idle"
    BY DEF CacheTypes
  <2>5. \A v \in Users \ {u} : /\ current'[v] = current[v] /\ since'[v] = since[v]
                               /\ pc'[v] = pc[v] /\ result'[v] = result[v]
                               /\ uses'[v] = uses[v]
    BY DEF CacheTypes
  <2>6. ~HasRead(u)'
    BY DEF CacheTypes, HasRead
  <2>7. \A v \in Users \ {u} : HasRead(v)' <=> HasRead(v)
    BY <2>5 DEF HasRead
  <2> QED
    BY <2>1, <2>2, <2>3, <2>4, <2>5, <2>6, <2>7 DEF CurrentInv
<1>3. LockInv'
  BY DEF LockInv
<1> QED
  BY <1>1, <1>2, <1>3

(* A run that finds the entry shows it and ends.                           *)
LEMMA ShowCachedStep ==
    ASSUME CacheInv, NEW u \in Users, pc[u] \in {"looking", "locking"},
           Cached(key[u]), Show(u, cache[key[u]]), UNCHANGED stored
    PROVE  CacheTypes' /\ CurrentInv' /\ LockInv'
<1> USE DEF CacheInv, Show, model, stored, Cached
<1>1. CacheTypes'
  BY DEF CacheTypes, Places
<1>2. CurrentInv'
  BY DEF CacheTypes, CurrentInv, HasRead
<1>3. LockInv'
  BY DEF CacheTypes, LockInv, Analysing
<1> QED
  BY <1>1, <1>2, <1>3

LEMMA LookUpStep ==
    ASSUME CacheInv, NEW u \in Users, LookUp(u)
    PROVE  CacheTypes' /\ CurrentInv' /\ LockInv'
<1>1. CASE Cached(key[u])
  BY <1>1, ShowCachedStep DEF LookUp
<1>2. CASE ~Cached(key[u])
  <2> USE <1>2 DEF CacheInv, LookUp, Step, model, stored
  <2>1. CacheTypes'
    BY DEF CacheTypes, Places
  <2>2. CurrentInv'
    BY DEF CacheTypes, CurrentInv, HasRead
  <2>3. LockInv'
    BY DEF CacheTypes, LockInv, Analysing
  <2> QED
    BY <2>1, <2>2, <2>3
<1> QED
  BY <1>1, <1>2

LEMMA LockStep ==
    ASSUME CacheInv, NEW u \in Users, Lock(u)
    PROVE  CacheTypes' /\ CurrentInv' /\ LockInv'
<1>1. CASE Cached(key[u])
  BY <1>1, ShowCachedStep DEF Lock
<1>2. CASE ~Cached(key[u])
  <2> USE <1>2 DEF CacheInv, Lock, Step, model
  <2>1. CacheTypes'
    BY DEF CacheTypes, Places
  <2>2. CurrentInv'
    BY DEF CacheTypes, CurrentInv, HasRead
  <2>3. LockInv'
    BY DashboardAssumption DEF CacheTypes, LockInv, Analysing, Cached
  <2> QED
    BY <2>1, <2>2, <2>3
<1> QED
  BY <1>1, <1>2

LEMMA CheckPathStep ==
    ASSUME CacheInv, NEW u \in Users, CheckPath(u)
    PROVE  CacheTypes' /\ CurrentInv' /\ LockInv'
<1> DEFINE rules == [of |-> "rules", saves |-> saves]
<1> USE DEF CacheInv, CheckPath, Step, model, stored
<1>1. saves \in Nat /\ rules \in Results
  BY DEF CacheTypes, Results
<1>2. CacheTypes'
  BY <1>1 DEF CacheTypes, Places
<1>3. CurrentInv'
  <2>1. /\ uses'[u] = (file.state # "none")
        /\ ~uses'[u] => result'[u].saves = saves
        /\ pc'[u] = "analysing"
    BY <1>1 DEF CacheTypes
  <2>2. \A v \in Users \ {u} : /\ pc'[v] = pc[v] /\ uses'[v] = uses[v]
                               /\ result'[v] = result[v]
    BY DEF CacheTypes
  <2>3. HasRead(u)' => result'[u].saves = saves
    BY <2>1 DEF HasRead
  <2>4. \A v \in Users \ {u} : HasRead(v)' <=> HasRead(v)
    BY <2>2 DEF HasRead
  <2>5. pc[u] # "idle"
    OBVIOUS
  <2> QED
    BY <2>1, <2>2, <2>3, <2>4, <2>5 DEF CurrentInv
<1>4. LockInv'
  BY DEF CacheTypes, LockInv, Analysing
<1> QED
  BY <1>2, <1>3, <1>4

LEMMA AnalyseStep ==
    ASSUME CacheInv, NEW u \in Users, Analyse(u)
    PROVE  CacheTypes' /\ CurrentInv' /\ LockInv'
<1> USE DEF CacheInv, Analyse, Step, model, stored
<1>1. ASSUME uses[u] PROVE Loaded.estimator.of \in Names
  <2>1. Sound(Load(kind, Fresh, file))
    BY <1>1, FreshSound, LoadSound DEF ModelInv, Works
  <2> QED
    BY <2>1 DEF Sound, Objects, Estimators, Loaded
<1>2. /\ uses[u] => result' = [result EXCEPT ![u] = [of |-> Loaded.estimator.of,
                                                    saves |-> saves]]
      /\ ~uses[u] => result' = result
  OBVIOUS
<1>3. result' \in [Users -> Results]
  <2>1. result \in [Users -> Results] /\ saves \in Nat
    BY DEF CacheTypes
  <2> HIDE DEF Analyse, CacheInv
  <2>2. CASE uses[u]
    <3>1. [of |-> Loaded.estimator.of, saves |-> saves] \in Results
      BY <1>1, <2>1, <2>2 DEF Results
    <3> QED
      BY <1>2, <2>1, <2>2, <3>1
  <2>3. CASE ~uses[u]
    BY <1>2, <2>1, <2>3
  <2> QED
    BY <2>2, <2>3
<1>4. /\ pc'[u] = "writing" /\ pc[u] = "analysing"
      /\ uses[u] => result'[u].saves = saves
      /\ ~uses[u] => result'[u] = result[u]
      /\ \A v \in Users \ {u} : pc'[v] = pc[v] /\ result'[v] = result[v]
  BY DEF CacheTypes
<1>5. CacheTypes'
  BY <1>3 DEF CacheTypes, Places
<1>6. CurrentInv'
  <2>1. \A v \in Users \ {u} : HasRead(v)' <=> HasRead(v)
    BY <1>4 DEF HasRead
  <2>2. ~uses[u] => HasRead(u)
    BY <1>4 DEF HasRead
  <2>3. UNCHANGED <<saves, cache, since, current>>
    OBVIOUS
  <2> HIDE DEF Analyse, CacheInv
  <2> QED
    BY <1>4, <2>1, <2>2, <2>3 DEF CacheInv, CurrentInv
<1>7. LockInv'
  <2>1. cache' = cache /\ lock' = lock /\ key' = key /\ cleared' = cleared
    OBVIOUS
  <2>2. LockInv
    OBVIOUS
  <2> HIDE DEF Analyse, CacheInv, Step, model, stored
  <2>3. SUFFICES ASSUME ~cleared', NEW v \in Users
                 PROVE  /\ Analysing(v)' => lock'[key'[v]] = v /\ cache'[key'[v]] = NoResult
                        /\ pc'[v] = "idle" /\ result'[v] \notin {NoResult, Error}
                             => cache'[key'[v]] = result'[v]
    BY Zenon DEF LockInv
  <2>4. /\ Analysing(v) => lock[key[v]] = v /\ cache[key[v]] = NoResult
        /\ pc[v] = "idle" /\ result[v] \notin {NoResult, Error}
             => cache[key[v]] = result[v]
    BY <2>1, <2>2, <2>3 DEF LockInv
  <2>5. Analysing(v)' => Analysing(v)
    BY <1>4 DEF Analysing
  <2>6. pc'[v] = "idle" => pc[v] = "idle" /\ result'[v] = result[v]
    BY <1>4
  <2> QED
    BY <2>1, <2>4, <2>5, <2>6
<1> QED
  BY <1>5, <1>6, <1>7

LEMMA FailStep ==
    ASSUME CacheInv, NEW u \in Users, Fail(u)
    PROVE  CacheTypes' /\ CurrentInv' /\ LockInv'
<1> USE DEF CacheInv, Fail, Show, Released, model
<1>1. CacheTypes'
  BY ResultTypes DEF CacheTypes, Places
<1>2. CurrentInv'
  BY DEF CacheTypes, CurrentInv, HasRead
<1>3. LockInv'
  BY DEF CacheTypes, LockInv, Analysing
<1> QED
  BY <1>1, <1>2, <1>3

LEMMA WriteStep ==
    ASSUME CacheInv, NEW u \in Users, Write(u)
    PROVE  CacheTypes' /\ CurrentInv' /\ LockInv'
<1> USE DEF CacheInv, Write, Show, model
<1>1. CacheTypes'
  BY DEF CacheTypes, Places
<1>2. CurrentInv'
  BY DEF CacheTypes, CurrentInv, HasRead
<1>3. LockInv'
  BY DEF CacheTypes, LockInv, Analysing
<1> QED
  BY <1>1, <1>2, <1>3

LEMMA CacheStep == CacheInv /\ [Next]_vars => CacheInv'
<1> SUFFICES ASSUME CacheInv, [Next]_vars PROVE CacheInv'
  OBVIOUS
<1>1. ModelInv'
  BY ModelStep DEF CacheInv
<1>2. CASE Trainer
  BY <1>1, <1>2, TrainerStep DEF CacheInv
<1>3. ASSUME NEW u \in Users, Continue(u) PROVE CacheInv'
  BY <1>1, <1>3, LookUpStep, LockStep, CheckPathStep, AnalyseStep, FailStep, WriteStep
     DEF Continue, CacheInv
<1>4. ASSUME NEW u \in Users, NEW c \in Keys, Rerun(u, c) \/ ClearAndRerun(u, c)
      PROVE  CacheInv'
  BY <1>1, <1>4, RerunStep, ClearAndRerunStep DEF CacheInv
<1>5. CASE UNCHANGED vars
  BY <1>1, <1>5 DEF vars, runs, stored, model, CacheInv, CacheTypes, CurrentInv,
                    HasRead, LockInv, Analysing
<1> QED
  BY <1>2, <1>3, <1>4, <1>5 DEF Next

(* After the button "Clear cached analysis", with no other analysis under  *)
(* way, a run shows the model as saved then or later.                      *)
THEOREM ShowsCurrent == Spec => []ClearedShowsSaved
<1>1. CacheInv => ClearedShowsSaved
  BY DEF CacheInv, CurrentInv, ClearedShowsSaved
<1> QED
  BY CacheInit, CacheStep, <1>1, PTL DEF Spec

(* Until somebody clears the cache, all users see one result per key.      *)
THEOREM SharesResult == Spec => []OneResultUntilCleared
<1>1. CacheInv => OneResultUntilCleared
  BY DEF CacheInv, LockInv, OneResultUntilCleared
<1> QED
  BY CacheInit, CacheStep, <1>1, PTL DEF Spec
===============================================================================
