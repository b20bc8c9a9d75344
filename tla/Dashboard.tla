------------------------------- MODULE Dashboard -------------------------------
(***************************************************************************)
(* The analysis cache of the Streamlit dashboard (streamlit_app.py, main,  *)
(* _analyse_cached, _analyse_uncached) under the reruns of several users,  *)
(* beside someone who trains and saves the model their analyses read       *)
(* (scripts/train_risk_model.py, scripts/train_anomaly_model.py or any     *)
(* other caller of the two classes).                                       *)
(*                                                                         *)
(* A key stands for the arguments of _analyse_cached: the capture, the     *)
(* paths and the contamination, of which an analysis with a loaded model   *)
(* makes no further use. Streamlit (external) computes a missing entry     *)
(* under a lock of the key, looks again once it has the lock, and forgets  *)
(* entries and locks when the cache is cleared. The model lets a thread    *)
(* that waits for a forgotten lock go on at once, where Streamlit lets it  *)
(* wait for the holder: a case that takes three users.                     *)
(***************************************************************************)
EXTENDS MlModel, Naturals, FiniteSets

CONSTANTS Users, Keys,
          DataSets,     \* what a model may be trained on
          OldFiles,     \* what the path may name at first
          MaxCalls,     \* bound on the trainings and loads of the trainer
          MaxSaves      \* bound on the times a model is saved

NoOne == "no one"

ASSUME DashboardAssumption ==
    /\ MaxCalls \in Nat /\ MaxSaves \in Nat
    /\ Keys # {} /\ NoOne \notin Users
    /\ \A f \in OldFiles : f \in {NoFile, Partial} \/ IsBare(f)

VARIABLES kind,      \* which of the two models the file is about
          file,      \* what the model path names
          object,    \* the trainer's object
          saving,    \* whether joblib.dump is writing it
          calls, saves,
          pc, key,   \* of each user's script run
          uses,      \* whether the run found the model file
          result,    \* what the run has computed or shows
          cache,     \* the entries of _analyse_cached
          lock,      \* who computes an entry
          current,   \* whether the run cleared the cache with no other
                     \* analysis under way
          since,     \* the saves when such a run began
          cleared    \* whether the cache was ever cleared

model  == <<kind, file, object, saving, calls, saves>>
runs   == <<pc, key, uses, result, since, current>>
stored == <<cache, lock, cleared>>
vars   == <<model, runs, stored>>

NoResult == [of |-> "no result", saves |-> 0]
Error    == [of |-> "error", saves |-> 0]

Init == /\ kind \in Kinds
        /\ file \in OldFiles
        /\ object = Fresh
        /\ saving = FALSE
        /\ calls = 0 /\ saves = 0
        /\ pc = [u \in Users |-> "idle"]
        /\ key = [u \in Users |-> CHOOSE k \in Keys : TRUE]
        /\ uses = [u \in Users |-> FALSE]
        /\ result = [u \in Users |-> NoResult]
        /\ cache = [k \in Keys |-> NoResult]
        /\ lock = [k \in Keys |-> NoOne]
        /\ since = [u \in Users |-> 0]
        /\ current = [u \in Users |-> FALSE]
        /\ cleared = FALSE

-----------------------------------------------------------------------------
(* The trainer.                                                            *)
Call == ~saving /\ calls < MaxCalls /\ calls' = calls + 1

(* MLRiskClassifier() or TLSAnomalyDetector(contamination)                 *)
New == /\ Call
       /\ object' = Fresh
       /\ UNCHANGED <<kind, file, saving, saves, runs, stored>>

TrainObject(d) == /\ Call
                  /\ object' = Trained(kind, object, d)
                  /\ UNCHANGED <<kind, file, saving, saves, runs, stored>>

(* A file that cannot be read raises before anything is changed.           *)
LoadObject == /\ Call
              /\ Readable(file)
              /\ object' = Load(kind, object, file)
              /\ UNCHANGED <<kind, file, saving, saves, runs, stored>>

(* save: joblib.dump truncates the file and writes it in place.            *)
BeginSave == /\ ~saving /\ saves < MaxSaves
             /\ saving' = TRUE
             /\ file' = Partial
             /\ UNCHANGED <<kind, object, calls, saves, runs, stored>>

EndSave == /\ saving
           /\ saving' = FALSE
           /\ file' = Dump(object)
           /\ saves' = saves + 1
           /\ UNCHANGED <<kind, object, calls, runs, stored>>

(* The dump raises, or the trainer's process ends in it.                   *)
StopSave == /\ saving
            /\ saving' = FALSE
            /\ object' \in {object, Fresh}
            /\ saves' = saves + 1
            /\ UNCHANGED <<kind, file, calls, runs, stored>>

Trainer == \/ New \/ LoadObject \/ BeginSave \/ EndSave \/ StopSave
           \/ \E d \in DataSets : TrainObject(d)

-----------------------------------------------------------------------------
(* A user's run of main.                                                   *)
Analysing(u) == pc[u] \in {"computing", "analysing", "writing"}

(* Variant of Cached: without the decorator.                               *)
NeverCached(k) == FALSE
Cached(k) == cache[k] # NoResult

(* Variant of Emptied: another cache is cleared.                           *)
EmptiedElsewhere == cache
Emptied == [k \in Keys |-> NoResult]

Begin(u, k, alone) ==
    /\ pc[u] = "idle"
    /\ pc' = [pc EXCEPT ![u] = "looking"]
    /\ key' = [key EXCEPT ![u] = k]
    /\ result' = [result EXCEPT ![u] = NoResult]
    /\ since' = [since EXCEPT ![u] = IF alone THEN saves ELSE 0]
    /\ current' = [current EXCEPT ![u] = alone]
    /\ UNCHANGED <<uses, model>>

Rerun(u, k) == Begin(u, k, FALSE) /\ UNCHANGED stored

(* The run that the button "Clear cached analysis" starts.                 *)
ClearAndRerun(u, k) ==
    /\ Begin(u, k, \A v \in Users : ~Analysing(v))
    /\ cache' = Emptied
    /\ lock' = [c \in Keys |-> NoOne]
    /\ cleared' = TRUE

(* The lock of an entry, when an exception leaves the computation.         *)
Released(u) == [lock EXCEPT ![key[u]] = IF @ = u THEN NoOne ELSE @]

Show(u, r) == /\ pc' = [pc EXCEPT ![u] = "idle"]
              /\ result' = [result EXCEPT ![u] = r]
              /\ uses' = [uses EXCEPT ![u] = FALSE]
              /\ UNCHANGED <<key, since, current, model>>

Step(u, from, to) == /\ pc[u] = from
                     /\ pc' = [pc EXCEPT ![u] = to]
                     /\ UNCHANGED <<key, since, current, model>>

LookUp(u) == IF Cached(key[u])
             THEN /\ pc[u] = "looking"
                  /\ Show(u, cache[key[u]]) /\ UNCHANGED stored
             ELSE /\ Step(u, "looking", "locking")
                  /\ UNCHANGED <<uses, result, stored>>

Lock(u) == /\ pc[u] = "locking"
           /\ lock[key[u]] = NoOne
           /\ IF Cached(key[u])
              THEN Show(u, cache[key[u]]) /\ UNCHANGED stored
              ELSE /\ Step(u, "locking", "computing")
                   /\ lock' = [lock EXCEPT ![key[u]] = u]
                   /\ UNCHANGED <<uses, result, cache, cleared>>

(* Path(risk_model).exists(): a path that names nothing means no model.    *)
CheckPath(u) == /\ Step(u, "computing", "analysing")
                /\ uses' = [uses EXCEPT ![u] = file.state # "none"]
                /\ result' = IF file.state = "none"
                             THEN [result EXCEPT ![u] = [of |-> "rules", saves |-> saves]]
                             ELSE result
                /\ UNCHANGED stored

(* The sessions are built and assessed and the models, if any, are loaded  *)
(* and asked, all in one call of analyze.                                  *)
Loaded == Load(kind, Fresh, file)
Works(u) == uses[u] => Readable(file) /\ Answers(Loaded)

Analyse(u) == /\ Works(u)
              /\ Step(u, "analysing", "writing")
              /\ result' = IF uses[u]
                           THEN [result EXCEPT ![u] = [of |-> Loaded.estimator.of,
                                                       saves |-> saves]]
                           ELSE result
              /\ UNCHANGED <<uses, stored>>

(* Variant of Fail: a file that cannot be read is tried until it can be.   *)
FailUnlessUnreadable(u) == /\ pc[u] = "analysing"
                           /\ uses[u] => Readable(file)
                           /\ Show(u, Error)
                           /\ lock' = Released(u)
                           /\ UNCHANGED <<cache, cleared>>

(* except Exception: tshark fails, or the model does. Nothing is cached.   *)
Fail(u) == /\ pc[u] = "analysing"
           /\ Show(u, Error)
           /\ lock' = Released(u)
           /\ UNCHANGED <<cache, cleared>>

Write(u) == /\ pc[u] = "writing"
            /\ cache' = [cache EXCEPT ![key[u]] = result[u]]
            /\ Show(u, result[u])
            /\ lock' = [lock EXCEPT ![key[u]] = IF @ = u THEN NoOne ELSE @]
            /\ UNCHANGED cleared

Continue(u) == LookUp(u) \/ Lock(u) \/ CheckPath(u) \/ Analyse(u) \/ Fail(u) \/ Write(u)

Next == \/ Trainer
        \/ \E u \in Users : \/ Continue(u)
                            \/ \E k \in Keys : Rerun(u, k) \/ ClearAndRerun(u, k)

Spec == Init /\ [][Next]_vars /\ \A u \in Users : WF_vars(Continue(u))

-----------------------------------------------------------------------------
(* A model file whose model was trained, or loaded, to the end answers in  *)
(* every analysis that reads it, whatever happened to the object before:   *)
(* train and fit set the columns first, so a retry after a failed training *)
(* does not leave the columns of one model with the estimator of another.  *)
SavedModelAnswers == Readable(file) /\ Loaded.ok => Answers(Loaded)

(* And what the object reports of the model is about that model: its       *)
(* importances, and its metrics or none. The one exception the code makes  *)
(* is a bare estimator loaded into an object that was trained before.      *)
ReportsOwn(o) ==
    o.ok =>
        /\ o.importances = o.estimator.of
        /\ o.metrics \notin {NoName, o.estimator.of}
               => \E f \in OldFiles : IsBare(f) /\ f.estimator = o.estimator

OwnMetrics == kind = "risk classifier" => ReportsOwn(object)

(* Users who look at the same capture and configuration see one result as  *)
(* long as nobody clears the cache, though the model was trained again     *)
(* between their runs ("so two identical uploads share one result").       *)
OneResultUntilCleared ==
    ~cleared =>
        \A u, v \in Users :
            /\ key[u] = key[v] /\ pc[u] = "idle" /\ pc[v] = "idle"
            /\ {result[u], result[v]} \cap {NoResult, Error} = {}
            => result[u] = result[v]

(* After "Clear cached analysis" a run shows the model as it was saved     *)
(* then or later, if no other analysis was under way: one that was writes  *)
(* what it read before into the emptied cache.                             *)
ClearedShowsSaved ==
    \A u \in Users :
        current[u] /\ pc[u] = "idle" /\ result[u] # Error =>
            result[u].saves >= since[u]

(* Every run ends with a result or an error, whatever the trainer leaves   *)
(* at the model path and although caches are cleared around it: an         *)
(* analysis that cannot load its model is left by the exception, which     *)
(* main catches. A run that waits for a lock may lose it again and again   *)
(* only to users who start runs forever. That tshark returns, and that     *)
(* Streamlit frees the lock of a failed computation, is taken for granted. *)
EveryRunEnds ==
    \A u \in Users : \/ []<>(pc[u] = "idle")
                     \/ \E v \in Users \ {u} : []<>(pc[v] = "looking")
===============================================================================
