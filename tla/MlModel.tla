-------------------------------- MODULE MlModel --------------------------------
(***************************************************************************)
(* The objects MLRiskClassifier (ml/risk_classifier.py) and                *)
(* TLSAnomalyDetector (ml/anomaly_detector.py): what training, saving and  *)
(* loading leave in them, and when they can predict. What is learned is    *)
(* abstracted to the data set it was learned from: both fit with a fixed   *)
(* random_state.                                                           *)
(*                                                                         *)
(* A data set is the record of what a call of train or fit can tell of it: *)
(*   name, columns   the feature columns it encodes to;                    *)
(*   refused         too few rows or classes, or lengths that differ;      *)
(*   holdout         enough rows of every class for a validation split;    *)
(*   fails           "no", or where it raises: "split" (labels with a      *)
(*                   missing value) or "fit" (values beyond a float32).    *)
(***************************************************************************)

Kinds == {"risk classifier", "anomaly detector"}
NoName == "none"

(* Scikit-learn's estimators (external): _model of an object, and whether  *)
(* it knows the names of the columns it was fitted on.                     *)
NoEstimator == [state |-> "absent", of |-> NoName, columns |-> {}]
Unfitted    == [state |-> "unfitted", of |-> NoName, columns |-> {}]
Fitted(d)   == [state |-> "fitted", of |-> d.name, columns |-> d.columns]

(* A new object; ok, which the code does not keep, says whether its last   *)
(* training or loading ended with a model that knows its columns.          *)
Fresh == [estimator |-> NoEstimator, columns |-> {},
          importances |-> NoName, metrics |-> NoName, ok |-> FALSE]

(* Variants of Train: the first columns are kept; the metrics are only     *)
(* replaced when there is something to validate with.                      *)
TrainOnFirstColumns(o, d) ==
    IF d.refused \/ d.fails # "no" THEN o
    ELSE [estimator |-> Fitted(d), importances |-> d.name, metrics |-> d.name,
          columns |-> IF o.columns = {} THEN d.columns ELSE o.columns, ok |-> TRUE]
TrainKeepingMetrics(o, d) ==
    IF d.refused \/ d.fails # "no" THEN o
    ELSE [estimator |-> Fitted(d), importances |-> d.name, columns |-> d.columns,
          metrics |-> IF d.holdout THEN d.name ELSE o.metrics, ok |-> TRUE]

(* MLRiskClassifier.train: columns and metrics go before the work that may *)
(* raise, the estimator before its fit, the importances at the end.        *)
Train(o, d) ==
    LET begun == [o EXCEPT !.columns = d.columns, !.metrics = NoName, !.ok = FALSE]
    IN  IF d.refused THEN o
        ELSE CASE d.fails = "split" -> begun
               [] d.fails = "fit"   -> [begun EXCEPT !.estimator = Unfitted]
               [] OTHER -> [begun EXCEPT !.estimator = Fitted(d),
                                         !.metrics = IF d.holdout THEN d.name ELSE NoName,
                                         !.importances = d.name,
                                         !.ok = TRUE]

(* TLSAnomalyDetector.fit, which has no labels to split by.                *)
Fit(o, d) ==
    IF d.refused THEN o
    ELSE [o EXCEPT !.columns = d.columns,
                   !.estimator = IF d.fails = "fit" THEN Unfitted ELSE Fitted(d),
                   !.ok = d.fails # "fit"]

Trained(kind, o, d) == IF kind = "risk classifier" THEN Train(o, d) ELSE Fit(o, d)

-----------------------------------------------------------------------------
(* What a path may name: nothing, a file cut off while it was written, the *)
(* dictionary that save dumps, or a bare estimator of an older release,    *)
(* fitted with or without column names.                                    *)
NoFile     == [state |-> "none"]
Partial    == [state |-> "partial"]
Dump(o)    == [state |-> "payload", object |-> o]
Bare(d, named) == [state |-> "bare", estimator |-> Fitted(d), named |-> named]

IsBare(f) == /\ f.state = "bare" /\ f.named \in BOOLEAN
             /\ f = Bare([name |-> f.estimator.of, columns |-> f.estimator.columns],
                         f.named)

Readable(f) == f.state \in {"payload", "bare"}

(* load, of a readable file: a dictionary replaces everything, a bare      *)
(* estimator leaves the metrics of the model before.                       *)
Load(kind, o, f) ==
    IF f.state = "payload" THEN f.object
    ELSE [o EXCEPT !.estimator = f.estimator,
                   !.columns = IF f.named THEN f.estimator.columns ELSE {},
                   !.importances = IF kind = "risk classifier" /\ f.named
                                   THEN f.estimator.of ELSE NoName,
                   !.ok = f.named]

(* predict and score answer when there is a fitted estimator and the       *)
(* aligned features have its columns; otherwise one of the two raises.     *)
Answers(o) == /\ o.estimator.state = "fitted"
              /\ o.columns = o.estimator.columns
===============================================================================
