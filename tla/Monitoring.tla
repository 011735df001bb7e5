----------------------------- MODULE Monitoring -----------------------------
(* Health of a model from its metric samples (app/services/metric_service.py).*)
(* Metrics are only ever written by the seed, in the transaction that writes  *)
(* their models: to a reader the table does not change, and what the code     *)
(* computes with several SELECTs is a function of it.                         *)
(*                                                                            *)
(* A query that returns one row or None is the set of the rows it may return, *)
(* more than one only for equal timestamps.  Rates are counted in hundredths. *)
EXTENDS Integers, Sequences, FiniteSets, SequencesExt

\* A row, with the columns that the queries look at.
Metric(model, version, environment, t, availability, errors, drift) ==
  [model |-> model, version |-> version, environment |-> environment, timestamp |-> t,
   availability |-> availability, error_rate |-> errors, drift_score |-> drift]

_MIN_AVAILABILITY == 9900
_MAX_ERROR_RATE == 3
_MAX_DRIFT == 30

_status(latest) ==
  IF latest = {} THEN "NO_DATA"
  ELSE IF \E m \in latest : \/ m.availability < _MIN_AVAILABILITY
                            \/ m.error_rate > _MAX_ERROR_RATE
                            \/ m.drift_score > _MAX_DRIFT
       THEN "DEGRADED" ELSE "HEALTHY"

\* ORDER BY timestamp DESC LIMIT 1
Newest(samples) == {m \in samples : \A o \in samples : o.timestamp <= m.timestamp}

SamplesOf(metrics, model) == {m \in metrics : m.model = model}

_latest_metric(metrics, model) == Newest(SamplesOf(metrics, model))

_available_series(metrics, model) ==
  {<<m.version, m.environment>> : m \in SamplesOf(metrics, model)}

Matching(metrics, model, version, environment) ==
  {m \in SamplesOf(metrics, model) : /\ version \in {m.version, "null"}
                                     /\ environment \in {m.environment, "null"}}

\* ORDER BY timestamp DESC: each row once, and those of one timestamp in any order.
Descending(samples) ==
  CHOOSE rows \in [1..Cardinality(samples) -> samples] :
    \A i, j \in DOMAIN rows :
      i < j => rows[i] # rows[j] /\ rows[j].timestamp <= rows[i].timestamp

\* Mutant: the oldest points, which ORDER BY timestamp without DESC would give.
OldestPoints(samples, points) ==
  LET count == Cardinality(samples)
  IN SubSeq(Reverse(Descending(samples)), 1, IF count < points THEN count ELSE points)

\* The newest points, and these in chronological order.
Recent(samples, points) ==
  LET count == Cardinality(samples)
  IN Reverse(SubSeq(Descending(samples), 1, IF count < points THEN count ELSE points))

\* What is not asked for is taken from the latest sample of the model, if it has any.
Default(asked, field, latestAny) ==
  IF asked = "null" /\ latestAny # {} THEN (CHOOSE m \in latestAny : TRUE)[field] ELSE asked

get_model_metrics(metrics, model, version, environment, points) ==
  LET latestAny == _latest_metric(metrics, model)
      v         == Default(version, "version", latestAny)
      e         == Default(environment, "environment", latestAny)
      asked     == Matching(metrics, model, v, e)
      latest    == Newest(asked)
  IN [monitoring_status |-> _status(latest), version |-> v, environment |-> e,
      latest |-> latest, series |-> Recent(asked, points),
      available |-> _available_series(metrics, model)]

\* The rows of the overview for the models of one page.
list_monitoring(metrics, page) ==
  {[model |-> m, latest |-> _latest_metric(metrics, m),
    monitoring_status |-> _status(_latest_metric(metrics, m))] : m \in page}

-----------------------------------------------------------------------------
\* No model has two samples with one timestamp; data/metrics.csv has none.
DistinctTimes(metrics) ==
  \A m, o \in metrics : m.model = o.model /\ m.timestamp = o.timestamp => m = o

\* The overview and the page of a model never tell two stories: the default summary has
\* the status and the latest sample of the overview.
SameStory(metrics, models, points) ==
  \A row \in list_monitoring(metrics, models) :
    LET summary == get_model_metrics(metrics, row.model, "null", "null", points)
    IN row.monitoring_status = summary.monitoring_status /\ row.latest = summary.latest

\* For each combination on offer there is data, the series ends with the latest sample,
\* is in chronological order, and lacks no sample newer than its first; a model with
\* nothing on offer is NO_DATA.
SeriesFaithful(metrics, models, points) ==
  \A model \in models :
    /\ _available_series(metrics, model) = {} <=>
         get_model_metrics(metrics, model, "null", "null", points).monitoring_status = "NO_DATA"
    /\ \A combo \in _available_series(metrics, model) :
         LET summary == get_model_metrics(metrics, model, combo[1], combo[2], points)
             shown == summary.series
         IN /\ {shown[Len(shown)]} = summary.latest
            /\ \A i \in 2..Len(shown) : shown[i - 1].timestamp < shown[i].timestamp
            /\ \A m \in Matching(metrics, model, combo[1], combo[2]) :
                 m \in Range(shown) \/ (Len(shown) = points /\ m.timestamp < shown[1].timestamp)
=============================================================================
