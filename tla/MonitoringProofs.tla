-------------------------- MODULE MonitoringProofs --------------------------
(* The overview and the page of a model agree, whatever has been measured.    *)
EXTENDS Monitoring, FiniteSetTheorems, WellFoundedInduction, SequenceTheorems, TLAPS

-----------------------------------------------------------------------------
(* Finite sets                                                                *)

\* A finite set has an element that is greatest by some measure: a least subset that
\* had none would have one without any of its elements, and so one with it.
LEMMA HasGreatest ==
  ASSUME NEW S, IsFiniteSet(S), S # {}, NEW f, \A x \in S : f[x] \in Int
  PROVE  \E x \in S : \A y \in S : f[y] <= f[x]
  <1> DEFINE Great(U) == \E x \in U : \A y \in U : f[y] <= f[x]
             Bad == {U \in SUBSET S : U # {} /\ ~Great(U)}
             R == StrictSubsetOrdering(S)
  <1> SUFFICES ASSUME Bad # {} PROVE FALSE
    OBVIOUS
  <1>1. IsWellFoundedOn(R, FiniteSubsetsOf(S)) /\ Bad \subseteq FiniteSubsetsOf(S)
    BY FS_StrictSubsetOrderingWellFounded, FS_FiniteSubsetsOfFinite
  <1>2. PICK U \in Bad : \A V \in Bad : ~ (<<V, U>> \in R)
    <2> HIDE DEF Bad, R
    <2> QED BY <1>1, WFMin
  <1>3. PICK x \in U : TRUE
    OBVIOUS
  <1>4. U \ {x} \notin Bad
    BY <1>2, <1>3 DEF StrictSubsetOrdering
  <1>5. CASE U \ {x} = {}
    <2>1. U = {x} /\ f[x] \in Int
      BY <1>3, <1>5
    <2> QED BY <2>1
  <1>6. CASE U \ {x} # {}
    <2>1. PICK z \in U \ {x} : \A y \in U \ {x} : f[y] <= f[z]
      BY <1>4, <1>6
    <2>2. f[x] \in Int /\ f[z] \in Int /\ \A y \in U : f[y] \in Int
      BY <1>2, <1>3
    <2>3. CASE f[x] <= f[z]
      BY <2>1, <2>2, <2>3
    <2>4. CASE f[z] <= f[x]
      BY <2>1, <2>2, <2>4
    <2> QED BY <2>2, <2>3, <2>4
  <1> QED BY <1>5, <1>6

-----------------------------------------------------------------------------
(* The overview and the summary                                               *)

\* The newest sample of a table without ties is also the newest of every part it is in.
LEMMA NewestOfPart ==
  ASSUME NEW samples, NEW part \in SUBSET samples, NEW x \in part,
         \A m \in samples : m.timestamp \in Int,
         \A m, o \in samples : m.timestamp = o.timestamp => m = o,
         x \in Newest(samples)
  PROVE  Newest(samples) = {x} /\ Newest(part) = {x}
  <1>1. ASSUME NEW m \in Newest(part) \union Newest(samples) PROVE m = x
    <2>1. m \in samples /\ x.timestamp <= m.timestamp /\ m.timestamp <= x.timestamp
      BY DEF Newest
    <2> QED BY <2>1
  <1>2. x \in Newest(part)
    BY DEF Newest
  <1> QED BY <1>1, <1>2

\* metric_service.py: the overview row and the default summary of a model show the same
\* sample and the same status.  The two take different ways there: the overview asks for
\* the latest sample of the model, the summary for the latest of the version and the
\* environment that this sample has.
THEOREM OneStory ==
  ASSUME NEW metrics, \A m \in metrics : m.timestamp \in Int, DistinctTimes(metrics),
         NEW models, NEW points
  PROVE  SameStory(metrics, models, points)
  <1> SUFFICES ASSUME NEW model \in models
               PROVE  LET summary == get_model_metrics(metrics, model, "null", "null", points)
                          latest  == _latest_metric(metrics, model)
                      IN _status(latest) = summary.monitoring_status /\ latest = summary.latest
    BY DEF SameStory, list_monitoring
  <1> DEFINE samples == SamplesOf(metrics, model)
             latest  == _latest_metric(metrics, model)
             v       == Default("null", "version", latest)
             e       == Default("null", "environment", latest)
             asked   == Matching(metrics, model, v, e)
  <1>1. latest = Newest(samples) /\ asked \subseteq samples
    BY DEF _latest_metric, Matching
  <1>2. Newest(asked) = latest
    <2>1. CASE latest = {}
      <3>1. v = "null" /\ e = "null"
        BY <2>1 DEF Default
      <3> HIDE DEF v, e, latest
      <3>2. asked = samples
        BY <3>1 DEF Matching
      <3> QED BY <1>1, <3>2
    <2>2. CASE latest # {}
      <3> DEFINE x == CHOOSE m \in latest : TRUE
      <3>1. x \in latest
        BY <2>2
      <3>2. v = x.version /\ e = x.environment
        BY <2>2 DEF Default
      <3>3. x \in samples
        BY <1>1, <3>1 DEF Newest
      <3>4. /\ \A m \in samples : m.timestamp \in Int
            /\ \A m, o \in samples : m.timestamp = o.timestamp => m = o
        BY DEF SamplesOf, DistinctTimes
      <3> HIDE DEF x, v, e, latest
      <3>5. x \in asked
        BY <3>2, <3>3 DEF Matching
      <3> HIDE DEF asked, samples
      <3> QED BY <1>1, <3>1, <3>4, <3>5, NewestOfPart
    <2> QED BY <2>1, <2>2
  <1> HIDE DEF latest, v, e, asked
  <1>3. get_model_metrics(metrics, model, "null", "null", points).latest = Newest(asked)
    BY DEF get_model_metrics, latest, v, e, asked
  <1>4. get_model_metrics(metrics, model, "null", "null", points).monitoring_status = _status(Newest(asked))
    BY DEF get_model_metrics, latest, v, e, asked
  <1> QED BY <1>2, <1>3, <1>4 DEF latest

-----------------------------------------------------------------------------
(* The series                                                                 *)

\* A finite set of samples has an order from the newest to the oldest: a least subset that
\* had none would get one from what is left without its oldest sample.
LEMMA SortedExists ==
  ASSUME NEW S, IsFiniteSet(S), \A m \in S : m.timestamp \in Int
  PROVE  \E rows \in Bijection(1..Cardinality(S), S) :
           \A i, j \in DOMAIN rows : i < j => rows[j].timestamp <= rows[i].timestamp
  <1> DEFINE Falls(rows) == \A i, j \in DOMAIN rows : i < j => rows[j].timestamp <= rows[i].timestamp
             Sorted(U) == \E rows \in Bijection(1..Cardinality(U), U) : Falls(rows)
             Bad == {U \in SUBSET S : ~Sorted(U)}
             R == StrictSubsetOrdering(S)
  <1> SUFFICES ASSUME Bad # {} PROVE FALSE
    BY DEF Bad
  <1>1. IsWellFoundedOn(R, FiniteSubsetsOf(S)) /\ Bad \subseteq FiniteSubsetsOf(S)
    BY FS_StrictSubsetOrderingWellFounded, FS_FiniteSubsetsOfFinite
  <1>2. PICK U \in Bad : \A V \in Bad : ~ (<<V, U>> \in R)
    <2> HIDE DEF Bad, R
    <2> QED BY <1>1, WFMin
  <1>3. U \subseteq S /\ IsFiniteSet(U) /\ ~Sorted(U)
    BY <1>2, FS_Subset
  <1>4. U # {}
    <2> SUFFICES ASSUME U = {} PROVE FALSE
      OBVIOUS
    <2> DEFINE none == [i \in {} |-> 0]
    <2>1. Cardinality(U) = 0 /\ 1..Cardinality(U) = {}
      BY FS_EmptySet
    <2>2. none \in Bijection({}, {})
      BY DEF Bijection, Injection, Surjection, IsInjective
    <2>3. DOMAIN none = {}
      OBVIOUS
    <2> HIDE DEF none
    <2>4. Falls(none)
      BY <2>3
    <2> QED BY <1>3, <2>1, <2>2, <2>4
  <1>5. PICK x \in U : \A y \in U : x.timestamp <= y.timestamp
    <2> DEFINE f == [y \in U |-> -y.timestamp]
    <2>1. \A y \in U : f[y] = -y.timestamp /\ y.timestamp \in Int
      BY <1>3
    <2> HIDE DEF f
    <2>2. \A y \in U : f[y] \in Int
      BY <2>1
    <2>3. PICK x \in U : \A y \in U : f[y] <= f[x]
      BY <1>3, <1>4, <2>2, HasGreatest
    <2> QED BY <2>1, <2>3
  <1> DEFINE V == U \ {x}
             n == Cardinality(U)
  <1>6. Sorted(V)
    <2>1. V \in SUBSET S /\ <<V, U>> \in R
      BY <1>2, <1>3 DEF StrictSubsetOrdering
    <2> QED BY <1>2, <2>1
  <1>7. n \in Nat \ {0} /\ Cardinality(V) = n - 1
    BY <1>3, <1>4, FS_RemoveElement, FS_CardinalityType, FS_EmptySet
  <1>8. PICK rest \in Bijection(1..(n - 1), V) : Falls(rest)
    BY <1>6, <1>7
  <1> DEFINE rows == [i \in 1..n |-> IF i = n THEN x ELSE rest[i]]
  <1> HIDE DEF Sorted, Bad, R, n, V
  <1>9. /\ rest \in [1..(n - 1) -> V] /\ DOMAIN rest = 1..(n - 1)
        /\ \A i, j \in 1..(n - 1) : rest[i] = rest[j] => i = j
        /\ \A y \in V : \E i \in 1..(n - 1) : rest[i] = y
    BY <1>8 DEF Bijection, Injection, Surjection, IsInjective
  <1>10. /\ DOMAIN rows = 1..n /\ n \in 1..n /\ rows[n] = x
         /\ \A i \in 1..n : i # n => i \in 1..(n - 1) /\ rows[i] = rest[i] /\ rest[i] \in V
         /\ \A i \in 1..(n - 1) : i \in 1..n /\ i # n
    BY <1>7, <1>9
  <1>11. x \notin V /\ U = V \union {x}
    BY DEF V
  <1> HIDE DEF rows
  <1>12. rows \in [1..n -> U]
    <2>1. \A i \in 1..n : rows[i] \in U
      BY <1>10, <1>11
    <2>2. rows = [i \in 1..n |-> rows[i]]
      BY DEF rows
    <2> QED BY <2>1, <2>2
  <1>13. rows \in Bijection(1..n, U)
    <2>1. \A i, j \in 1..n : rows[i] = rows[j] => i = j
      BY <1>9, <1>10, <1>11
    <2>2. \A y \in U : \E i \in 1..n : rows[i] = y
      BY <1>9, <1>10, <1>11
    <2> QED BY <1>10, <1>12, <2>1, <2>2 DEF Bijection, Injection, Surjection, IsInjective
  <1>14. Falls(rows)
    <2> SUFFICES ASSUME NEW i \in 1..n, NEW j \in 1..n, i < j
                 PROVE  rows[j].timestamp <= rows[i].timestamp
      BY <1>10
    <2>1. i # n /\ rows[i] = rest[i] /\ i \in 1..(n - 1) /\ rest[i] \in U
      BY <1>7, <1>10, <1>11
    <2>2. CASE j = n
      BY <1>5, <1>10, <2>1, <2>2
    <2>3. CASE j # n
      BY <1>8, <1>9, <1>10, <2>1, <2>3
    <2> QED BY <2>2, <2>3
  <1> QED BY <1>3, <1>13, <1>14 DEF Sorted, n

\* What the code makes of that order: the newest samples, the last of them at the end.
LEMMA SeriesOf ==
  ASSUME NEW samples, IsFiniteSet(samples), samples # {}, NEW points \in Nat \ {0},
         \A m \in samples : m.timestamp \in Int,
         \A m, o \in samples : m.timestamp = o.timestamp => m = o
  PROVE  LET shown == Recent(samples, points)
         IN /\ {shown[Len(shown)]} = Newest(samples)
            /\ \A i \in 2..Len(shown) : shown[i - 1].timestamp < shown[i].timestamp
            /\ \A m \in samples :
                 m \in Range(shown) \/ (Len(shown) = points /\ m.timestamp < shown[1].timestamp)
  <1> DEFINE n == Cardinality(samples)
             k == IF n < points THEN n ELSE points
             d == Descending(samples)
             s == SubSeq(d, 1, k)
             shown == Recent(samples, points)
  <1>1. n \in Nat \ {0}
    BY FS_CardinalityType, FS_EmptySet
  <1>2. /\ d \in Bijection(1..n, samples)
        /\ \A i, j \in DOMAIN d : i < j => d[j].timestamp <= d[i].timestamp
    <2> DEFINE Falls(rows) == \A i, j \in DOMAIN rows :
                 i < j => rows[i] # rows[j] /\ rows[j].timestamp <= rows[i].timestamp
    <2>1. \E rows \in [1..n -> samples] : Falls(rows)
      <3>1. PICK rows \in Bijection(1..n, samples) :
              \A i, j \in DOMAIN rows : i < j => rows[j].timestamp <= rows[i].timestamp
        BY SortedExists
      <3>2. rows \in [1..n -> samples] /\ \A i, j \in 1..n : rows[i] = rows[j] => i = j
        BY <3>1 DEF Bijection, Injection, IsInjective
      <3>3. Falls(rows)
        BY <1>1, <3>1, <3>2
      <3> QED BY <3>2, <3>3
    <2>2. d \in [1..n -> samples] /\ Falls(d)
      BY <2>1 DEF Descending
    <2> HIDE DEF d, n
    <2>3. d \in Injection(1..n, samples)
      <3>1. ASSUME NEW i \in 1..n, NEW j \in 1..n, d[i] = d[j] PROVE i = j
        <4>1. ~ (i < j) /\ ~ (j < i)
          BY <2>2, <3>1
        <4> QED BY <4>1
      <3> QED BY <2>2, <3>1 DEF Injection, IsInjective
    <2>4. Cardinality(1..n) = Cardinality(samples)
      BY <1>1, FS_Interval DEF n
    <2>5. d \in Surjection(1..n, samples)
      BY <2>3, <2>4, FS_Injection
    <2> QED BY <2>2, <2>3, <2>5 DEF Bijection
  <1>3. /\ \A i \in 1..n : d[i] \in samples
        /\ \A i, j \in 1..n : i < j => d[j].timestamp < d[i].timestamp
        /\ \A m \in samples : \E i \in 1..n : d[i] = m
    <2>1. /\ d \in [1..n -> samples] /\ DOMAIN d = 1..n
          /\ \A i, j \in 1..n : d[i] = d[j] => i = j
          /\ \A m \in samples : \E i \in 1..n : d[i] = m
      BY <1>2 DEF Bijection, Injection, Surjection, IsInjective
    <2> HIDE DEF d, n
    <2>2. ASSUME NEW i \in 1..n, NEW j \in 1..n, i < j PROVE d[j].timestamp < d[i].timestamp
      <3>1. d[i] \in samples /\ d[j] \in samples /\ d[i] # d[j] /\ d[j].timestamp <= d[i].timestamp
        BY <1>2, <2>1, <2>2
      <3> QED BY <3>1
    <2> QED BY <2>1, <2>2
  <1> HIDE DEF n, d
  <1>4. k \in 1..n /\ k <= points /\ (k < n => k = points)
    BY <1>1
  <1>5. shown = Reverse(s)
    BY DEF Recent, n, d
  <1> HIDE DEF k
  <1>6. /\ Len(s) = k /\ \A i \in 1..k : s[i] = d[i]
    BY <1>3, <1>4, SubSeqProperties
  <1> HIDE DEF s
  <1>7. /\ shown = [i \in 1..k |-> d[k - i + 1]] /\ shown \in Seq(samples) /\ Len(shown) = k
    <2>1. \A i \in 1..k : (k - i) + 1 \in 1..k /\ (k - i) + 1 \in 1..n
      BY <1>1, <1>4
    <2>2. shown = [i \in 1..k |-> d[k - i + 1]]
      BY <1>5, <1>6, <2>1 DEF Reverse
    <2> HIDE DEF shown
    <2>3. shown \in Seq(samples) /\ Len(shown) = k
      <3>1. k \in Nat /\ \A i \in 1..k : d[k - i + 1] \in samples
        BY <1>1, <1>3, <1>4, <2>1
      <3>2. shown \in [1..k -> samples]
        BY <2>2, <3>1
      <3> QED BY <3>1, <3>2
    <2> QED BY <2>2, <2>3
  <1> HIDE DEF shown
  <1>8. \A i \in 1..k : shown[i] = d[k - i + 1] /\ k - i + 1 \in 1..n
    BY <1>1, <1>4, <1>7
  <1>9. {shown[Len(shown)]} = Newest(samples)
    <2>1. shown[Len(shown)] = d[1] /\ 1 \in 1..n
      BY <1>1, <1>4, <1>7, <1>8
    <2>2. \A m \in samples : m.timestamp <= d[1].timestamp
      <3> SUFFICES ASSUME NEW i \in 1..n PROVE d[i].timestamp <= d[1].timestamp
        BY <1>3
      <3>1. i = 1 \/ 1 < i
        OBVIOUS
      <3>2. d[i].timestamp \in Int
        BY <1>3
      <3> QED BY <1>3, <2>1, <3>1, <3>2
    <2>3. d[1] \in Newest(samples)
      BY <1>3, <2>1, <2>2 DEF Newest
    <2>4. samples \in SUBSET samples /\ d[1] \in samples
      BY <1>3, <2>1
    <2>5. Newest(samples) = {d[1]}
      BY <2>3, <2>4, NewestOfPart
    <2> QED BY <2>1, <2>5
  <1>10. \A i \in 2..Len(shown) : shown[i - 1].timestamp < shown[i].timestamp
    <2> SUFFICES ASSUME NEW i \in 2..k PROVE shown[i - 1].timestamp < shown[i].timestamp
      BY <1>7
    <2>1. i \in 1..k /\ i - 1 \in 1..k /\ k - i + 1 < k - (i - 1) + 1
      BY <1>4
    <2> QED BY <1>3, <1>8, <2>1
  <1>11. ASSUME NEW m \in samples
         PROVE  m \in Range(shown) \/ (Len(shown) = points /\ m.timestamp < shown[1].timestamp)
    <2>1. PICK j \in 1..n : d[j] = m
      BY <1>3
    <2>2. CASE j <= k
      <3>1. k - j + 1 \in 1..k /\ k - (k - j + 1) + 1 = j
        BY <1>4, <2>2
      <3>2. m = shown[k - j + 1] /\ k - j + 1 \in DOMAIN shown
        BY <1>7, <1>8, <2>1, <3>1
      <3> QED BY <3>2 DEF Range
    <2>3. CASE k < j
      <3>1. 1 \in 1..k /\ k - 1 + 1 = k /\ k = points
        BY <1>1, <1>4, <2>3
      <3>2. shown[1] = d[k] /\ k \in 1..n
        BY <1>4, <1>8, <3>1
      <3>3. m.timestamp < shown[1].timestamp
        BY <1>3, <2>1, <2>3, <3>2
      <3> QED BY <1>7, <3>1, <3>3
    <2> QED BY <1>4, <2>2, <2>3
  <1> QED BY <1>9, <1>10, <1>11 DEF shown

\* metric_service.py: for each version and environment on offer there is data; its series
\* is chronological, ends with the latest sample and leaves out only older ones than it
\* shows; and a model is NO_DATA just when nothing is on offer.
THEOREM FaithfulSeries ==
  ASSUME NEW metrics, IsFiniteSet(metrics), DistinctTimes(metrics),
         \A m \in metrics : m.timestamp \in Int /\ "null" \notin {m.version, m.environment},
         NEW models, NEW points \in Nat \ {0}
  PROVE  SeriesFaithful(metrics, models, points)
  <1> SUFFICES ASSUME NEW model \in models
               PROVE  /\ _available_series(metrics, model) = {} <=>
                           get_model_metrics(metrics, model, "null", "null", points).monitoring_status = "NO_DATA"
                      /\ \A combo \in _available_series(metrics, model) :
                           LET summary == get_model_metrics(metrics, model, combo[1], combo[2], points)
                               shown == summary.series
                           IN /\ {shown[Len(shown)]} = summary.latest
                              /\ \A i \in 2..Len(shown) : shown[i - 1].timestamp < shown[i].timestamp
                              /\ \A m \in Matching(metrics, model, combo[1], combo[2]) :
                                   m \in Range(shown) \/ (Len(shown) = points /\ m.timestamp < shown[1].timestamp)
    BY DEF SeriesFaithful
  <1> DEFINE samples == SamplesOf(metrics, model)
  <1>1. /\ IsFiniteSet(samples) /\ \A m \in samples : m \in metrics /\ m.timestamp \in Int
        /\ \A m, o \in samples : m.timestamp = o.timestamp => m = o
    BY FS_Subset DEF SamplesOf, DistinctTimes
  <1>2. _available_series(metrics, model) = {} <=>
          get_model_metrics(metrics, model, "null", "null", points).monitoring_status = "NO_DATA"
    <2>1. _available_series(metrics, model) = {} <=> samples = {}
      BY DEF _available_series
    <2>2. samples = {} <=> Newest(samples) = {}
      <3>1. ASSUME samples # {} PROVE Newest(samples) # {}
        <4> DEFINE f == [m \in samples |-> m.timestamp]
        <4>1. \A m \in samples : f[m] = m.timestamp /\ f[m] \in Int
          BY <1>1
        <4> HIDE DEF f, samples
        <4>2. PICK x \in samples : \A y \in samples : f[y] <= f[x]
          BY <1>1, <3>1, <4>1, HasGreatest
        <4> QED BY <4>1, <4>2 DEF Newest
      <3> QED BY <3>1 DEF Newest
    <2>3. _status(Newest(samples)) = "NO_DATA" <=> Newest(samples) = {}
      BY DEF _status
    <2>4. _status(Newest(samples)) =
            get_model_metrics(metrics, model, "null", "null", points).monitoring_status
      <3>1. SameStory(metrics, models, points)
        BY OneStory
      <3> HIDE DEF samples
      <3> DEFINE row == [model |-> model, latest |-> _latest_metric(metrics, model),
                         monitoring_status |-> _status(_latest_metric(metrics, model))]
      <3>2. row \in list_monitoring(metrics, models)
        BY DEF list_monitoring
      <3>3. row.monitoring_status =
              get_model_metrics(metrics, row.model, "null", "null", points).monitoring_status
        <4> HIDE DEF row
        <4> QED BY <3>1, <3>2 DEF SameStory
      <3>4. row.model = model /\ row.monitoring_status = _status(_latest_metric(metrics, model))
        OBVIOUS
      <3> HIDE DEF row
      <3> QED BY <3>3, <3>4 DEF _latest_metric, samples
    <2> QED BY <2>1, <2>2, <2>3, <2>4
  <1>3. ASSUME NEW combo \in _available_series(metrics, model)
        PROVE  LET summary == get_model_metrics(metrics, model, combo[1], combo[2], points)
                   asked == Matching(metrics, model, combo[1], combo[2])
               IN /\ summary.latest = Newest(asked) /\ summary.series = Recent(asked, points)
                  /\ asked # {} /\ asked \subseteq samples
    <2>1. PICK x \in samples : combo = <<x.version, x.environment>>
      BY DEF _available_series
    <2>2. combo[1] = x.version /\ combo[2] = x.environment /\ combo[1] # "null" /\ combo[2] # "null"
      BY <1>1, <2>1
    <2> DEFINE latest == _latest_metric(metrics, model)
    <2>3. Default(combo[1], "version", latest) = combo[1] /\ Default(combo[2], "environment", latest) = combo[2]
      BY <2>2 DEF Default
    <2>4. x \in Matching(metrics, model, combo[1], combo[2])
      BY <2>2 DEF Matching
    <2>5. Matching(metrics, model, combo[1], combo[2]) \subseteq samples
      BY DEF Matching
    <2> QED BY <2>3, <2>4, <2>5 DEF get_model_metrics
  <1>4. ASSUME NEW combo \in _available_series(metrics, model)
        PROVE  LET summary == get_model_metrics(metrics, model, combo[1], combo[2], points)
                   shown == summary.series
               IN /\ {shown[Len(shown)]} = summary.latest
                  /\ \A i \in 2..Len(shown) : shown[i - 1].timestamp < shown[i].timestamp
                  /\ \A m \in Matching(metrics, model, combo[1], combo[2]) :
                       m \in Range(shown) \/ (Len(shown) = points /\ m.timestamp < shown[1].timestamp)
    <2> DEFINE asked == Matching(metrics, model, combo[1], combo[2])
               summary == get_model_metrics(metrics, model, combo[1], combo[2], points)
    <2>1. summary.latest = Newest(asked) /\ summary.series = Recent(asked, points)
          /\ asked # {} /\ asked \subseteq samples
      BY <1>3
    <2> HIDE DEF asked, summary, samples
    <2>2. /\ IsFiniteSet(asked) /\ \A m \in asked : m.timestamp \in Int
          /\ \A m, o \in asked : m.timestamp = o.timestamp => m = o
      BY <1>1, <2>1, FS_Subset
    <2>3. LET shown == Recent(asked, points)
          IN /\ {shown[Len(shown)]} = Newest(asked)
             /\ \A i \in 2..Len(shown) : shown[i - 1].timestamp < shown[i].timestamp
             /\ \A m \in asked :
                  m \in Range(shown) \/ (Len(shown) = points /\ m.timestamp < shown[1].timestamp)
      BY <2>1, <2>2, SeriesOf
    <2> QED BY <2>1, <2>3 DEF asked, summary
  <1> QED BY <1>2, <1>4
=============================================================================
