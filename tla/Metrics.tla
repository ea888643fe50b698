------------------------------- MODULE Metrics -------------------------------
(***************************************************************************)
(* The registry of src/metrics.ts: counters, gauges and histograms, each   *)
(* with a series per combination of label values.  A metric is             *)
(* [kind, labelNames, buckets, series]; labels map names to values.        *)
(***************************************************************************)
EXTENDS Integers, Sequences, SequencesExt, FiniteSets, Functions

(* pick and seriesKey: a label that is not given is "", others are dropped. *)
Pick(labelNames, labels) ==
  [n \in ToSet(labelNames) |-> IF n \in DOMAIN labels THEN labels[n] ELSE ""]

(* The numbers of a sequence in ascending order: the n-th smallest is the   *)
(* one that n of them, counted with their positions, do not exceed.         *)
Ascending(s) ==
  LET upTo(i) == {j \in DOMAIN s : s[j] < s[i] \/ (s[j] = s[i] /\ j <= i)} IN
  [n \in DOMAIN s |-> s[CHOOSE i \in DOMAIN s : Cardinality(upTo(i)) = n]]

NewMetric(kind, labelNames, buckets) ==
  [kind |-> kind, labelNames |-> labelNames,
   buckets |-> Ascending(buckets), series |-> [k \in {} |-> 0]]

(* MetricsRegistry.register: the first metric of a name stays. *)
Register(registry, name, metric) ==
  IF name \in DOMAIN registry THEN registry
  ELSE [n \in DOMAIN registry \cup {name} |-> IF n = name THEN metric ELSE registry[n]]

ZeroSeries(metric) ==
  IF metric.kind = "histogram"
  THEN [counts |-> [i \in DOMAIN metric.buckets |-> 0], sum |-> 0, count |-> 0]
  ELSE [value |-> 0]
SeriesAt(metric, k) == IF k \in DOMAIN metric.series THEN metric.series[k] ELSE ZeroSeries(metric)
PutSeries(metric, k, s) ==
  [metric EXCEPT !.series = [x \in DOMAIN @ \cup {k} |-> IF x = k THEN s ELSE @[x]]]

(* Counter.inc refuses a negative value, Gauge.inc and dec do not. *)
Increment(metric, labels, by) ==
  LET k == Pick(metric.labelNames, labels) IN
  IF metric.kind = "counter" /\ by < 0 THEN metric
  ELSE PutSeries(metric, k, [value |-> SeriesAt(metric, k).value + by])

SetGauge(metric, labels, v) ==
  PutSeries(metric, Pick(metric.labelNames, labels), [value |-> v])

(* Mutant of Fits: a bound is exclusive. *)
FitsBelow(v, bound) == v < bound
Fits(v, bound) == v <= bound

(* Histogram.observe adds one to every bucket the value fits under. *)
Observe(metric, labels, v) ==
  LET k == Pick(metric.labelNames, labels)
      s == SeriesAt(metric, k) IN
  PutSeries(metric, k,
    [counts |-> [i \in DOMAIN metric.buckets |->
                   s.counts[i] + (IF Fits(v, metric.buckets[i]) THEN 1 ELSE 0)],
     sum |-> s.sum + v, count |-> s.count + 1])

(* The calls an application makes on one metric. *)
Apply(metric, c) ==
  CASE c.do = "observe" -> Observe(metric, c.labels, c.value)
    [] c.do = "inc" -> Increment(metric, c.labels, c.value)
    [] c.do = "dec" -> Increment(metric, c.labels, -c.value)
    [] c.do = "set" -> SetGauge(metric, c.labels, c.value)

(* What render() prints of one series of a histogram: a line per bucket,   *)
(* then +Inf.                                                              *)
BucketLines(metric, k) ==
  Append([i \in DOMAIN metric.buckets |-> metric.series[k].counts[i]],
         metric.series[k].count)
=============================================================================
