------------------------------- MODULE Metrics -------------------------------
(***************************************************************************)
(* The metrics of the optimizer: what is read from the statistics of a bag *)
(* run, what a failed run contributes, and how the runs of a trial become  *)
(* one number. Values are in thousandths.                                  *)
(***************************************************************************)
EXTENDS Integers, Sequences, FiniteSets, TLC

NoValue == -1

Metric(direction, field, fail, aggregator) ==
  [direction |-> direction, field |-> field, fail |-> fail, aggregator |-> aggregator]

METRICS == [
  drift_m |-> Metric("minimize", "drift_m", 5000, "median"),
  drift_per_path |-> Metric("minimize", "drift_per_path", 1000, "median"),
  max_drift_per_path |-> Metric("minimize", "drift_per_path", 1000, "max"),
  max_drift_m |-> Metric("minimize", "drift_m", 5000, "max"),
  q75_drift_per_path |-> Metric("minimize", "drift_per_path", 1000, "q75"),
  q90_drift_per_path |-> Metric("minimize", "drift_per_path", 1000, "q90"),
  mean_icp_ratio |-> Metric("maximize", "mean_icp_ratio", 0, "median"),
  loop_closure_count |-> Metric("maximize", "loop_closure_count", 0, "median"),
  map_thickness_m |-> Metric("minimize", "map_thickness_m", 1000, "median"),
  cloud_spatial_extent_m |-> Metric("maximize", "cloud_spatial_extent_m", 0, "median"),
  drift_per_path_with_extent_penalty |-> Metric("minimize", "composite", 1000, "median")]

(* x or d: nothing and zero are both replaced. *)
Or(x, d) == IF x \in {NoValue, 0} THEN d ELSE x

MaxOf(a, b) == IF a >= b THEN a ELSE b
MinOf(a, b) == IF a <= b THEN a ELSE b

(* drift_per_path, times one plus the penalty (in hundredths) of a cloud   *)
(* that extends farther than a path of 5 m or more.                        *)
Composite(s) ==
  LET path == Or(s.path_length_m, 0)
      scale == MaxOf(0, MinOf(100, (path - 5000) \div 150))
      excess == MaxOf(0, (Or(s.cloud_spatial_extent_m, 0) * 100)
                           \div MaxOf(path, 100) - 100)
  IN  (Or(s.drift_per_path, 1000) * (100 + (scale * excess) \div 100)) \div 100

(* Absolute drift is taken as it is, the other statistics may be missing.  *)
Extract(metric, s) ==
  CASE metric.field = "drift_m" -> s.drift_m
    [] metric.field = "composite" -> Composite(s)
    [] OTHER -> Or(s[metric.field], metric.fail)

(* sorted: at place k is the value that fewer than k are below, and at     *)
(* least k are not above.                                                  *)
Sorted[values \in Seq(Int)] ==
  LET Below(v) == {i \in DOMAIN values : values[i] < v}
      UpTo(v) == {i \in DOMAIN values : values[i] <= v}
  IN  [k \in DOMAIN values |->
         CHOOSE v \in {values[i] : i \in DOMAIN values} :
           Cardinality(Below(v)) < k /\ k <= Cardinality(UpTo(v))]

(* _quantile, of pct hundredths: between the two values nearest the index. *)
Quantile(values, pct) ==
  LET s == Sorted[values]
      index == pct * (Len(s) - 1)
      lo == index \div 100
      hi == MinOf(lo + 1, Len(s) - 1)
      frac == index % 100
  IN  IF values = <<>> THEN 0
      ELSE (s[lo + 1] * (100 - frac) + s[hi + 1] * frac) \div 100

(* statistics.median *)
Median[values \in Seq(Int)] ==
  LET s == Sorted[values]
      middle == (Len(s) + 1) \div 2
  IN  IF Len(s) % 2 = 1 THEN s[middle] ELSE (s[middle] + s[middle + 1]) \div 2

Largest[values \in Seq(Int)] == Sorted[values][Len(values)]

(* A bag run counts if it was played and scored. *)
Value(metric, run) ==
  IF run.success /\ run.metrics.success THEN Extract(metric, run.metrics.stats)
  ELSE metric.fail

(* A mutated form: failed bag runs are left out. *)
AggregateOfSuccesses(metric, runs) ==
  LET good == SelectSeq(runs, LAMBDA run : run.success /\ run.metrics.success)
      values == [i \in DOMAIN good |-> Value(metric, good[i])]
  IN  IF good = <<>> THEN metric.fail ELSE Median[values]

(* A mutated form: the aggregator of the metric is not looked at. *)
AggregateMedian(metric, runs) ==
  IF runs = <<>> THEN metric.fail
  ELSE Median[[i \in DOMAIN runs |-> Value(metric, runs[i])]]

Aggregate(metric, runs) ==
  LET values == [i \in DOMAIN runs |-> Value(metric, runs[i])]
  IN  CASE runs = <<>> -> metric.fail
        [] metric.aggregator = "median" -> Median[values]
        [] metric.aggregator = "max" -> Largest[values]
        [] metric.aggregator = "q75" -> Quantile(values, 75)
        [] metric.aggregator = "q90" -> Quantile(values, 90)

(* The value of a trial: the median of its repetitions. *)
TrialValue(metric, reps) == Median[[r \in DOMAIN reps |-> Aggregate(metric, reps[r])]]

Better(metric, a, b) == IF metric.direction = "minimize" THEN a < b ELSE a > b

(* The values are in order as the library sorts them. *)
ASSUME SortedAgrees ==
  \A n \in 1..4 : \A values \in [1..n -> {0, 70, 1000}] :
    Sorted[values] = SortSeq(values, <)
=============================================================================
