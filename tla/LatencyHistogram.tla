------------------------- MODULE LatencyHistogram -------------------------
(***************************************************************************)
(* The duration histograms of main.rs.  AtomicDurationHistogram counts a   *)
(* duration in one bucket only; the edge's snapshot adds the buckets up    *)
(* before it takes the 95th percentile, the relay's snapshot hands them    *)
(* out as they are.  AtomicPublicationDurationHistogram and the relay      *)
(* forwarder count a duration in every bucket that covers it.  One series  *)
(* of durations is recorded in both ways here; a record and a snapshot are *)
(* one step each.                                                          *)
(***************************************************************************)
EXTENDS Integers, Sequences, FiniteSets, FiniteSetsExt

CONSTANTS BucketBounds,    \* EDGE_RESPONSE_DURATION_BUCKETS_US, ascending
          Durations,       \* the durations that are measured
          ProcessingWarn,  \* RELAY_PROCESSING_P95_WARN_US
          SampleLimit      \* bound: durations recorded

ASSUME BucketsAssumption ==
    /\ \A i, j \in DOMAIN BucketBounds : i < j => BucketBounds[i] < BucketBounds[j]
    /\ Durations \subseteq Nat

VARIABLES histogram,       \* what the code keeps
          measured         \* duration -> how often it was recorded

histogramVars == <<histogram, measured>>

Buckets == DOMAIN BucketBounds

\* Bounds that do not cover their own value.
BugFirstCovering(d) ==
    LET covering == {i \in Buckets : d < BucketBounds[i]}
    IN  IF covering = {} THEN {} ELSE {Min(covering)}

\* The bucket AtomicDurationHistogram::record_us counts in: the first that
\* covers the duration, none when it is above them all.
FirstCovering(d) ==
    LET covering == {i \in Buckets : d <= BucketBounds[i]}
    IN  IF covering = {} THEN {} ELSE {Min(covering)}

Counted(buckets, among) ==
    [i \in Buckets |-> buckets[i] + IF i \in among THEN 1 ELSE 0]

Record(d) ==
    /\ histogram.count < SampleLimit
    /\ histogram' = [count   |-> histogram.count + 1,
                     max     |-> Max({histogram.max, d}),
                     buckets |-> Counted(histogram.buckets, FirstCovering(d)),
                     totals  |-> Counted(histogram.totals,
                                         {i \in Buckets : d <= BucketBounds[i]})]
    /\ measured' = [measured EXCEPT ![d] = @ + 1]

HistogramInit ==
    /\ histogram = [count |-> 0, max |-> 0, buckets |-> [i \in Buckets |-> 0],
                    totals |-> [i \in Buckets |-> 0]]
    /\ measured = [d \in Durations |-> 0]

HistogramNext == \E d \in Durations : Record(d)

HistogramSpec == HistogramInit /\ [][HistogramNext]_histogramVars

-----------------------------------------------------------------------------
(* histogram_percentile_upper_bound_us: the bound of the first bucket that *)
(* holds the rank, the maximum when none does.                             *)
PercentileBound(count, buckets, percentile, max) ==
    LET rank    == (count * percentile + 99) \div 100
        holding == {i \in Buckets : buckets[i] >= rank}
    IN  IF holding = {} THEN max ELSE BucketBounds[Min(holding)]

\* EdgeLoad::snapshot adds the buckets up first.
Cumulative(buckets) ==
    [i \in Buckets |-> MapThenSumSet(LAMBDA j : buckets[j], 1..i)]

EdgeP95 == PercentileBound(histogram.count, Cumulative(histogram.buckets), 95, histogram.max)

\* relay_ingress_snapshot passes relay_processing.buckets on unchanged, and
\* derive_mesh_alerts takes the percentile of those.
ProcessingP95 == PercentileBound(histogram.count, histogram.buckets, 95, histogram.max)

ProcessingAlert == histogram.count > 0 /\ ProcessingP95 > ProcessingWarn

-----------------------------------------------------------------------------
AtMost(d) == MapThenSumSet(LAMBDA e : measured[e], {e \in Durations : e <= d})

(* The percentile the edge reports is the least bound that 95 of 100       *)
(* measured durations keep, or the largest duration when no bound does;    *)
(* and the two ways of counting agree on it.                               *)
P95IsTight ==
    histogram.count > 0 =>
        LET kept == {b \in {BucketBounds[i] : i \in Buckets} :
                        100 * AtMost(b) >= 95 * histogram.count}
        IN  /\ EdgeP95 = IF kept = {} THEN Max({d \in Durations : measured[d] > 0})
                                     ELSE Min(kept)
            /\ histogram.totals = Cumulative(histogram.buckets)

(* The alert relay_processing_p95_exceeded of derive_mesh_alerts says what *)
(* its message says: more than 5 of 100 relayed objects took longer than   *)
(* the limit.                                                              *)
ProcessingAlertIsTrue ==
    ProcessingAlert =>
        100 * (histogram.count - AtMost(ProcessingWarn)) > 5 * histogram.count
=============================================================================
