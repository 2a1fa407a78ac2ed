---------------------------- MODULE LatencyStats ----------------------------
(***************************************************************************)
(* The statistics of include/latency_stats.h as operators on the sequence  *)
(* of samples (durations in nanoseconds).                                  *)
(*                                                                         *)
(* A percentage is given in thousandths, and a percentile is computed      *)
(* exactly, as a thousandfold, where the code rounds to a double.  Sums    *)
(* and squares are left undivided.                                         *)
(***************************************************************************)
EXTENDS Integers, FiniteSets, SequencesExt

record(samples, ns) == Append(samples, ns)

\* Mutant: the copy is not sorted.
Unsorted(samples) == samples

\* p rearranges the samples in ascending order.
Sorts(p, samples) ==
  \A j, k \in DOMAIN samples : j < k => p[j] # p[k] /\ samples[p[j]] <= samples[p[k]]

\* std::sort on a copy: samples_ns_ keeps its order.
Sorted(samples) ==
  LET p == CHOOSE q \in [DOMAIN samples -> DOMAIN samples] : Sorts(q, samples)
  IN  [k \in DOMAIN samples |-> samples[p[k]]]

\* Mutant: the weights of the two neighbours are exchanged.
PercentileSwapped(sorted, pct) ==
  LET rank == pct * (Len(sorted) - 1)
      lower == rank \div 1000
      upper == lower + 1
      frac == rank % 1000
  IN  IF upper >= Len(sorted) THEN 1000 * Last(sorted)
      ELSE sorted[lower + 1] * frac + sorted[upper + 1] * (1000 - frac)

\* percentile(): rank, lower and upper count from 0.
Percentile(sorted, pct) ==
  LET rank == pct * (Len(sorted) - 1)
      lower == rank \div 1000
      upper == lower + 1
      frac == rank % 1000
  IN  IF upper >= Len(sorted) THEN 1000 * Last(sorted)
      ELSE sorted[lower + 1] * (1000 - frac) + sorted[upper + 1] * frac

\* The benchmark's own p99: the sample of the rank, rounded down.
p99_idx(sorted) == (990 * (Len(sorted) - 1)) \div 1000

\* std::accumulate, from the first sample on.
SumOf(samples) ==
  LET sum[k \in 0 .. Len(samples)] == IF k = 0 THEN 0 ELSE sum[k - 1] + samples[k]
  IN  sum[Len(samples)]

\* The squared deviations from the mean, times the square of Len(samples).
sq_sum(samples) ==
  LET n == Len(samples)
      diff(k) == n * samples[k] - SumOf(samples)
  IN  SumOf([k \in DOMAIN samples |-> diff(k) * diff(k)])

\* print_report(), from the sorted copy.
Report(sorted) ==
  [min |-> Head(sorted), max |-> Last(sorted), sum |-> SumOf(sorted),
   med |-> Percentile(sorted, 500), p95 |-> Percentile(sorted, 950),
   p99 |-> Percentile(sorted, 990), p999 |-> Percentile(sorted, 999),
   sq_sum |-> sq_sum(sorted)]

-----------------------------------------------------------------------------
(* Percentiles by counting, without sorting and ranks *)

Below(samples, v) == Cardinality({k \in DOMAIN samples : 1000 * samples[k] < v})
UpTo(samples, v) == Cardinality({k \in DOMAIN samples : 1000 * samples[k] <= v})

\* v lies between the samples on both sides of the rank pct * (n - 1): fewer than
\* rank + 1 samples are below v, more than rank are up to v.
IsPercentile(samples, pct, v) ==
  LET rank == pct * (Len(samples) - 1)
  IN  1000 * Below(samples, v) < rank + 1000 /\ rank < 1000 * UpTo(samples, v)
=============================================================================
