-------------------------- MODULE LatencyHistogram --------------------------
(***************************************************************************)
(* The latency histogram of metrics/histogram.hpp: one bucket per value    *)
(* below 2^kLinearRangeBits, then octaves of kSubBucketsPerOctave buckets. *)
(* The code has 13 bits, 64 buckets and 40 octaves.                        *)
(***************************************************************************)
EXTENDS Integers, FiniteSetsExt, Bags, BagsExt

CONSTANTS kLinearRangeBits, kSubBucketsPerOctave, kMaxOctaves,
          Samples,       \* what may be recorded, in nanoseconds
          Percents,      \* the percentiles asked for, whole numbers
          MaxSamples     \* bound: calls of record

VARIABLES counts, count, sum, min, max,
          recorded       \* history: the bag of the samples as they are counted

histVars == <<counts, count, sum, min, max, recorded>>

kLinearRangeNs == 2 ^ kLinearRangeBits

kNumBuckets == kLinearRangeNs + kSubBucketsPerOctave * kMaxOctaves

Buckets == 0 .. kNumBuckets - 1

HistInit ==
  /\ counts = [i \in Buckets |-> 0]
  /\ count = 0
  /\ sum = 0
  /\ min = 0
  /\ max = 0
  /\ recorded = EmptyBag

-----------------------------------------------------------------------------
\* The position of the most significant bit of v.
msb(v) == CHOOSE b \in 0 .. 63 : 2 ^ b <= v /\ v < 2 ^ (b + 1)

sub_width(octave_start) == octave_start \div kSubBucketsPerOctave

\* A defect in which every octave has the bucket width of the first.
bucket_index_fixed_width(nanos) ==
  IF nanos < kLinearRangeNs THEN nanos
  ELSE LET octave_start == 2 ^ msb(nanos)
       IN  kLinearRangeNs
             + (msb(nanos) - kLinearRangeBits) * kSubBucketsPerOctave
             + (nanos - octave_start) \div sub_width(kLinearRangeNs)

bucket_index(nanos) ==
  IF nanos < kLinearRangeNs THEN nanos
  ELSE LET octave_start == 2 ^ msb(nanos)
       IN  kLinearRangeNs
             + (msb(nanos) - kLinearRangeBits) * kSubBucketsPerOctave
             + (nanos - octave_start) \div sub_width(octave_start)

bucket_lower_bound(idx) ==
  IF idx < kLinearRangeNs THEN idx
  ELSE LET log_idx == idx - kLinearRangeNs
           octave_start == 2 ^ (kLinearRangeBits + log_idx \div kSubBucketsPerOctave)
       IN  octave_start + (log_idx % kSubBucketsPerOctave) * sub_width(octave_start)

\* Negative durations count as zero.
Clamped(nanos) == IF nanos < 0 THEN 0 ELSE nanos

Smaller(a, b) == IF a < b THEN a ELSE b

record(nanos) ==
  LET n == Clamped(nanos)
  IN  /\ counts' = [counts EXCEPT ![Smaller(bucket_index(n), kNumBuckets - 1)] = @ + 1]
      /\ min' = IF count = 0 THEN n ELSE Smaller(min, n)
      /\ max' = IF n > max THEN n ELSE max
      /\ sum' = sum + n
      /\ count' = count + 1
      /\ recorded' = BagAdd(recorded, n)

HistNext == count < MaxSamples /\ \E nanos \in Samples : record(nanos)

Ceil(a, b) == (a + b - 1) \div b

Cumulative(i) == MapThenSumSet(LAMBDA j : counts[j], 0 .. i)

\* The code subtracts 1e-9 from p / 100 * count before it rounds up, so that
\* whole numbers survive the division; in whole numbers there is no error.
percentile(p) ==
  LET reach == {i \in Buckets : Cumulative(i) >= Ceil(p * count, 100)}
  IN  IF count = 0 THEN 0
      ELSE IF p <= 0 THEN min
      ELSE IF p >= 100 THEN max
      ELSE IF reach = {} THEN max ELSE bucket_lower_bound(Min(reach))

-----------------------------------------------------------------------------
\* The smallest sample that p percent of the samples do not exceed.
NearestRank(p) ==
  LET upTo(v) == MapThenSumSet(LAMBDA u : recorded[u], {u \in DOMAIN recorded : u <= v})
  IN  Min({v \in DOMAIN recorded : upTo(v) * 100 >= p * count})

Trackable == 2 ^ (kLinearRangeBits + kMaxOctaves)

\* Every percentile is the nearest-rank sample of all that was recorded:
\* exactly at the ends and in the linear region, and rounded down by at most
\* one part in kSubBucketsPerOctave above it, as long as the value is within
\* the octaves the histogram has; beyond them the last bucket answers.
PercentilesTrackSamples ==
  count > 0 =>
    \A p \in Percents :
      LET exact == NearestRank(p)
          told == percentile(p)
      IN  CASE p <= 0 -> told = Min(DOMAIN recorded)
            [] p >= 100 -> told = Max(DOMAIN recorded)
            [] p \in 1 .. 99 /\ exact >= Trackable ->
                 told = bucket_lower_bound(kNumBuckets - 1)
            [] p \in 1 .. 99 /\ exact < kLinearRangeNs -> told = exact
            [] OTHER -> told <= exact /\ (exact - told) * kSubBucketsPerOctave < told
=============================================================================
