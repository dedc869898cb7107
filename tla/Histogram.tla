------------------------------ MODULE Histogram ------------------------------
(***************************************************************************)
(* The histogram of durations from which the percentiles and the apdex are *)
(* estimated (internal/metrics/histogram.go).  The bounds of the buckets,  *)
(* a geometric progression in the code, are a constant: what the estimates *)
(* need is that they grow.  Percentages are integers.                      *)
(***************************************************************************)
EXTENDS Integers, Sequences

CONSTANTS
  Last,    \* the last bucket: Buckets - 1
  Value,   \* the least duration of each bucket, which stands for them all
  Word     \* a counter holds 0 .. Word - 1: 2^32

ASSUME HistogramAssumption ==
  /\ Last \in Nat /\ Word \in Nat \ {0}
  /\ Value \in [0 .. Last -> Nat]
  /\ Value[0] = 0
  /\ \A i, j \in 0 .. Last : i < j => Value[i] < Value[j]

Empty == [i \in 0 .. Last |-> 0]

(* The bucket of a duration: one below the first bound goes in the first,  *)
(* one beyond the last bound in the last.                                  *)
Bucket(d) == CHOOSE i \in 0 .. Last : Value[i] <= d /\ (i < Last => d < Value[i + 1])

Add(h, d) == [h EXCEPT ![Bucket(d)] = (@ + 1) % Word]

Merge(h, src) == [i \in 0 .. Last |-> (h[i] + src[i]) % Word]

(* How many samples are in the buckets up to each one.                     *)
Seen(h) ==
  LET seen[i \in 0 .. Last] == IF i = 0 THEN h[0] ELSE seen[i - 1] + h[i]
  IN  seen

Total(h) == Seen(h)[Last]

Target(p, total) == IF p = 0 THEN 1 ELSE (p * total + 99) \div 100

(* A mutant of Percentile: the rank is rounded down.                       *)
PercentileRoundedDown(h, p) ==
  LET seen == Seen(h)
      target == (p * Total(h)) \div 100
  IN  IF Total(h) = 0 THEN 0
      ELSE Value[CHOOSE i \in 0 .. Last :
                   seen[i] >= target /\ \A j \in 0 .. i - 1 : seen[j] < target]

Percentile(h, p) ==
  LET seen == Seen(h)
      target == Target(p, Total(h))
  IN  IF Total(h) = 0 THEN 0
      ELSE Value[CHOOSE i \in 0 .. Last :
                   seen[i] >= target /\ \A j \in 0 .. i - 1 : seen[j] < target]

(* The samples in the buckets that stand for at most t.                    *)
Within(h, t) ==
  LET seen[i \in 0 .. Last] ==
        (IF i = 0 THEN 0 ELSE seen[i - 1]) + (IF Value[i] <= t THEN h[i] ELSE 0)
  IN  seen[Last]

(* Apdex, in hundredths of the samples doubled: half of those between t    *)
(* and 4t counts, and with no sample or no threshold nobody is unhappy.    *)
ApdexBelow(h, t, min) ==
  /\ t > 0 /\ Total(h) > 0
  /\ (Within(h, t) + Within(h, 4 * t)) * 100 < min * 2 * Total(h)
=============================================================================
