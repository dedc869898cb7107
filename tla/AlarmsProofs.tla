---------------------------- MODULE AlarmsProofs ----------------------------
(***************************************************************************)
(* Proofs about Alarms, for any traffic, thresholds and bounds.            *)
(***************************************************************************)
EXTENDS Alarms, FiniteSetTheorems, TLAPS

(* The copy of the counters is never ahead of them, and while Valuta works *)
(* on it what was reported is not ahead of the copy.                       *)
LossesInv ==
  /\ TypeOK
  /\ LossesReportedOnce
  /\ evaluating => stats.agentPerse <= agentPerse

(* The losses in the log are those declared up to the last copy, each one  *)
(* told once.                                                              *)
THEOREM LossesAreReportedOnce == Spec => []LossesReportedOnce
<1>1. Init => LossesInv
  <2>1. Started => LossesInv
    <3> SUFFICES ASSUME Started PROVE LossesInv
      OBVIOUS
    <3>1. stats \in [agentPerse : Nat, finestrePerse : Nat]
      BY DEF Started, NoStats
    <3>2. evaluating \in BOOLEAN /\ ~evaluating
      BY DEF Started
    <3>3. agentPerse = 0 /\ finestrePerse = 0 /\ agentPerseViste = 0 /\ reported = 0
      BY DEF Started
    <3>4. TypeOK
      BY <3>1, <3>2, <3>3 DEF TypeOK
    <3>5. LossesReportedOnce
      BY <3>2, <3>3 DEF LossesReportedOnce
    <3>6. QED
      BY <3>2, <3>4, <3>5 DEF LossesInv
  <2>2. QED
    BY <2>1 DEF Init
<1>2. LossesInv /\ [Next]_vars => LossesInv'
  <2> SUFFICES ASSUME LossesInv, [Next]_vars PROVE LossesInv'
    OBVIOUS
  <2> USE DEF LossesInv, TypeOK, LossesReportedOnce, counters, evaluator
  <2>1. CASE WriteWindow
    BY <2>1 DEF WriteWindow
  <2>2. CASE LoseWindow
    BY <2>2 DEF LoseWindow
  <2>3. CASE DeclareLosses
    <3>1. PICK n \in 1 .. MaxLosses - agentPerse : agentPerse' = agentPerse + n
      BY <2>3 DEF DeclareLosses
    <3>2. n \in Nat /\ agentPerse' \in Nat /\ agentPerse <= agentPerse'
      BY <3>1, AlarmsAssumption
    <3>3. QED
      BY <2>3, <3>2 DEF DeclareLosses
  <2>4. CASE TakeStats
    BY <2>4 DEF TakeStats
  <2>5. CASE Valuta
    <3>1. /\ LogLosses /\ evaluating /\ evaluating' \in BOOLEAN /\ ~evaluating'
          /\ UNCHANGED <<agentPerse, finestrePerse, stats>>
      BY <2>5 DEF Valuta
    <3>2. /\ agentPerseViste' \in Nat /\ reported' \in Nat
          /\ reported' = agentPerseViste' /\ agentPerseViste' <= agentPerse
      BY <3>1 DEF LogLosses
    <3>3. QED
      BY <3>1, <3>2
  <2>6. CASE ValutaFails
    BY <2>6 DEF ValutaFails
  <2>7. CASE Restart
    <3>1. stats' \in [agentPerse : Nat, finestrePerse : Nat]
      BY <2>7 DEF Restart, NoStats
    <3>2. evaluating' \in BOOLEAN /\ ~evaluating'
      BY <2>7 DEF Restart
    <3>3. agentPerse' = 0 /\ finestrePerse' = 0 /\ agentPerseViste' = 0 /\ reported' = 0
      BY <2>7 DEF Restart
    <3>4. QED
      BY <3>1, <3>2, <3>3
  <2>8. CASE UNCHANGED vars
    BY <2>8 DEF vars
  <2>9. QED
    BY <2>1, <2>2, <2>3, <2>4, <2>5, <2>6, <2>7, <2>8 DEF Next
<1>3. QED
  BY <1>1, <1>2, PTL DEF Spec, LossesInv

-----------------------------------------------------------------------------
(* Counting the requests of a sequence.                                    *)

Requests == [d : Nat, failed : BOOLEAN]

(* Where in q the requests of P are, and how many there are.               *)
Those(P, q) == {k \in DOMAIN q : q[k] \in P}

HowMany(P, q) == Cardinality(Those(P, q))

(* They are finitely many, no more than the requests.                      *)
LEMMA ThoseFinite ==
  ASSUME NEW q \in Seq(Requests), NEW P
  PROVE  /\ IsFiniteSet(Those(P, q)) /\ HowMany(P, q) \in Nat /\ HowMany(P, q) <= Len(q)
         /\ Those(P, q) \subseteq 1 .. Len(q)
         /\ IsFiniteSet(1 .. Len(q)) /\ Cardinality(1 .. Len(q)) = Len(q) /\ Len(q) \in Nat
<1>1. DOMAIN q = 1 .. Len(q) /\ Len(q) \in Nat
  OBVIOUS
<1>2. IsFiniteSet(1 .. Len(q)) /\ Cardinality(1 .. Len(q)) = Len(q)
  BY <1>1, FS_Interval
<1>3. Those(P, q) \subseteq 1 .. Len(q)
  BY <1>1 DEF Those
<1>4. QED
  BY <1>1, <1>2, <1>3, FS_Subset, FS_CardinalityType DEF HowMany

(* More requests satisfy a weaker condition.                               *)
LEMMA HowManyMore ==
  ASSUME NEW q \in Seq(Requests), NEW P, NEW Q, \A r \in Requests : r \in P => r \in Q
  PROVE  HowMany(P, q) <= HowMany(Q, q)
<1>1. \A k \in DOMAIN q : q[k] \in Requests
  OBVIOUS
<1>2. Those(P, q) \subseteq Those(Q, q)
  BY <1>1 DEF Those
<1>3. QED
  BY <1>2, ThoseFinite, FS_Subset DEF HowMany

(* The same requests satisfy an equivalent one ...                         *)
LEMMA HowManySame ==
  ASSUME NEW q \in Seq(Requests), NEW P, NEW Q, \A r \in Requests : r \in P <=> r \in Q
  PROVE  HowMany(P, q) = HowMany(Q, q)
<1>1. \A k \in DOMAIN q : q[k] \in Requests
  OBVIOUS
<1>2. Those(P, q) = Those(Q, q)
  BY <1>1 DEF Those
<1>3. QED
  BY <1>2 DEF HowMany

(* ... no request one that none satisfies ...                              *)
LEMMA HowManyNone ==
  ASSUME NEW q \in Seq(Requests), NEW P, \A r \in Requests : r \notin P
  PROVE  HowMany(P, q) = 0
<1>1. \A k \in DOMAIN q : q[k] \in Requests
  OBVIOUS
<1>2. Those(P, q) = {}
  BY <1>1 DEF Those
<1>3. QED
  BY <1>2, FS_EmptySet DEF HowMany

(* ... and all of them one that each satisfies.                            *)
LEMMA HowManyAll ==
  ASSUME NEW q \in Seq(Requests), NEW P, \A r \in Requests : r \in P
  PROVE  HowMany(P, q) = Len(q)
<1>1. (\A k \in DOMAIN q : q[k] \in Requests) /\ DOMAIN q = 1 .. Len(q)
  OBVIOUS
<1>2. Those(P, q) = 1 .. Len(q)
  BY <1>1 DEF Those
<1>3. QED
  BY <1>2, ThoseFinite DEF HowMany

(* What satisfies one of two conditions, and never both, is counted by     *)
(* parts.                                                                  *)
LEMMA HowManyEither ==
  ASSUME NEW q \in Seq(Requests), NEW P, NEW Q, NEW R,
         \A r \in Requests : (r \in R <=> r \in P \/ r \in Q) /\ ~ (r \in P /\ r \in Q)
  PROVE  HowMany(R, q) = HowMany(P, q) + HowMany(Q, q)
<1>1. \A k \in DOMAIN q : q[k] \in Requests
  OBVIOUS
<1>2. Those(R, q) = Those(P, q) \cup Those(Q, q) /\ Those(P, q) \cap Those(Q, q) = {}
  BY <1>1 DEF Those
<1>3. /\ IsFiniteSet(Those(P, q)) /\ IsFiniteSet(Those(Q, q))
      /\ HowMany(P, q) \in Nat /\ HowMany(Q, q) \in Nat
  BY ThoseFinite
<1>4. Cardinality(Those(P, q) \cup Those(Q, q))
        = Cardinality(Those(P, q)) + Cardinality(Those(Q, q)) - Cardinality({})
  BY <1>2, <1>3, FS_Union
<1>5. Cardinality({}) = 0
  BY FS_EmptySet
<1>6. QED
  BY <1>2, <1>3, <1>4, <1>5 DEF HowMany

(* The requests of two sequences, one after the other.                     *)
LEMMA HowManyJoined ==
  ASSUME NEW q \in Seq(Requests), NEW r \in Seq(Requests), NEW P
  PROVE  /\ q \o r \in Seq(Requests) /\ Len(q \o r) = Len(q) + Len(r)
         /\ HowMany(P, q \o r) = HowMany(P, q) + HowMany(P, r)
<1> DEFINE m == Len(q)
           n == Len(r)
           A == Those(P, q)
           B == Those(P, r)
           C == {m + k : k \in B}
<1>1. /\ m \in Nat /\ n \in Nat /\ q \o r \in Seq(Requests) /\ Len(q \o r) = m + n
      /\ DOMAIN (q \o r) = 1 .. m + n /\ DOMAIN q = 1 .. m /\ DOMAIN r = 1 .. n
      /\ \A k \in 1 .. m + n : (q \o r)[k] = IF k <= m THEN q[k] ELSE r[k - m]
  OBVIOUS
<1>2. /\ IsFiniteSet(A) /\ IsFiniteSet(B) /\ A \subseteq 1 .. m /\ B \subseteq 1 .. n
      /\ Cardinality(A) \in Nat /\ Cardinality(B) \in Nat
  BY ThoseFinite DEF HowMany
<1>3. Those(P, q \o r) = A \cup C
  <2>1. ASSUME NEW k \in Those(P, q \o r) PROVE k \in A \cup C
    <3>1. k \in 1 .. m + n /\ (q \o r)[k] \in P
      BY <1>1 DEF Those
    <3>2. CASE k <= m
      BY <1>1, <3>1, <3>2 DEF Those
    <3>3. CASE ~ (k <= m)
      <4>1. k - m \in 1 .. n /\ k = m + (k - m)
        BY <1>1, <3>1, <3>3
      <4>2. k - m \in B
        BY <1>1, <3>1, <3>3, <4>1 DEF Those
      <4>3. QED
        BY <4>1, <4>2
    <3>4. QED
      BY <3>2, <3>3
  <2>2. ASSUME NEW k \in A PROVE k \in Those(P, q \o r)
    <3>1. k \in 1 .. m /\ q[k] \in P
      BY <1>1 DEF Those
    <3>2. k \in 1 .. m + n /\ k <= m
      BY <1>1, <3>1
    <3>3. QED
      BY <1>1, <3>1, <3>2 DEF Those
  <2>3. ASSUME NEW k \in B PROVE m + k \in Those(P, q \o r)
    <3>1. k \in 1 .. n /\ r[k] \in P
      BY <1>1 DEF Those
    <3>2. m + k \in 1 .. m + n /\ ~ (m + k <= m) /\ (m + k) - m = k
      BY <1>1, <3>1
    <3>3. QED
      BY <1>1, <3>1, <3>2 DEF Those
  <2>4. QED
    BY <2>1, <2>2, <2>3
<1>4. IsFiniteSet(C) /\ Cardinality(C) = Cardinality(B)
  <2> DEFINE f == [k \in B |-> m + k]
  <2>1. \A j, k \in B : m + j = m + k => j = k
    BY <1>1, <1>2
  <2>2. f \in Bijection(B, C)
    BY <2>1 DEF Bijection, Injection, Surjection, IsInjective
  <2>3. ExistsBijection(B, C)
    BY <2>2 DEF ExistsBijection
  <2>4. QED
    BY <1>2, <2>3, FS_Bijection
<1>5. A \cap C = {}
  BY <1>1, <1>2
<1>6. Cardinality(A \cup C) = Cardinality(A) + Cardinality(C) - Cardinality({})
  <2> HIDE DEF A, C
  <2>1. Cardinality(A \cup C) = Cardinality(A) + Cardinality(C) - Cardinality(A \cap C)
    BY <1>2, <1>4, FS_Union
  <2>2. QED
    BY <1>5, <2>1
<1>7. Cardinality({}) = 0
  BY FS_EmptySet
<1>8. Cardinality(A \cup C) = Cardinality(A) + Cardinality(B)
  <2> HIDE DEF A, B, C
  <2>1. QED
    BY <1>2, <1>4, <1>6, <1>7
<1>9. QED
  BY <1>1, <1>3, <1>8 DEF HowMany

-----------------------------------------------------------------------------
(* What the histogram says of the requests it was made from.               *)

(* A set of numbers has a least one.                                       *)
LEMMA LeastOne ==
  ASSUME NEW S, S \subseteq Nat, S # {}
  PROVE  \E i \in S : \A j \in S : i <= j
<1>1. \E x \in S : \A y \in S : ~ (<<y, x>> \in OpToRel(<, Nat))
  BY WFMin, NatLessThanWellFounded
<1>2. PICK x \in S : \A y \in S : ~ (<<y, x>> \in OpToRel(<, Nat))
  BY <1>1
<1>3. \A y \in S : ~ (y < x)
  BY <1>2 DEF OpToRel
<1>4. QED
  BY <1>3

(* Induction over the numbers, said of a set of numbers: the least one     *)
(* that it lacks would come after one that it has.                         *)
LEMMA NatsByOne ==
  ASSUME NEW T, 0 \in T, \A n \in Nat : n \in T => n + 1 \in T
  PROVE  Nat \subseteq T
<1> SUFFICES ASSUME Nat \ T # {} PROVE FALSE
  OBVIOUS
<1>1. PICK x \in Nat \ T : \A y \in Nat \ T : x <= y
  BY LeastOne
<1>2. x - 1 \in Nat
  OBVIOUS
<1>3. QED
  BY <1>1, <1>2

(* The same up to some number.                                             *)
LEMMA NumbersUpTo ==
  ASSUME NEW n \in Nat, NEW G, 0 \in G, \A i \in 1 .. n : i - 1 \in G => i \in G
  PROVE  0 .. n \subseteq G
<1> DEFINE T == {k \in Nat : k <= n => k \in G}
<1>1. 0 \in T
  OBVIOUS
<1>2. ASSUME NEW k \in Nat, k \in T PROVE k + 1 \in T
  <2> SUFFICES ASSUME k + 1 <= n PROVE k + 1 \in G
    OBVIOUS
  <2>1. k + 1 \in 1 .. n /\ (k + 1) - 1 = k /\ k \in G
    BY <1>2
  <2>2. QED
    BY <2>1
<1>3. Nat \subseteq T
  <2> HIDE DEF T
  <2>1. QED
    BY <1>1, <1>2, NatsByOne
<1>4. QED
  BY <1>3

(* Every duration has its bucket.                                          *)
LEMMA BucketOf ==
  ASSUME NEW d \in Nat
  PROVE  /\ Bucket(d) \in 0 .. Last /\ Value[Bucket(d)] <= d
         /\ Bucket(d) < Last => d < Value[Bucket(d) + 1]
<1> DEFINE Right(i) == Value[i] <= d /\ (i < Last => d < Value[i + 1])
           T == {k \in Nat : k <= Last => Value[k] <= d}
<1>0. /\ Last \in Nat /\ Value[0] = 0 /\ \A i \in 0 .. Last : Value[i] \in Nat
  BY HistogramAssumption
<1>1. ASSUME \A i \in 0 .. Last : ~ Right(i)
      PROVE  FALSE
  <2>1. 0 \in T
    BY <1>0
  <2>2. ASSUME NEW k \in Nat, k \in T PROVE k + 1 \in T
    <3> SUFFICES ASSUME k + 1 <= Last PROVE Value[k + 1] <= d
      OBVIOUS
    <3>1. k \in 0 .. Last /\ k + 1 \in 0 .. Last /\ k < Last /\ Value[k] <= d
      BY <1>0, <2>2
    <3>2. ~ (d < Value[k + 1])
      BY <1>1, <3>1
    <3>3. QED
      BY <1>0, <3>1, <3>2
  <2>3. Nat \subseteq T
    <3> HIDE DEF T
    <3>1. QED
      BY <2>1, <2>2, NatsByOne
  <2>4. Last \in 0 .. Last /\ Value[Last] <= d
    BY <1>0, <2>3
  <2>5. QED
    BY <1>0, <1>1, <2>4
<1>2. \E i \in 0 .. Last : Right(i)
  BY <1>1
<1>3. QED
  BY <1>2 DEF Bucket

(* The requests of a bucket, those up to a bucket, and those whose bucket  *)
(* stands for at most t.                                                   *)
InBucket(b) == {r \in Requests : Bucket(r.d) = b}
UpTo(b) == {r \in Requests : Bucket(r.d) <= b}
Shown(b, t) == {r \in Requests : Bucket(r.d) <= b /\ Value[Bucket(r.d)] <= t}

(* The histogram of a sequence of requests.                                *)
Tally(q) == [b \in 0 .. Last |-> HowMany(InBucket(b), q)]

(* The running total of Percentile, a recursive function over the buckets, *)
(* is the number of the requests up to each one.                           *)
LEMMA SeenCounts ==
  ASSUME NEW q \in Seq(Requests)
  PROVE  \A i \in 0 .. Last : Seen(Tally(q))[i] = HowMany(UpTo(i), q)
<1> DEFINE h == Tally(q)
           g == [i \in 0 .. Last |-> HowMany(UpTo(i), q)]
           Body(s) == [i \in 0 .. Last |-> IF i = 0 THEN h[0] ELSE s[i - 1] + h[i]]
           c == CHOOSE s : s = Body(s)
<1>0. Last \in Nat /\ \A i \in 0 .. Last : i # 0 => i - 1 \in 0 .. Last
  BY HistogramAssumption
<1>1. HowMany(UpTo(0), q) = HowMany(InBucket(0), q)
  <2>1. ASSUME NEW r \in Requests
        PROVE  r \in UpTo(0) <=> r \in InBucket(0)
    <3>1. Bucket(r.d) \in 0 .. Last
      BY BucketOf DEF Requests
    <3>2. Bucket(r.d) <= 0 <=> Bucket(r.d) = 0
      BY <1>0, <3>1
    <3>3. QED
      BY <3>2 DEF UpTo, InBucket
  <2>2. QED
    BY <2>1, HowManySame
<1>2. ASSUME NEW i \in 0 .. Last, i # 0
      PROVE  HowMany(UpTo(i), q) = HowMany(UpTo(i - 1), q) + HowMany(InBucket(i), q)
  <2>1. ASSUME NEW r \in Requests
        PROVE  /\ r \in UpTo(i) <=> r \in UpTo(i - 1) \/ r \in InBucket(i)
               /\ ~ (r \in UpTo(i - 1) /\ r \in InBucket(i))
    <3>1. Bucket(r.d) \in 0 .. Last
      BY BucketOf DEF Requests
    <3>2. QED
      BY <1>0, <3>1 DEF UpTo, InBucket
  <2>2. QED
    BY <2>1, HowManyEither
<1>3. g = Body(g)
  <2>1. ASSUME NEW i \in 0 .. Last
        PROVE  g[i] = IF i = 0 THEN h[0] ELSE g[i - 1] + h[i]
    <3>1. h[i] = HowMany(InBucket(i), q) /\ g[i] = HowMany(UpTo(i), q)
      BY DEF Tally
    <3>2. i # 0 => g[i - 1] = HowMany(UpTo(i - 1), q)
      BY <1>0
    <3> HIDE DEF g, h
    <3>3. QED
      BY <1>1, <1>2, <3>1, <3>2
  <2> HIDE DEF h
  <2>2. QED
    BY <2>1
<1>4. c = Body(c)
  <2> HIDE DEF Body
  <2>1. QED
    BY <1>3, Zenon
<1>5. Seen(h) = c
  <2> HIDE DEF h
  <2>1. QED
    BY Zenon DEF Seen
<1> HIDE DEF c
<1>6. \A i \in 0 .. Last : c[i] = g[i]
  <2>1. \A i \in 0 .. Last : /\ c[i] = IF i = 0 THEN h[0] ELSE c[i - 1] + h[i]
                             /\ g[i] = IF i = 0 THEN h[0] ELSE g[i - 1] + h[i]
    <3> HIDE DEF h, g
    <3>1. QED
      BY <1>3, <1>4
  <2> HIDE DEF g, h
  <2> DEFINE G == {i \in 0 .. Last : c[i] = g[i]}
  <2>2. 0 \in G
    BY <1>0, <2>1
  <2>3. \A i \in 1 .. Last : i - 1 \in G => i \in G
    BY <1>0, <2>1
  <2>4. 0 .. Last \subseteq G
    <3> HIDE DEF G
    <3>1. QED
      BY <1>0, <2>2, <2>3, NumbersUpTo
  <2>5. QED
    BY <2>4
<1>7. QED
  BY <1>5, <1>6

(* The loop of Apdex counts the requests of the buckets that stand for at  *)
(* most t.                                                                 *)
LEMMA WithinCounts ==
  ASSUME NEW q \in Seq(Requests), NEW t
  PROVE  Within(Tally(q), t) = HowMany(Shown(Last, t), q)
<1> DEFINE h == Tally(q)
           g == [i \in 0 .. Last |-> HowMany(Shown(i, t), q)]
           Body(s) == [i \in 0 .. Last |-> (IF i = 0 THEN 0 ELSE s[i - 1])
                                            + (IF Value[i] <= t THEN h[i] ELSE 0)]
           c == CHOOSE s : s = Body(s)
<1>0. Last \in Nat /\ \A i \in 0 .. Last : i # 0 => i - 1 \in 0 .. Last
  BY HistogramAssumption
<1>1. ASSUME NEW i \in 0 .. Last
      PROVE  /\ HowMany(InBucket(i), q) \in Nat /\ HowMany(Shown(i, t), q) \in Nat
             /\ HowMany(Shown(i - 1, t), q) \in Nat
  BY ThoseFinite
<1>2. ASSUME NEW i \in 0 .. Last, ~ (Value[i] <= t), i # 0
      PROVE  HowMany(Shown(i, t), q) = HowMany(Shown(i - 1, t), q)
  <2>1. ASSUME NEW r \in Requests
        PROVE  r \in Shown(i, t) <=> r \in Shown(i - 1, t)
    <3>1. Bucket(r.d) \in 0 .. Last
      BY BucketOf DEF Requests
    <3>2. Bucket(r.d) <= i <=> Bucket(r.d) <= i - 1 \/ Bucket(r.d) = i
      BY <1>0, <3>1
    <3>3. QED
      BY <1>2, <3>1, <3>2 DEF Shown
  <2>2. QED
    BY <2>1, HowManySame
<1>3. ASSUME NEW i \in 0 .. Last, Value[i] <= t, i # 0
      PROVE  HowMany(Shown(i, t), q) = HowMany(Shown(i - 1, t), q) + HowMany(InBucket(i), q)
  <2>1. ASSUME NEW r \in Requests
        PROVE  /\ r \in Shown(i, t) <=> r \in Shown(i - 1, t) \/ r \in InBucket(i)
               /\ ~ (r \in Shown(i - 1, t) /\ r \in InBucket(i))
    <3>1. Bucket(r.d) \in 0 .. Last
      BY BucketOf DEF Requests
    <3>2. /\ Bucket(r.d) <= i <=> Bucket(r.d) <= i - 1 \/ Bucket(r.d) = i
          /\ ~ (Bucket(r.d) <= i - 1 /\ Bucket(r.d) = i)
      BY <1>0, <3>1
    <3>3. QED
      BY <1>3, <3>1, <3>2 DEF Shown, InBucket
  <2>2. QED
    BY <2>1, HowManyEither
<1>4. HowMany(Shown(0, t), q) = IF Value[0] <= t THEN HowMany(InBucket(0), q) ELSE 0
  <2>1. ASSUME NEW r \in Requests
        PROVE  Bucket(r.d) <= 0 <=> Bucket(r.d) = 0
    <3>1. Bucket(r.d) \in 0 .. Last
      BY BucketOf DEF Requests
    <3>2. QED
      BY <1>0, <3>1
  <2>2. CASE Value[0] <= t
    <3>1. \A r \in Requests : r \in Shown(0, t) <=> r \in InBucket(0)
      BY <2>1, <2>2 DEF Shown, InBucket
    <3>2. QED
      BY <2>2, <3>1, HowManySame
  <2>3. CASE ~ (Value[0] <= t)
    <3>1. \A r \in Requests : r \notin Shown(0, t)
      BY <2>1, <2>3 DEF Shown
    <3>2. QED
      BY <2>3, <3>1, HowManyNone
  <2>4. QED
    BY <2>2, <2>3
<1>5. ASSUME NEW i \in 0 .. Last
      PROVE  g[i] = (IF i = 0 THEN 0 ELSE g[i - 1]) + (IF Value[i] <= t THEN h[i] ELSE 0)
  <2>1. h[i] = HowMany(InBucket(i), q) /\ g[i] = HowMany(Shown(i, t), q)
    BY DEF Tally
  <2>2. i # 0 => g[i - 1] = HowMany(Shown(i - 1, t), q)
    BY <1>0
  <2> HIDE DEF g, h
  <2>3. CASE i = 0
    BY <1>1, <1>4, <2>1, <2>3
  <2>4. CASE i # 0
    BY <1>1, <1>2, <1>3, <2>1, <2>2, <2>4
  <2>5. QED
    BY <2>3, <2>4
<1>6. g = Body(g)
  <2> HIDE DEF h
  <2>1. QED
    BY <1>5
<1>7. c = Body(c)
  <2> HIDE DEF Body
  <2>1. QED
    BY <1>6, Zenon
<1>8. Within(h, t) = c[Last]
  <2> HIDE DEF h
  <2>1. QED
    BY Zenon DEF Within
<1> HIDE DEF c
<1>9. \A i \in 0 .. Last : c[i] = g[i]
  <2>1. \A i \in 0 .. Last :
          /\ c[i] = (IF i = 0 THEN 0 ELSE c[i - 1]) + (IF Value[i] <= t THEN h[i] ELSE 0)
          /\ g[i] = (IF i = 0 THEN 0 ELSE g[i - 1]) + (IF Value[i] <= t THEN h[i] ELSE 0)
    <3> HIDE DEF h, g
    <3>1. QED
      BY <1>5, <1>7
  <2> HIDE DEF g, h
  <2> DEFINE G == {i \in 0 .. Last : c[i] = g[i]}
  <2>2. 0 \in G
    BY <1>0, <2>1
  <2>3. \A i \in 1 .. Last : i - 1 \in G => i \in G
    BY <1>0, <2>1
  <2>4. 0 .. Last \subseteq G
    <3> HIDE DEF G
    <3>1. QED
      BY <1>0, <2>2, <2>3, NumbersUpTo
  <2>5. QED
    BY <2>4
<1>10. QED
  BY <1>0, <1>8, <1>9

(* The total is the number of the requests.                                *)
LEMMA TotalCounts ==
  ASSUME NEW q \in Seq(Requests)
  PROVE  Total(Tally(q)) = Len(q) /\ HowMany(UpTo(Last), q) = Len(q)
<1>1. Last \in 0 .. Last
  BY HistogramAssumption
<1>2. \A r \in Requests : r \in UpTo(Last)
  BY BucketOf, HistogramAssumption DEF UpTo, Requests
<1>3. HowMany(UpTo(Last), q) = Len(q)
  BY <1>2, HowManyAll
<1>4. QED
  BY <1>1, <1>3, SeenCounts DEF Total

(* The rank is that of one of the samples.                                 *)
LEMMA TargetWithin ==
  ASSUME NEW n \in Nat, n > 0
  PROVE  Target(95, n) \in Nat /\ Target(95, n) > 0 /\ Target(95, n) <= n
<1>1. Target(95, n) = (95 * n + 99) \div 100
  BY DEF Target
<1>2. QED
  BY <1>1

(* Percentile finds the first bucket up to which there are enough samples. *)
LEMMA PercentileFinds ==
  ASSUME NEW q \in Seq(Requests), Len(q) > 0
  PROVE  \E i \in 0 .. Last :
           /\ Percentile(Tally(q), 95) = Value[i]
           /\ HowMany(UpTo(i), q) >= Target(95, Len(q))
           /\ \A j \in 0 .. i - 1 : HowMany(UpTo(j), q) < Target(95, Len(q))
<1> DEFINE h == Tally(q)
           n == Target(95, Len(q))
           S == {i \in 0 .. Last : HowMany(UpTo(i), q) >= n}
           First(i) == Seen(h)[i] >= n /\ \A j \in 0 .. i - 1 : Seen(h)[j] < n
<1>1. Last \in Nat /\ Len(q) \in Nat /\ Total(h) = Len(q)
  BY HistogramAssumption, TotalCounts
<1>2. n \in Nat /\ n <= Len(q)
  BY <1>1, TargetWithin
<1>3. \A i \in 0 .. Last : Seen(h)[i] = HowMany(UpTo(i), q) /\ HowMany(UpTo(i), q) \in Nat
  BY SeenCounts, ThoseFinite
<1> HIDE DEF h, n
<1>4. Last \in S /\ S \subseteq Nat
  BY <1>1, <1>2, TotalCounts
<1>5. PICK i \in S : \A j \in S : i <= j
  <2> HIDE DEF S
  <2>1. QED
    BY <1>4, LeastOne
<1>6. \A j \in 0 .. i - 1 : j \in 0 .. Last /\ ~ (i <= j)
  BY <1>1
<1>7. First(i)
  BY <1>2, <1>3, <1>5, <1>6
<1>8. Percentile(h, 95) = Value[CHOOSE k \in 0 .. Last : First(k)]
  BY <1>1 DEF Percentile, n
<1>9. PICK k \in 0 .. Last : First(k) /\ Percentile(h, 95) = Value[k]
  <2> HIDE DEF First
  <2>1. QED
    BY <1>7, <1>8
<1>10. \A j \in 0 .. k - 1 : j \in 0 .. Last
  BY <1>1
<1>11. QED
  BY <1>3, <1>9, <1>10 DEF h, n

(* The first bound above t.                                                *)
LEMMA BoundIs ==
  ASSUME NEW t \in Nat, Above(t) # {}
  PROVE  \E i \in 0 .. Last :
           Bound(t) = Value[i] /\ Value[i] > t /\ \A j \in 0 .. Last : Value[j] > t => i <= j
<1>1. Above(t) \subseteq Nat
  BY HistogramAssumption DEF Above
<1>2. \E i \in Above(t) : \A j \in Above(t) : i <= j
  BY <1>1, LeastOne
<1>3. PICK i \in Above(t) : Bound(t) = Value[i] /\ \A j \in Above(t) : i <= j
  BY <1>2, Zenon DEF Bound
<1>4. QED
  BY <1>3 DEF Above

(* The requests that last at most t, and those below the first bound above *)
(* t, of any sequence.                                                     *)
Fast(t) == {r \in Requests : r.d <= t}
Faster(t) == {r \in Requests : Above(t) # {} => r.d < Bound(t)}

(* The buckets that stand for at most t lie between them.                  *)
LEMMA ShownBetween ==
  ASSUME NEW t \in Nat, NEW q \in Seq(Requests)
  PROVE  /\ HowMany(Fast(t), q) <= Within(Tally(q), t)
         /\ Within(Tally(q), t) <= HowMany(Faster(t), q)
         /\ {HowMany(Fast(t), q), Within(Tally(q), t), HowMany(Faster(t), q)} \subseteq Nat
<1>0. /\ Last \in Nat /\ \A i \in 0 .. Last : Value[i] \in Nat
      /\ \A i, j \in 0 .. Last : i < j => Value[i] < Value[j]
  BY HistogramAssumption
<1>1. ASSUME NEW r \in Requests, r \in Fast(t) PROVE r \in Shown(Last, t)
  <2>0. r.d \in Nat /\ r.d <= t
    BY <1>1 DEF Fast, Requests
  <2>1. Bucket(r.d) \in 0 .. Last /\ Value[Bucket(r.d)] <= r.d
    BY <2>0, BucketOf
  <2>2. Value[Bucket(r.d)] <= t /\ Bucket(r.d) <= Last
    BY <1>0, <2>0, <2>1
  <2>3. QED
    BY <2>2 DEF Shown
<1>2. ASSUME NEW r \in Requests, r \in Shown(Last, t), Above(t) # {} PROVE r.d < Bound(t)
  <2> DEFINE b == Bucket(r.d)
  <2>1. r.d \in Nat /\ b \in 0 .. Last /\ (b < Last => r.d < Value[b + 1]) /\ Value[b] <= t
    BY <1>2, BucketOf DEF Shown, Requests
  <2>2. PICK i \in 0 .. Last : Bound(t) = Value[i] /\ Value[i] > t
    BY <1>2, BoundIs
  <2> HIDE DEF b
  <2>3. b < i
    BY <1>0, <2>1, <2>2
  <2>4. b + 1 \in 0 .. Last /\ b < Last
    BY <1>0, <2>1, <2>2, <2>3
  <2>5. Value[b + 1] <= Value[i]
    <3>1. b + 1 = i \/ b + 1 < i
      BY <1>0, <2>1, <2>2, <2>3
    <3>2. QED
      BY <1>0, <2>2, <2>4, <3>1
  <2>6. QED
    BY <1>0, <2>1, <2>2, <2>4, <2>5
<1>3. \A r \in Requests : r \in Shown(Last, t) => r \in Faster(t)
  BY <1>2 DEF Faster
<1>4. Within(Tally(q), t) = HowMany(Shown(Last, t), q)
  BY WithinCounts
<1>5. HowMany(Fast(t), q) <= HowMany(Shown(Last, t), q)
  BY <1>1, HowManyMore
<1>6. HowMany(Shown(Last, t), q) <= HowMany(Faster(t), q)
  BY <1>3, HowManyMore
<1>7. QED
  BY <1>4, <1>5, <1>6, ThoseFinite

(* A percentile above t, and one that is not.                              *)
LEMMA PercentileTells ==
  ASSUME NEW t \in Nat, NEW q \in Seq(Requests), Len(q) > 0
  PROVE  IF Percentile(Tally(q), 95) > t THEN HowMany(Fast(t), q) < Target(95, Len(q))
         ELSE HowMany(Faster(t), q) >= Target(95, Len(q))
<1>0. /\ Last \in Nat /\ Value[0] = 0 /\ \A i \in 0 .. Last : Value[i] \in Nat
      /\ \A i, j \in 0 .. Last : i < j => Value[i] < Value[j]
  BY HistogramAssumption
<1>1. PICK i \in 0 .. Last :
        /\ Percentile(Tally(q), 95) = Value[i]
        /\ HowMany(UpTo(i), q) >= Target(95, Len(q))
        /\ \A j \in 0 .. i - 1 : HowMany(UpTo(j), q) < Target(95, Len(q))
  BY PercentileFinds
<1>2. Len(q) \in Nat /\ Target(95, Len(q)) \in Nat
  BY TargetWithin
<1>3. CASE Value[i] > t
  <2>1. i - 1 \in 0 .. i - 1
    <3>1. i # 0
      BY <1>0, <1>3
    <3>2. QED
      BY <1>0, <3>1
  <2>2. ASSUME NEW r \in Requests, r \in Fast(t) PROVE r \in UpTo(i - 1)
    <3>1. r.d \in Nat /\ r.d <= t /\ Bucket(r.d) \in 0 .. Last /\ Value[Bucket(r.d)] <= r.d
      BY <2>2, BucketOf DEF Fast, Requests
    <3>2. Value[Bucket(r.d)] < Value[i]
      BY <1>0, <1>3, <3>1
    <3>3. ~ (i <= Bucket(r.d))
      <4>1. CASE i = Bucket(r.d)
        BY <1>0, <3>2, <4>1
      <4>2. CASE i < Bucket(r.d)
        <5>1. Value[i] < Value[Bucket(r.d)]
          BY <1>0, <3>1, <4>2
        <5>2. QED
          BY <1>0, <3>1, <3>2, <5>1
      <4>3. QED
        BY <1>0, <3>1, <4>1, <4>2
    <3>4. QED
      BY <1>0, <3>1, <3>3 DEF UpTo
  <2>3. HowMany(Fast(t), q) <= HowMany(UpTo(i - 1), q)
    BY <2>2, HowManyMore
  <2>4. HowMany(UpTo(i - 1), q) < Target(95, Len(q))
    BY <1>1, <2>1
  <2>5. HowMany(Fast(t), q) \in Nat /\ HowMany(UpTo(i - 1), q) \in Nat
    BY ThoseFinite
  <2>6. QED
    BY <1>1, <1>2, <1>3, <2>3, <2>4, <2>5
<1>4. CASE ~ (Value[i] > t)
  <2>1. ASSUME NEW r \in Requests, r \in UpTo(i) PROVE r \in Shown(Last, t)
    <3>1. Bucket(r.d) \in 0 .. Last /\ Bucket(r.d) <= i
      BY <2>1, BucketOf DEF UpTo, Requests
    <3>2. Value[Bucket(r.d)] <= Value[i]
      <4>1. Bucket(r.d) = i \/ Bucket(r.d) < i
        BY <1>0, <3>1
      <4>2. QED
        BY <1>0, <3>1, <4>1
    <3>3. Value[Bucket(r.d)] <= t
      BY <1>0, <1>4, <3>1, <3>2
    <3>4. QED
      BY <3>1, <3>3 DEF Shown
  <2>2. HowMany(UpTo(i), q) <= HowMany(Shown(Last, t), q)
    BY <2>1, HowManyMore
  <2>3. HowMany(Shown(Last, t), q) <= HowMany(Faster(t), q)
    BY ShownBetween, WithinCounts
  <2>4. /\ HowMany(UpTo(i), q) \in Nat /\ HowMany(Shown(Last, t), q) \in Nat
        /\ HowMany(Faster(t), q) \in Nat
    BY ThoseFinite
  <2>5. QED
    BY <1>1, <1>2, <1>4, <2>2, <2>3, <2>4
<1>5. QED
  BY <1>3, <1>4

-----------------------------------------------------------------------------
(* The counters of a minute, and of the minutes together.                  *)

(* A sum of products, and what can be said of its factors.                 *)
LEMMA Products ==
  ASSUME NEW f \in Nat, NEW w \in Nat, NEW i \in Nat, NEW a \in Nat, NEW b \in Nat
  PROVE  /\ f * (a + b) = f * a + f * b /\ (i + 1) * w = i * w + w
         /\ {f * a, f * b, i * w, f * w} \subseteq Nat
         /\ i <= f => i * w <= f * w
         /\ f # 0 /\ f * a <= f * w => a <= w
<1>1. /\ f * (a + b) = f * a + f * b /\ (i + 1) * w = i * w + w
      /\ {f * a, f * b, i * w, f * w} \subseteq Nat
  OBVIOUS
<1>2. i <= f => i * w <= f * w
  OBVIOUS
<1>3. f # 0 /\ f * a <= f * w => a <= w
  OBVIOUS
<1>4. QED
  BY <1>1, <1>2, <1>3

(* A counter that does not come round is the sum.                          *)
LEMMA FitsWord ==
  ASSUME NEW w \in Nat, NEW i \in Nat, i < w
  PROVE  i % w = i
OBVIOUS

(* The counters of a row are those of its requests.                        *)
Good(r) ==
  /\ r.requests \in Seq(Requests)
  /\ r.count = Len(r.requests)
  /\ r.errors = HowMany({x \in Requests : x.failed}, r.requests)
  /\ r.histogram = Tally(r.requests)

(* The row that counts the requests of q.                                  *)
Counting(q) ==
  [requests |-> q, count |-> Len(q), errors |-> HowMany({x \in Requests : x.failed}, q),
   histogram |-> Tally(q)]

(* A row of so few requests that those of all the minutes fit.             *)
Fits(r) == FinestraMinuti * Len(r.requests) <= Word - 1

(* No request.                                                             *)
LEMMA NoneCounted ==
  /\ <<>> \in Seq(Requests) /\ \A P : HowMany(P, <<>>) = 0
  /\ Tally(<<>>) = Empty
<1>1. <<>> \in Seq(Requests) /\ \A P : HowMany(P, <<>>) = 0
  BY FS_EmptySet DEF HowMany, Those
<1>2. QED
  BY <1>1 DEF Tally, Empty

(* One request.                                                            *)
LEMMA OneCounted ==
  ASSUME NEW x \in Requests, NEW P
  PROVE  <<x>> \in Seq(Requests) /\ Len(<<x>>) = 1 /\ HowMany(P, <<x>>) = IF x \in P THEN 1 ELSE 0
<1>1. Those(P, <<x>>) = IF x \in P THEN {1} ELSE {}
  BY DEF Those
<1>2. QED
  BY <1>1, FS_EmptySet, FS_Singleton DEF HowMany

(* Merging two histograms is taking the requests of both.                  *)
LEMMA MergeCounts ==
  ASSUME NEW p \in Seq(Requests), NEW q \in Seq(Requests), Len(p) + Len(q) < Word
  PROVE  Merge(Tally(p), Tally(q)) = Tally(p \o q)
<1>1. ASSUME NEW b \in 0 .. Last
      PROVE  (Tally(p)[b] + Tally(q)[b]) % Word = Tally(p \o q)[b]
  <2> DEFINE i == HowMany(InBucket(b), p)
             j == HowMany(InBucket(b), q)
  <2>1. Tally(p)[b] = i /\ Tally(q)[b] = j /\ Tally(p \o q)[b] = HowMany(InBucket(b), p \o q)
    BY DEF Tally
  <2>2. HowMany(InBucket(b), p \o q) = i + j
    BY HowManyJoined
  <2>3. /\ i \in Nat /\ j \in Nat /\ i <= Len(p) /\ j <= Len(q)
        /\ Len(p) \in Nat /\ Len(q) \in Nat /\ Word \in Nat
    BY ThoseFinite, HistogramAssumption
  <2> HIDE DEF i, j
  <2>4. i + j < Word /\ i + j \in Nat
    BY <2>3
  <2>5. (i + j) % Word = i + j
    BY <2>3, <2>4, FitsWord
  <2>6. QED
    BY <2>1, <2>2, <2>5
<1>2. QED
  BY <1>1 DEF Merge, Tally

(* Add counts one more request.                                            *)
LEMMA AddCounts ==
  ASSUME NEW p \in Seq(Requests), NEW x \in Requests, Len(p) + 1 < Word
  PROVE  Add(Tally(p), x.d) = Tally(p \o <<x>>)
<1> DEFINE c == Bucket(x.d)
           h == Tally(p)
<1>1. c \in 0 .. Last
  BY BucketOf DEF Requests
<1>2. ASSUME NEW b \in 0 .. Last
      PROVE  /\ Tally(p \o <<x>>)[b] = h[b] + (IF b = c THEN 1 ELSE 0)
             /\ h[b] \in Nat /\ (h[b] + 1) % Word = h[b] + 1
  <2>1. h[b] = HowMany(InBucket(b), p) /\ Tally(p \o <<x>>)[b] = HowMany(InBucket(b), p \o <<x>>)
    BY DEF Tally
  <2>2. <<x>> \in Seq(Requests) /\ HowMany(InBucket(b), <<x>>) = IF b = c THEN 1 ELSE 0
    BY OneCounted DEF InBucket
  <2>3. HowMany(InBucket(b), p \o <<x>>) = HowMany(InBucket(b), p) + HowMany(InBucket(b), <<x>>)
    BY <2>2, HowManyJoined
  <2>4. HowMany(InBucket(b), p) \in Nat /\ HowMany(InBucket(b), p) <= Len(p)
        /\ Len(p) \in Nat /\ Word \in Nat
    BY ThoseFinite, HistogramAssumption
  <2> HIDE DEF h, c
  <2>5. h[b] + 1 \in Nat /\ h[b] + 1 < Word
    BY <2>1, <2>4
  <2>6. (h[b] + 1) % Word = h[b] + 1
    BY <2>4, <2>5, FitsWord
  <2>7. QED
    BY <2>1, <2>2, <2>3, <2>4, <2>6
<1>3. h \in [0 .. Last -> Nat] /\ h = [b \in 0 .. Last |-> h[b]]
  <2>1. h = [b \in 0 .. Last |-> HowMany(InBucket(b), p)]
    BY DEF Tally
  <2>2. \A b \in 0 .. Last : h[b] \in Nat
    BY <1>2
  <2> HIDE DEF h
  <2>3. QED
    BY <2>1, <2>2
<1>4. Tally(p \o <<x>>) = [b \in 0 .. Last |-> Tally(p \o <<x>>)[b]]
  BY DEF Tally
<1>5. Add(h, x.d) = [h EXCEPT ![c] = (h[c] + 1) % Word]
  BY DEF Add
<1> HIDE DEF h, c
<1>6. ASSUME NEW b \in 0 .. Last
      PROVE  [h EXCEPT ![c] = (h[c] + 1) % Word][b] = Tally(p \o <<x>>)[b]
  BY <1>1, <1>2, <1>3
<1>7. [h EXCEPT ![c] = (h[c] + 1) % Word]
        = [b \in 0 .. Last |-> [h EXCEPT ![c] = (h[c] + 1) % Word][b]]
  BY <1>3
<1>8. QED
  BY <1>4, <1>5, <1>6, <1>7 DEF h

(* The row of a minute counts its requests.                                *)
LEMMA RowCounts ==
  ASSUME NEW q \in Seq(Requests), Len(q) < Word
  PROVE  Row(q) = Counting(q)
<1> DEFINE n == Len(q)
           p(i) == SubSeq(q, 1, i)
           g == [i \in 0 .. n |-> Tally(p(i))]
           Body(s) == [i \in 0 .. n |-> IF i = 0 THEN Empty ELSE Add(s[i - 1], q[i].d)]
           c == CHOOSE s : s = Body(s)
<1>0. n \in Nat /\ \A i \in 0 .. n : i # 0 => i - 1 \in 0 .. n
  OBVIOUS
<1>1. p(0) = <<>> /\ p(n) = q
  OBVIOUS
<1>2. ASSUME NEW i \in 0 .. n, i # 0
      PROVE  Add(Tally(p(i - 1)), q[i].d) = Tally(p(i))
  <2>1. q[i] \in Requests /\ p(i - 1) \in Seq(Requests) /\ Len(p(i - 1)) = i - 1
    BY <1>0, <1>2
  <2>2. p(i) = p(i - 1) \o <<q[i]>>
    BY <1>0, <1>2
  <2>3. Len(p(i - 1)) + 1 < Word
    BY <1>0, <1>2, <2>1, HistogramAssumption
  <2> HIDE DEF p
  <2>4. QED
    BY <2>1, <2>2, <2>3, AddCounts
<1>3. ASSUME NEW i \in 0 .. n
      PROVE  g[i] = IF i = 0 THEN Empty ELSE Add(g[i - 1], q[i].d)
  <2>1. g[i] = Tally(p(i)) /\ (i # 0 => g[i - 1] = Tally(p(i - 1)))
    BY <1>0
  <2>2. i = 0 => g[i] = Empty
    BY <1>1, <2>1, NoneCounted
  <2> HIDE DEF g, p
  <2>3. QED
    BY <1>2, <2>1, <2>2
<1>4. g = Body(g)
  BY <1>3
<1>5. c = Body(c)
  <2> HIDE DEF Body, g
  <2>1. QED
    BY <1>4, Zenon
<1>6. Row(q) = [requests |-> q, count |-> n, errors |-> Count(Failed, q), histogram |-> c[n]]
  BY Zenon DEF Row
<1> HIDE DEF c
<1>7. \A i \in 0 .. n : c[i] = g[i]
  <2> DEFINE G == {i \in 0 .. n : c[i] = g[i]}
  <2>1. \A i \in 0 .. n : c[i] = IF i = 0 THEN Empty ELSE Add(c[i - 1], q[i].d)
    BY <1>5
  <2> HIDE DEF g, n
  <2>2. 0 \in G
    BY <1>0, <1>3, <2>1
  <2>3. \A i \in 1 .. n : i - 1 \in G => i \in G
    BY <1>0, <1>3, <2>1
  <2>4. 0 .. n \subseteq G
    <3> HIDE DEF G
    <3>1. QED
      BY <1>0, <2>2, <2>3, NumbersUpTo
  <2>5. QED
    BY <2>4
<1>8. c[n] = Tally(q)
  <2>1. n \in 0 .. n
    BY <1>0
  <2>2. g[n] = Tally(p(n))
    BY <2>1
  <2> HIDE DEF g, n, p
  <2>3. QED
    BY <1>1, <1>7, <2>1, <2>2
<1>9. Count(Failed, q) = HowMany({x \in Requests : x.failed}, q)
  <2>1. \A k \in DOMAIN q : q[k] \in Requests
    OBVIOUS
  <2>2. {k \in DOMAIN q : q[k].failed} = Those({x \in Requests : x.failed}, q)
    BY <2>1 DEF Those
  <2>3. QED
    BY <2>2 DEF Count, Failed, HowMany
<1>10. QED
  BY <1>6, <1>8, <1>9 DEF Counting

(* Two rows added up, as Summary does.                                     *)
Plus(r, s) ==
  [requests |-> r.requests \o s.requests, count |-> r.count + s.count,
   errors |-> r.errors + s.errors, histogram |-> Merge(r.histogram, s.histogram)]

(* A minute with no request.                                               *)
LEMMA NoRowCounts == NoRow = Counting(<<>>) /\ Good(NoRow) /\ Fits(NoRow) /\ Len(NoRow.requests) = 0
<1>1. FinestraMinuti \in Nat /\ Word \in Nat \ {0}
  BY AlarmsAssumption, HistogramAssumption
<1>2. Len(<<>>) = 0 /\ FinestraMinuti * 0 = 0 /\ 0 <= Word - 1
  BY <1>1
<1>3. QED
  BY <1>2, NoneCounted DEF NoRow, Good, Fits, Counting

(* The sum of two rows counts the requests of both.                        *)
LEMMA PlusCounts ==
  ASSUME NEW r, Good(r), NEW s, Good(s), Len(r.requests) + Len(s.requests) < Word
  PROVE  Good(Plus(r, s)) /\ Len(Plus(r, s).requests) = Len(r.requests) + Len(s.requests)
<1> DEFINE F == {x \in Requests : x.failed}
           p == r.requests
           q == s.requests
<1>1. p \in Seq(Requests) /\ q \in Seq(Requests)
  BY DEF Good
<1>2. p \o q \in Seq(Requests) /\ Len(p \o q) = Len(p) + Len(q)
      /\ HowMany(F, p \o q) = HowMany(F, p) + HowMany(F, q)
  BY <1>1, HowManyJoined
<1>3. Merge(Tally(p), Tally(q)) = Tally(p \o q)
  BY <1>1, MergeCounts
<1>4. /\ Plus(r, s).requests = p \o q
      /\ Plus(r, s).count = Len(p) + Len(q)
      /\ Plus(r, s).errors = HowMany(F, p) + HowMany(F, q)
      /\ Plus(r, s).histogram = Merge(Tally(p), Tally(q))
  BY DEF Plus, Good
<1>5. QED
  BY <1>2, <1>3, <1>4 DEF Good

(* Summary counts the requests of all of them.                             *)
LEMMA SummaryCounts ==
  ASSUME \A i \in 1 .. FinestraMinuti : Good(rows[i]) /\ Fits(rows[i])
  PROVE  Good(Summary)
<1> DEFINE f == FinestraMinuti
           w == Word - 1
           Step(s, i) == IF i = 0 THEN NoRow ELSE Plus(s[i - 1], rows[i])
           Body(s) == [i \in 0 .. f |-> Step(s, i)]
           So(s, n) == s = [i \in 0 .. f |-> s[i]] /\ \A i \in 0 .. n : s[i] = Step(s, i)
           T == {n \in Nat : n <= f => \E s : So(s, n)}
           c == CHOOSE s : s = Body(s)
<1>0. f \in Nat \ {0} /\ w \in Nat /\ Word \in Nat /\ Word = w + 1
  BY AlarmsAssumption, HistogramAssumption
<1>1. 0 \in T
  <2> DEFINE s == [i \in 0 .. f |-> NoRow]
  <2>1. \A i \in 0 .. 0 : i = 0 /\ i \in 0 .. f
    BY <1>0
  <2>2. So(s, 0)
    BY <2>1
  <2> HIDE DEF So
  <2>3. QED
    BY <2>2
<1>2. ASSUME NEW n \in Nat, n \in T PROVE n + 1 \in T
  <2> SUFFICES ASSUME n + 1 <= f PROVE \E s : So(s, n + 1)
    OBVIOUS
  <2>1. PICK s : So(s, n)
    BY <1>0, <1>2
  <2> DEFINE t == [i \in 0 .. f |-> IF i = n + 1 THEN Plus(s[n], rows[n + 1]) ELSE s[i]]
  <2>2. /\ n \in 0 .. f /\ n + 1 \in 0 .. f /\ (n + 1) - 1 = n /\ n + 1 # 0 /\ n # n + 1
        /\ \A i \in 0 .. n + 1 : i \in 0 .. f /\ (i # n + 1 => i \in 0 .. n)
        /\ \A i \in 0 .. n : i # 0 => i - 1 \in 0 .. n /\ i - 1 # n + 1 /\ i - 1 \in 0 .. f
    BY <1>0
  <2>3. t[n + 1] = Plus(s[n], rows[n + 1]) /\ t[n] = s[n] /\ \A i \in 0 .. n : t[i] = s[i]
    BY <2>2
  <2>4. t = [i \in 0 .. f |-> t[i]]
    OBVIOUS
  <2> HIDE DEF t
  <2>5. \A i \in 0 .. n + 1 : t[i] = Step(t, i)
    <3> SUFFICES ASSUME NEW i \in 0 .. n + 1 PROVE t[i] = Step(t, i)
      OBVIOUS
    <3>1. CASE i = n + 1
      BY <2>2, <2>3, <3>1
    <3>2. CASE i # n + 1
      <4>1. i \in 0 .. n /\ t[i] = s[i] /\ s[i] = Step(s, i)
        BY <2>1, <2>2, <2>3, <3>2
      <4>2. i # 0 => t[i - 1] = s[i - 1]
        BY <2>2, <2>3, <4>1
      <4>3. QED
        BY <4>1, <4>2
    <3>3. QED
      BY <3>1, <3>2
  <2>6. So(t, n + 1)
    BY <2>4, <2>5
  <2> HIDE DEF So
  <2>7. QED
    BY <2>6
<1>3. PICK s : So(s, f)
  <2>1. Nat \subseteq T
    <3> HIDE DEF T
    <3>1. QED
      BY <1>1, <1>2, NatsByOne
  <2>2. QED
    BY <1>0, <2>1
<1>4. s = Body(s)
  <2>1. \A i \in 0 .. f : s[i] = Step(s, i)
    BY <1>3
  <2> HIDE DEF Step
  <2>2. QED
    BY <1>3, <2>1
<1>5. c = Body(c)
  <2> HIDE DEF Body
  <2>1. QED
    BY <1>4, Zenon
<1>6. Summary = c[f]
  BY Zenon DEF Summary, Plus
<1> HIDE DEF c
<1>7. \A i \in 0 .. f : c[i] = Step(c, i)
  <2> HIDE DEF Step
  <2>1. QED
    BY <1>5
<1> DEFINE Fine(i) == Good(c[i]) /\ f * Len(c[i].requests) <= i * w
           G == {i \in 0 .. f : Fine(i)}
<1>8. 0 \in G
  <2>1. c[0] = NoRow /\ 0 \in 0 .. f
    BY <1>0, <1>7
  <2>2. f * 0 <= 0 * w
    BY <1>0
  <2>3. QED
    BY <2>1, <2>2, NoRowCounts
<1>9. ASSUME NEW i \in 1 .. f, i - 1 \in G PROVE i \in G
  <2> DEFINE a == Len(c[i - 1].requests)
             b == Len(rows[i].requests)
  <2>1. c[i] = Plus(c[i - 1], rows[i]) /\ i \in 0 .. f /\ i \in Nat /\ i - 1 \in Nat
    BY <1>0, <1>7
  <2>2. Good(c[i - 1]) /\ f * a <= (i - 1) * w
    BY <1>9
  <2>3. Good(rows[i]) /\ f * b <= w
    BY DEF Fits
  <2>4. a \in Nat /\ b \in Nat
    BY <2>2, <2>3 DEF Good
  <2> HIDE DEF a, b
  <2>5. f * (a + b) <= i * w
    <3>1. f * (a + b) = f * a + f * b /\ {f * a, f * b} \subseteq Nat
      BY <1>0, <2>4, Products
    <3>2. ((i - 1) + 1) * w = (i - 1) * w + w /\ (i - 1) * w \in Nat
      BY <1>0, <2>1, Products
    <3>3. (i - 1) + 1 = i
      BY <2>1
    <3>4. i * w = (i - 1) * w + w
      BY <3>2, <3>3
    <3> DEFINE x == f * a
               y == f * b
               z == (i - 1) * w
    <3>5. x \in Nat /\ y \in Nat /\ z \in Nat /\ x <= z /\ y <= w
      BY <2>2, <2>3, <3>1, <3>2 DEF a, b
    <3>6. f * (a + b) = x + y /\ i * w = z + w
      BY <3>1, <3>4
    <3> HIDE DEF x, y, z
    <3>7. x + y <= z + w
      BY <1>0, <3>5
    <3>8. QED
      BY <3>6, <3>7
  <2>6. a + b <= w
    <3>1. i * w <= f * w /\ i * w \in Nat /\ f * w \in Nat
      BY <1>0, <2>1, Products
    <3>2. f * (a + b) \in Nat
      BY <1>0, <2>4, Products
    <3>3. f * (a + b) <= f * w
      BY <2>5, <3>1, <3>2
    <3>4. QED
      BY <1>0, <2>4, <3>3, Products
  <2>7. a + b < Word
    BY <1>0, <2>4, <2>6
  <2>8. Good(c[i]) /\ Len(c[i].requests) = a + b
    BY <2>1, <2>2, <2>3, <2>7, PlusCounts DEF a, b
  <2>9. QED
    BY <2>1, <2>5, <2>8
<1>10. f \in G
  <2>1. 0 .. f \subseteq G
    <3> HIDE DEF G
    <3>1. QED
      BY <1>0, <1>8, <1>9, NumbersUpTo
  <2>2. QED
    BY <1>0, <2>1
<1>11. QED
  BY <1>6, <1>10

-----------------------------------------------------------------------------
(* The alarms.                                                             *)

(* What the model counts in a sequence of requests.                        *)
LEMMA CountsOf ==
  ASSUME NEW q \in Seq(Requests), NEW t \in Nat
  PROVE  /\ Cardinality({i \in DOMAIN q : q[i].failed}) = HowMany({x \in Requests : x.failed}, q)
         /\ Cardinality({i \in DOMAIN q : q[i].d <= t}) = HowMany(Fast(t), q)
         /\ (IF Above(t) = {} THEN Len(q) ELSE Cardinality({i \in DOMAIN q : q[i].d < Bound(t)}))
              = HowMany(Faster(t), q)
<1>1. \A k \in DOMAIN q : q[k] \in Requests
  OBVIOUS
<1>2. {i \in DOMAIN q : q[i].failed} = Those({x \in Requests : x.failed}, q)
  BY <1>1 DEF Those
<1>3. {i \in DOMAIN q : q[i].d <= t} = Those(Fast(t), q)
  BY <1>1 DEF Those, Fast
<1>4. CASE Above(t) = {}
  <2>1. \A r \in Requests : r \in Faster(t)
    BY <1>4 DEF Faster
  <2>2. QED
    BY <1>2, <1>3, <1>4, <2>1, HowManyAll DEF HowMany
<1>5. CASE Above(t) # {}
  <2>1. {i \in DOMAIN q : q[i].d < Bound(t)} = Those(Faster(t), q)
    BY <1>1, <1>5 DEF Those, Faster
  <2>2. QED
    BY <1>2, <1>3, <1>5, <2>1 DEF HowMany
<1>6. QED
  BY <1>4, <1>5

(* What each rule says of the requests it was decided on.                  *)
ErrorsTold(on, q) ==
  "tasso di errore" \in on
    <=> ErrorRatePct > 0 /\ HowMany({x \in Requests : x.failed}, q) * 100 > ErrorRatePct * Len(q)

LatencyTold(on, q) ==
  IF "tempo di risposta" \in on
  THEN P95MS > 0 /\ HowMany(Fast(P95MS), q) < Target(95, Len(q))
  ELSE P95MS = 0 \/ HowMany(Faster(P95MS), q) >= Target(95, Len(q))

ApdexTold(on, q) ==
  IF "apdex" \in on
  THEN ApdexT > 0 /\ (HowMany(Fast(ApdexT), q) + HowMany(Fast(4 * ApdexT), q)) * 100
                       < ApdexMin * 2 * Len(q)
  ELSE ApdexT = 0 \/ (HowMany(Faster(ApdexT), q) + HowMany(Faster(4 * ApdexT), q)) * 100
                       >= ApdexMin * 2 * Len(q)

(* The rules tell the truth of the rows they look at.                      *)
LEMMA RulesTell ==
  ASSUME NEW s, Good(s), Len(s.requests) > 0
  PROVE  /\ ErrorsTold(Exceeded(s), s.requests)
         /\ LatencyTold(Exceeded(s), s.requests)
         /\ ApdexTold(Exceeded(s), s.requests)
<1> DEFINE q == s.requests
<1>1. /\ q \in Seq(Requests) /\ s.count = Len(q) /\ Len(q) \in Nat
      /\ s.errors = HowMany({x \in Requests : x.failed}, q) /\ s.histogram = Tally(q)
  BY DEF Good
<1>2. {ErrorRatePct, ApdexMin, P95MS, ApdexT} \subseteq Nat /\ 4 * ApdexT \in Nat
  BY AlarmsAssumption
<1>3. /\ "tasso di errore" \in Exceeded(s)
           <=> ErrorRatePct > 0 /\ s.errors * 100 > ErrorRatePct * s.count
      /\ "apdex" \in Exceeded(s)
           <=> ApdexMin > 0 /\ ApdexBelow(s.histogram, ApdexT, ApdexMin)
      /\ "tempo di risposta" \in Exceeded(s)
           <=> P95MS > 0 /\ Percentile(s.histogram, 95) > P95MS
  BY DEF Exceeded
<1> HIDE DEF q
<1>4. ErrorsTold(Exceeded(s), q)
  BY <1>1, <1>3 DEF ErrorsTold
<1>5. LatencyTold(Exceeded(s), q)
  <2>1. IF Percentile(Tally(q), 95) > P95MS THEN HowMany(Fast(P95MS), q) < Target(95, Len(q))
        ELSE HowMany(Faster(P95MS), q) >= Target(95, Len(q))
    BY <1>1, <1>2, PercentileTells DEF q
  <2>2. P95MS > 0 \/ P95MS = 0
    BY <1>2
  <2>3. QED
    BY <1>1, <1>3, <2>1, <2>2 DEF LatencyTold
<1>6. ApdexTold(Exceeded(s), q)
  <2> DEFINE m == ApdexMin * 2 * Len(q)
             lo1 == HowMany(Fast(ApdexT), q)
             lo2 == HowMany(Fast(4 * ApdexT), q)
             w1 == Within(Tally(q), ApdexT)
             w2 == Within(Tally(q), 4 * ApdexT)
             hi1 == HowMany(Faster(ApdexT), q)
             hi2 == HowMany(Faster(4 * ApdexT), q)
  <2>1. lo1 <= w1 /\ w1 <= hi1 /\ {lo1, w1, hi1} \subseteq Nat
    BY <1>1, <1>2, ShownBetween
  <2>2. lo2 <= w2 /\ w2 <= hi2 /\ {lo2, w2, hi2} \subseteq Nat
    BY <1>1, <1>2, ShownBetween
  <2>3. m \in Nat /\ (ApdexMin = 0 => m = 0)
    <3>1. ApdexMin \in Nat /\ Len(q) \in Nat
      BY <1>1, <1>2
    <3>2. ApdexMin * 2 \in Nat /\ (ApdexMin = 0 => ApdexMin * 2 = 0)
      BY <3>1
    <3>3. \A x \in Nat : x * Len(q) \in Nat /\ 0 * Len(q) = 0
      BY <3>1
    <3>4. QED
      BY <3>2, <3>3
  <2>4. Total(Tally(q)) = Len(q) /\ Len(q) > 0
    BY <1>1, TotalCounts DEF q
  <2>5. ApdexBelow(Tally(q), ApdexT, ApdexMin) <=> ApdexT > 0 /\ (w1 + w2) * 100 < m
    BY <2>4 DEF ApdexBelow
  <2>6. "apdex" \in Exceeded(s) <=> ApdexMin > 0 /\ ApdexT > 0 /\ (w1 + w2) * 100 < m
    BY <1>1, <1>3, <2>5
  <2>7. ApdexTold(Exceeded(s), q)
          <=> IF "apdex" \in Exceeded(s) THEN ApdexT > 0 /\ (lo1 + lo2) * 100 < m
              ELSE ApdexT = 0 \/ (hi1 + hi2) * 100 >= m
    BY DEF ApdexTold
  <2> HIDE DEF m, lo1, lo2, w1, w2, hi1, hi2
  <2>8. CASE "apdex" \in Exceeded(s)
    BY <2>1, <2>2, <2>3, <2>6, <2>7, <2>8
  <2>9. CASE "apdex" \notin Exceeded(s)
    <3>1. CASE ApdexMin = 0
      BY <2>1, <2>2, <2>3, <2>7, <2>9, <3>1
    <3>2. CASE ApdexT = 0
      BY <2>7, <2>9, <3>2
    <3>3. CASE ApdexMin # 0 /\ ApdexT # 0
      <4>1. ~ ((w1 + w2) * 100 < m)
        BY <1>2, <2>6, <2>9, <3>3
      <4>2. (hi1 + hi2) * 100 >= m
        BY <2>1, <2>2, <2>3, <4>1
      <4>3. QED
        BY <2>7, <2>9, <4>2
    <3>4. QED
      BY <3>1, <3>2, <3>3
  <2>10. QED
    BY <2>8, <2>9
<1>7. QED
  BY <1>4, <1>5, <1>6 DEF q

(* The rows of the last minutes, each one of the requests of its minute.   *)
Minutes == {Counting(q) : q \in {x \in Seq(Requests) : FinestraMinuti * Len(x) <= Word - 1}}

RowsInv == rows \in Seq(Minutes) /\ Len(rows) = FinestraMinuti

(* They count their requests, few enough.                                  *)
LEMMA MinutesCount ==
  ASSUME NEW r \in Minutes
  PROVE  Good(r) /\ Fits(r)
<1>1. PICK q \in Seq(Requests) : r = Counting(q) /\ FinestraMinuti * Len(q) <= Word - 1
  BY DEF Minutes
<1>2. /\ r.requests = q /\ r.count = Len(q) /\ r.histogram = Tally(q)
      /\ r.errors = HowMany({x \in Requests : x.failed}, q)
  BY <1>1 DEF Counting
<1>3. QED
  BY <1>1, <1>2 DEF Good, Fits

(* The rows that flush writes are such, with or without requests.          *)
LEMMA MinutesHold ==
  /\ NoRow \in Minutes
  /\ \A batch \in Batches : Row(batch) \in Minutes
<1>0. FinestraMinuti \in Nat \ {0} /\ Word \in Nat
  BY AlarmsAssumption, HistogramAssumption
<1>1. NoRow \in Minutes
  BY NoRowCounts, NoneCounted DEF Minutes, Fits, NoRow
<1>2. ASSUME NEW batch \in Batches PROVE Row(batch) \in Minutes
  <2>1. batch \in Seq(Requests) /\ FinestraMinuti * Len(batch) < Word
    BY TrafficAssumption DEF Requests
  <2>2. Len(batch) \in Nat /\ FinestraMinuti * Len(batch) \in Nat
    BY <1>0, <2>1
  <2>3. FinestraMinuti * Len(batch) <= Word - 1
    BY <1>0, <2>1, <2>2
  <2>4. Len(batch) < Word
    <3>1. Len(batch) <= FinestraMinuti * Len(batch)
      BY <1>0, <2>2
    <3>2. QED
      BY <1>0, <2>1, <2>2, <3>1
  <2>5. Row(batch) = Counting(batch)
    BY <2>1, <2>4, RowCounts
  <2>6. QED
    BY <2>1, <2>3, <2>5 DEF Minutes
<1>3. QED
  BY <1>1, <1>2

(* The minutes that are looked at change one at a time.                    *)
LEMMA RowsNext ==
  ASSUME RowsInv, [Next]_vars
  PROVE  RowsInv'
<1>1. ASSUME NEW r \in Minutes, rows' = Append(Tail(rows), r)
      PROVE  RowsInv'
  <2>1. FinestraMinuti \in Nat \ {0}
    BY AlarmsAssumption
  <2>2. Tail(rows) \in Seq(Minutes) /\ Len(Tail(rows)) = FinestraMinuti - 1
    BY <2>1 DEF RowsInv
  <2>3. QED
    BY <1>1, <2>1, <2>2 DEF RowsInv
<1>2. CASE WriteWindow
  BY <1>1, <1>2, MinutesHold DEF WriteWindow
<1>3. CASE LoseWindow
  BY <1>1, <1>3, MinutesHold DEF LoseWindow
<1>4. CASE UNCHANGED rows
  BY <1>4 DEF RowsInv
<1>5. QED
  BY <1>2, <1>3, <1>4 DEF Next, DeclareLosses, TakeStats, Valuta, ValutaFails, Restart, vars

(* Valuta turns on exactly what the last summary with enough requests      *)
(* exceeds, and with few of them leaves the rules of the traffic alone.    *)
LEMMA ValutaTells ==
  ASSUME RowsInv, AlarmsAreTrue, Valuta
  PROVE  AlarmsAreTrue'
<1> DEFINE s == Summary
<1>1. /\ attivi' = Rules(s) \cup Written
      /\ judged' = IF s.count >= MinRequests THEN s.requests ELSE judged
  BY DEF Valuta
<1>2. Written \subseteq {"scrittura delle metriche"}
  BY DEF Written
<1>3. Good(s)
  <2>1. \A i \in 1 .. FinestraMinuti : Good(rows[i]) /\ Fits(rows[i])
    BY MinutesCount DEF RowsInv
  <2>2. QED
    BY <2>1, SummaryCounts
<1> HIDE DEF s
<1>4. CASE ~ (s.count >= MinRequests)
  <2>1. judged' = judged /\ attivi' = attivi \cup Written
    BY <1>1, <1>4 DEF Rules
  <2>2. \A rule \in {"tasso di errore", "apdex", "tempo di risposta"} :
          rule \in attivi' <=> rule \in attivi
    BY <1>2, <2>1
  <2>3. attivi \subseteq {"scrittura delle metriche"}
          => attivi' \subseteq {"scrittura delle metriche"}
    BY <1>2, <2>1
  <2>4. /\ Count(Failed, judged)' = Count(Failed, judged) /\ Len(judged)' = Len(judged)
        /\ \A t : AtMost(t)' = AtMost(t) /\ Before(t)' = Before(t)
    BY <2>1 DEF Count, AtMost, Before
  <2>5. QED
    BY <2>1, <2>2, <2>3, <2>4 DEF AlarmsAreTrue, ErrorsAreTrue, LatencyIsTrue, ApdexIsTrue
<1>5. CASE s.count >= MinRequests
  <2> DEFINE q == s.requests
  <2>1. q \in Seq(Requests) /\ Len(q) \in Nat /\ Len(q) > 0 /\ judged' = q /\ q # <<>>
    BY <1>1, <1>3, <1>5, AlarmsAssumption DEF Good
  <2>2. attivi' = Exceeded(s) \cup (attivi \cap {"scrittura delle metriche"}) \cup Written
    BY <1>1, <1>5 DEF Rules
  <2>3. \A rule \in {"tasso di errore", "apdex", "tempo di risposta"} :
          rule \in attivi' <=> rule \in Exceeded(s)
    BY <1>2, <2>2
  <2>4. ErrorsTold(Exceeded(s), q) /\ LatencyTold(Exceeded(s), q) /\ ApdexTold(Exceeded(s), q)
    BY <1>3, <2>1, RulesTell
  <2>5. ErrorsTold(attivi', q) /\ LatencyTold(attivi', q) /\ ApdexTold(attivi', q)
    BY <2>3, <2>4 DEF ErrorsTold, LatencyTold, ApdexTold
  <2> HIDE DEF q
  <2>6. Count(Failed, judged)' = HowMany({x \in Requests : x.failed}, q)
    BY <2>1, CountsOf DEF Count, Failed
  <2>7. ASSUME NEW t \in Nat
        PROVE  AtMost(t)' = HowMany(Fast(t), q) /\ Before(t)' = HowMany(Faster(t), q)
    BY <2>1, CountsOf DEF Count, AtMost, Before
  <2>8. P95MS \in Nat /\ ApdexT \in Nat /\ 4 * ApdexT \in Nat
    BY AlarmsAssumption
  <2>9. ErrorsAreTrue'
    BY <2>1, <2>5, <2>6 DEF ErrorsAreTrue, ErrorsTold
  <2>10. LatencyIsTrue'
    BY <2>1, <2>5, <2>7, <2>8 DEF LatencyIsTrue, LatencyTold
  <2>11. ApdexIsTrue'
    BY <2>1, <2>5, <2>7, <2>8 DEF ApdexIsTrue, ApdexTold
  <2>12. QED
    BY <2>1, <2>9, <2>10, <2>11 DEF AlarmsAreTrue
<1>6. QED
  BY <1>4, <1>5

(* An alarm is on exactly when the requests of the last summary that had   *)
(* enough of them exceed its threshold, up to the width of a bucket: the   *)
(* rows that the aggregator wrote minute by minute, merged by Summary,     *)
(* read by Percentile and Apdex and compared by Valuta, lose no request    *)
(* and count none twice, whatever the windows lost, the queries that fail  *)
(* and the restarts in between.                                            *)
THEOREM AlarmsTellTheTruth == Spec => []AlarmsAreTrue
<1>1. Init => RowsInv /\ AlarmsAreTrue
  <2> SUFFICES ASSUME Init PROVE RowsInv /\ AlarmsAreTrue
    OBVIOUS
  <2>1. rows = [i \in 1 .. FinestraMinuti |-> NoRow] /\ judged = <<>> /\ attivi = {}
    BY DEF Init, Started
  <2>2. rows \in Seq(Minutes) /\ Len(rows) = FinestraMinuti
    BY <2>1, MinutesHold, AlarmsAssumption
  <2>3. QED
    BY <2>1, <2>2 DEF RowsInv, AlarmsAreTrue
<1>2. RowsInv /\ AlarmsAreTrue /\ [Next]_vars => (RowsInv /\ AlarmsAreTrue)'
  <2> SUFFICES ASSUME RowsInv, AlarmsAreTrue, [Next]_vars PROVE AlarmsAreTrue'
    BY RowsNext
  <2>1. CASE Valuta
    BY <2>1, ValutaTells
  <2>2. CASE Restart
    BY <2>2 DEF Restart, AlarmsAreTrue
  <2>3. CASE UNCHANGED <<attivi, judged>>
    <3>1. /\ Count(Failed, judged)' = Count(Failed, judged) /\ Len(judged)' = Len(judged)
          /\ \A t : AtMost(t)' = AtMost(t) /\ Before(t)' = Before(t)
      BY <2>3 DEF Count, AtMost, Before
    <3>2. QED
      BY <2>3, <3>1 DEF AlarmsAreTrue, ErrorsAreTrue, LatencyIsTrue, ApdexIsTrue
  <2>4. QED
    BY <2>1, <2>2, <2>3
       DEF Next, WriteWindow, LoseWindow, DeclareLosses, TakeStats, ValutaFails, vars, evaluator
<1>3. QED
  BY <1>1, <1>2, PTL DEF Spec
=============================================================================
