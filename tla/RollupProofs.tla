----------------------------- MODULE RollupProofs -----------------------------
(***************************************************************************)
(* Proofs about Rollup, for any transactions, any steps and retentions     *)
(* that Validate accepts, and any bound on lateness and gaps.              *)
(***************************************************************************)
EXTENDS Rollup, TLAPS

(* The types alone, without what TypeOK says of the buckets. *)
Typed ==
  /\ clock \in 0 .. Horizon
  /\ at \in [Txns -> 0 .. Horizon]
  /\ written \subseteq Txns
  /\ rows \in [Tables -> [Txns -> Nat]]
  /\ step \in {"waiting", "reading", "committing"}
  /\ level \in Levels
  /\ now \in 0 .. clock
  /\ unito \in [Txns -> Nat]
  /\ lastNow \in 0 .. now
  /\ seen \subseteq base /\ base \subseteq written

(* What rollupTra has read is counted once, too. *)
UnitoCountedOnce == \A t \in Txns : unito[t] <= (IF t \in written THEN 1 ELSE 0)

(* Coarse rows, and what is about to become one, are of buckets that are   *)
(* over.                                                                   *)
RowsOver == \A l \in Levels, t \in Txns : rows[l][t] > 0 => Stamp(l, t) + Passo(l) <= clock

UnitoOver ==
  step = "committing" =>
    \A t \in Txns : unito[t] > 0 => Stamp(level, t) + Passo(level) <= now

Once == CountedOnce /\ UnitoCountedOnce
Over == RowsOver /\ UnitoOver

-----------------------------------------------------------------------------
(* The arithmetic of the buckets. *)

(* The bucket of a minute that comes before the start of another bucket is *)
(* over when that one starts.                                              *)
LEMMA FloorBelow ==
  ASSUME NEW p \in Nat \ {0}, NEW m \in Nat, NEW n \in Nat, m < Floor(n, p)
  PROVE  Floor(m, p) + p <= Floor(n, p)
<1> DEFINE q == m \div p
           k == n \div p
<1>1. q \in Nat /\ k \in Nat /\ m % p \in 0 .. p - 1 /\ n % p \in 0 .. p - 1
  OBVIOUS
<1>2. m = p * q + (m % p) /\ n = p * k + (n % p)
  OBVIOUS
<1>3. Floor(m, p) = p * q /\ Floor(n, p) = p * k
  BY <1>1, <1>2 DEF Floor
<1>4. p * q < p * k
  BY <1>1, <1>2, <1>3
<1>5. q < k
  BY <1>1, <1>4
<1>6. p * (q + 1) <= p * k
  BY <1>1, <1>5
<1>7. p * (q + 1) = p * q + p
  BY <1>1
<1>8. QED
  BY <1>3, <1>6, <1>7

(* A bucket starts no later than what it contains. *)
LEMMA FloorType ==
  ASSUME NEW p \in Nat \ {0}, NEW m \in Nat
  PROVE  Floor(m, p) \in 0 .. m
<1>1. m % p \in 0 .. p - 1
  OBVIOUS
<1>2. m % p <= m
  <2>1. m \div p \in Nat /\ m = p * (m \div p) + (m % p)
    OBVIOUS
  <2>2. p * (m \div p) >= 0
    BY <2>1
  <2>3. QED
    BY <1>1, <2>1, <2>2
<1>3. QED
  BY <1>1, <1>2 DEF Floor

-----------------------------------------------------------------------------
(* Types. *)

(* The initial state is well typed. *)
LEMMA TypedInit == Init => Typed
BY ConstantsAssumption DEF Init, Typed, Empty, Tables, Levels

(* Every step keeps the types. *)
LEMMA TypedNext == Typed /\ [Next]_vars => Typed'
<1> SUFFICES ASSUME Typed, [Next]_vars
             PROVE  Typed'
  OBVIOUS
<1> USE ConstantsAssumption DEF Typed, manVars, Tables, Levels
<1>1. CASE Tick
  BY <1>1 DEF Tick
<1>2. ASSUME NEW t \in Txns, NEW m \in 0 .. Horizon, WriteWindow(t, m)
      PROVE  Typed'
  BY <1>2 DEF WriteWindow
<1>3. CASE StartRollup
  BY <1>3 DEF StartRollup
<1>4. CASE ReadRows
  <2>1. Source(level) \in Tables
    BY DEF Source
  <2>2. unito' \in [Txns -> Nat]
    BY <1>4, <2>1 DEF ReadRows
  <2>3. QED
    BY <1>4, <2>2 DEF ReadRows
<1>5. CASE CommitRows
  <2>1. \A t \in Txns : Replaced(t) \in Nat
    BY DEF Replaced
  <2>2. rows' \in [Tables -> [Txns -> Nat]]
    BY <1>5, <2>1 DEF CommitRows
  <2>3. QED
    BY <1>5, <2>2 DEF CommitRows
<1>6. CASE RollupFails
  BY <1>6 DEF RollupFails
<1>7. CASE Purge
  <2>1. \A T \in Tables : Kept(T) \in [Txns -> Nat]
    BY DEF Kept
  <2>2. rows' \in [Tables -> [Txns -> Nat]]
    BY <1>7, <2>1 DEF Purge
  <2>3. QED
    BY <1>7, <2>2 DEF Purge
<1>8. CASE UNCHANGED vars
  BY <1>8 DEF vars
<1> QED
  BY <1>1, <1>2, <1>3, <1>4, <1>5, <1>6, <1>7, <1>8 DEF Next

-----------------------------------------------------------------------------
(* No transaction is counted twice. *)

(* Nothing is counted at the start. *)
LEMMA OnceInit == Init => Once
BY DEF Init, Once, CountedOnce, UnitoCountedOnce, Empty, Tables

(* A row is replaced by what its source counts, and never added to.        *)
LEMMA OnceNext ==
  ASSUME Typed, Once, [Next]_vars
  PROVE  Once'
<1> USE ConstantsAssumption DEF Typed, Once, CountedOnce, UnitoCountedOnce, manVars, Tables, Levels
<1>1. CASE Tick
  BY <1>1 DEF Tick
<1>2. ASSUME NEW t \in Txns, NEW m \in 0 .. Horizon, WriteWindow(t, m)
      PROVE  Once'
  <2>1. \A T \in Tables : rows[T][t] = 0
    BY <1>2 DEF WriteWindow
  <2>2. unito[t] = 0
    BY <1>2 DEF WriteWindow
  <2>3. QED
    BY <1>2, <2>1, <2>2 DEF WriteWindow
<1>3. CASE StartRollup
  BY <1>3 DEF StartRollup
<1>4. CASE ReadRows
  <2>1. Source(level) \in Tables
    BY DEF Source
  <2>2. QED
    BY <1>4, <2>1 DEF ReadRows
<1>5. CASE CommitRows
  <2>1. \A t \in Txns : Replaced(t) <= (IF t \in written THEN 1 ELSE 0)
    BY DEF Replaced
  <2>2. QED
    BY <1>5, <2>1 DEF CommitRows
<1>6. CASE RollupFails
  BY <1>6 DEF RollupFails
<1>7. CASE Purge
  <2>1. \A T \in Tables, t \in Txns : Kept(T)[t] <= rows[T][t]
    BY DEF Kept
  <2>2. \A T \in Tables, t \in Txns : rows'[T][t] <= rows[T][t]
    BY <1>7, <2>1 DEF Purge
  <2>3. QED
    <3>1. rows' \in [Tables -> [Txns -> Nat]]
      BY TypedNext
    <3>2. QED
      BY <1>7, <2>2, <3>1 DEF Purge
<1>8. CASE UNCHANGED vars
  BY <1>8 DEF vars
<1> QED
  BY <1>1, <1>2, <1>3, <1>4, <1>5, <1>6, <1>7, <1>8 DEF Next

-----------------------------------------------------------------------------
(* A coarse row is that of a bucket that is over. *)

(* Stamps are minutes, and lead from one table to the next. *)
LEMMA StampType ==
  ASSUME Typed, NEW T \in Tables, NEW t \in Txns
  PROVE  Stamp(T, t) \in Nat
<1> USE ConstantsAssumption DEF Typed
<1>1. at[t] \in Nat /\ Passo5m \in Nat \ {0} /\ Passo1h \in Nat \ {0}
  OBVIOUS
<1> HIDE ConstantsAssumption DEF Typed
<1>2. Stamp5m(t) \in Nat
  BY <1>1, FloorType DEF Stamp5m
<1>3. Floor(Stamp5m(t), Passo1h) \in Nat
  <2>1. Floor(Stamp5m(t), Passo1h) \in 0 .. Stamp5m(t)
    BY <1>1, <1>2, FloorType
  <2>2. QED
    BY <1>2, <2>1
<1>4. QED
  BY <1>1, <1>2, <1>3 DEF Stamp, Tables

(* rollupTra rounds the stamp of the row it reads. *)
LEMMA StampOfSource ==
  ASSUME NEW l \in Levels, NEW t \in Txns
  PROVE  Stamp(l, t) = Floor(Stamp(Source(l), t), Passo(l))
BY DEF Levels, Stamp, Source, Passo, Stamp5m

(* At the start there is no coarse row. *)
LEMMA OverInit == Init => Over
BY DEF Init, Over, RowsOver, UnitoOver, Empty, Tables, Levels

(* What rollupTra reads is of buckets over at the minute it read. *)
LEMMA ReadsOver ==
  ASSUME Typed, NEW t \in Txns, InRange(t)
  PROVE  Stamp(level, t) + Passo(level) <= now
<1> USE ConstantsAssumption DEF Typed
<1>1. Passo(level) \in Nat \ {0} /\ Source(level) \in Tables /\ now \in Nat
  BY DEF Passo, Source, Tables
<1>2. Stamp(Source(level), t) \in Nat
  BY <1>1, StampType
<1>3. Stamp(Source(level), t) < Floor(now, Passo(level))
  BY DEF InRange, Fine
<1>4. Floor(Stamp(Source(level), t), Passo(level)) + Passo(level) <= Floor(now, Passo(level))
  BY <1>1, <1>2, <1>3, FloorBelow
<1>5. Floor(now, Passo(level)) \in 0 .. now
  BY <1>1, FloorType
<1>6. Stamp(level, t) \in Nat /\ level \in Tables
  BY StampType DEF Levels, Tables
<1>7. QED
  BY <1>1, <1>4, <1>5, <1>6, StampOfSource

(* No step changes the minute of a transaction that some table counts. *)
LEMMA StampStays ==
  ASSUME Typed, Once, [Next]_vars, NEW T \in Tables, NEW t \in Txns,
         unito[t] > 0 \/ \E S \in Tables : rows[S][t] > 0
  PROVE  Stamp(T, t)' = Stamp(T, t)
<1>1. t \in written
  BY DEF Typed, Once, CountedOnce, UnitoCountedOnce
<1>2. at'[t] = at[t]
  <2>1. CASE at' = at
    BY <2>1
  <2>2. CASE \E u \in Txns, m \in 0 .. Horizon : WriteWindow(u, m)
    BY <1>1, <2>2 DEF WriteWindow, Typed
  <2>3. QED
    BY <2>1, <2>2
       DEF Next, vars, manVars, Tick, StartRollup, ReadRows, CommitRows, RollupFails, Purge
<1>3. QED
  BY <1>2 DEF Stamp, Stamp5m, Floor

(* No row counts more than it did, or its bucket is over. *)
LEMMA OverNext ==
  ASSUME Typed, Once, Over, [Next]_vars
  PROVE  Over'
<1> USE ConstantsAssumption DEF Typed
<1>0. Typed' /\ clock <= clock'
  <2>1. clock <= clock'
    BY DEF Next, vars, manVars, Tick, WriteWindow, StartRollup, ReadRows, CommitRows,
           RollupFails, Purge
  <2>2. QED
    BY <2>1, TypedNext
<1>1. ASSUME NEW l \in Levels, NEW t \in Txns, rows'[l][t] > 0
      PROVE  (Stamp(l, t) + Passo(l) <= clock)'
  <2> USE DEF Levels, Tables
  <2>1. CASE rows[l][t] > 0
    <3>1. Stamp(l, t) + Passo(l) <= clock
      BY <2>1 DEF Over, RowsOver
    <3>2. Stamp(l, t)' = Stamp(l, t)
      BY <2>1, StampStays
    <3>3. Passo(l) \in Nat /\ Stamp(l, t) \in Nat
      BY StampType DEF Passo
    <3>4. QED
      BY <1>0, <3>1, <3>2, <3>3 DEF Passo
  <2>2. CASE rows[l][t] = 0
    <3>1. CommitRows /\ l = level /\ unito[t] > 0
      <4>1. CASE CommitRows
        BY <1>1, <2>2, <4>1 DEF CommitRows, Replaced
      <4>2. CASE Purge
        BY <1>1, <2>2, <4>2 DEF Purge, Kept
      <4>3. CASE \E u \in Txns, m \in 0 .. Horizon : WriteWindow(u, m)
        BY <1>1, <2>2, <4>3 DEF WriteWindow
      <4>4. CASE rows' = rows
        BY <1>1, <2>2, <4>4
      <4>5. QED
        BY <4>1, <4>2, <4>3, <4>4
           DEF Next, vars, manVars, Tick, StartRollup, ReadRows, RollupFails
    <3>2. Stamp(l, t) + Passo(l) <= now
      BY <3>1 DEF Over, UnitoOver, CommitRows
    <3>3. Stamp(l, t)' = Stamp(l, t)
      BY <3>1, StampStays
    <3>4. Passo(l) \in Nat /\ Stamp(l, t) \in Nat
      BY StampType DEF Passo
    <3>5. QED
      BY <1>0, <3>2, <3>3, <3>4 DEF Passo
  <2>3. QED
    BY <2>1, <2>2
<1>2. ASSUME step' = "committing", NEW t \in Txns, unito'[t] > 0
      PROVE  (Stamp(level, t) + Passo(level) <= now)'
  <2> USE DEF Levels, Tables
  <2>1. CASE ReadRows
    <3>1. InRange(t) /\ rows[Source(level)][t] > 0 /\ Source(level) \in Tables
      BY <1>2, <2>1 DEF ReadRows, Source
    <3>2. Stamp(level, t) + Passo(level) <= now
      BY <3>1, ReadsOver
    <3>3. Stamp(level, t)' = Stamp(level, t)
      BY <2>1 DEF ReadRows, Stamp, Stamp5m
    <3>4. QED
      BY <2>1, <3>2, <3>3 DEF ReadRows, Passo
  <2>2. CASE step = "committing" /\ UNCHANGED <<step, level, now, unito>>
    <3>1. Stamp(level, t) + Passo(level) <= now
      BY <1>2, <2>2 DEF Over, UnitoOver
    <3>2. \A l \in Levels : Stamp(l, t)' = Stamp(l, t)
      BY <1>2, <2>2, StampStays
    <3>3. Stamp(level, t)' = Stamp(level, t)
      BY <2>2, <3>2 DEF Stamp, Stamp5m
    <3>4. QED
      BY <2>2, <3>1, <3>3 DEF Passo
  <2>3. QED
    BY <1>2, <2>1, <2>2
       DEF Next, vars, manVars, Tick, WriteWindow, StartRollup, CommitRows, RollupFails, Purge
<1>3. QED
  BY <1>1, <1>2 DEF Over, RowsOver, UnitoOver

-----------------------------------------------------------------------------
(* The invariant, and what it implies. *)

(* The three together are inductive. *)
LEMMA InvAlways == Spec => [](Typed /\ Once /\ Over)
<1>1. Init => Typed /\ Once /\ Over
  BY TypedInit, OnceInit, OverInit
<1>2. Typed /\ Once /\ Over /\ [Next]_vars => (Typed /\ Once /\ Over)'
  BY TypedNext, OnceNext, OverNext
<1>3. QED
  BY <1>1, <1>2, PTL DEF Spec

(* Every reachable state is well typed, and no coarse row is of a bucket   *)
(* that could still change.                                                *)
THEOREM TypeCorrect == Spec => []TypeOK
<1>1. Typed /\ Once /\ Over => TypeOK
  BY DEF Typed, Over, RowsOver, TypeOK
<1>2. QED
  BY <1>1, InvAlways, PTL

(* Whatever fails, is repeated or comes late, no table counts a            *)
(* transaction twice.                                                      *)
THEOREM RollupIsIdempotent == Spec => []CountedOnce
<1>1. Typed /\ Once /\ Over => CountedOnce
  BY DEF Once
<1>2. QED
  BY <1>1, InvAlways, PTL
-----------------------------------------------------------------------------
(* What the rollup finds where it looks. *)

(* The last minute at which a purge may have run: it shares the goroutine  *)
(* of the rollup, and never runs in the middle of one.                     *)
PurgedAt == IF step = "waiting" THEN clock ELSE now

Held(T, t) == Stamp(T, t) >= PurgedAt - Retention(T)

(* A minute stays for its retention, whatever the rollup does; an hour     *)
(* never outlives the five minutes it was made of while a rollup may read  *)
(* them again; and what was read is still there, all of it that the rows   *)
(* to replace have counted.                                                *)
MinutesKept == \A t \in written : Held("1m", t) => rows["1m"][t] = 1

SourcesKept == \A t \in written : rows["1h"][t] > 0 /\ Held("5m", t) => rows["5m"][t] = 1

ReadsWell ==
  step = "committing" =>
    \A t \in written :
      /\ unito[t] > 0 => InRange(t) /\ rows[Source(level)][t] = 1
      /\ InRange(t) /\ rows[level][t] > 0 => unito[t] = 1

Sources == MinutesKept /\ SourcesKept /\ ReadsWell

(* How late the windows a rollup does not know of can be, and how old the  *)
(* last complete one.                                                      *)
Times ==
  /\ clock - lastNow <= MaxGap
  /\ \A t \in written \ base : at[t] >= now - MaxLate
  /\ \A t \in written \ seen : at[t] >= lastNow - MaxLate

(* The rollup in progress reads all it started from, and what the last     *)
(* complete one was due is there.                                          *)
ReadsAll == step = "committing" => \A t \in base : InRange(t) => unito[t] = 1

FiveFresh ==
  step # "waiting" /\ level = "1h" =>
    \A t \in base :
      Stamp("5m", t) + Passo5m <= now /\ Stamp("5m", t) >= now - Cinque => rows["5m"][t] = 1

DueKept == \A l \in Levels, t \in Txns : Due(l, t) /\ Held(l, t) => rows[l][t] = 1

Complete == MaxLate + MaxGap <= 3 * Passo5m => ReadsAll /\ FiveFresh /\ DueKept
-----------------------------------------------------------------------------
(* Where the buckets are. *)

Grid(p) == {p * k : k \in Int}

(* Floor gives the bucket of a minute. *)
LEMMA GridFloor ==
  ASSUME NEW p \in Nat \ {0}, NEW m \in Nat
  PROVE  Floor(m, p) \in Grid(p) /\ Floor(m, p) \in Int /\ Floor(m, p) <= m /\ m < Floor(m, p) + p
<1> DEFINE k == m \div p
<1>1. k \in Int /\ m % p \in 0 .. p - 1 /\ m = p * k + (m % p)
  OBVIOUS
<1>2. Floor(m, p) = p * k /\ p * k \in Int
  BY <1>1 DEF Floor
<1>3. p * k \in Grid(p)
  BY <1>1 DEF Grid
<1>4. QED
  BY <1>1, <1>2, <1>3

(* Two buckets of a level are one step apart at least. *)
LEMMA GridGap ==
  ASSUME NEW p \in Nat \ {0}, NEW x \in Grid(p), NEW y \in Grid(p), x < y
  PROVE  x + p <= y
<1>1. PICK j \in Int : x = p * j
  BY DEF Grid
<1>2. PICK k \in Int : y = p * k
  BY DEF Grid
<1>3. j < k
  BY <1>1, <1>2
<1>4. p * (j + 1) <= p * k
  BY <1>3
<1>5. p * (j + 1) = p * j + p
  OBVIOUS
<1>6. QED
  BY <1>1, <1>2, <1>4, <1>5

(* The bucket before, and the one after. *)
LEMMA GridShift ==
  ASSUME NEW p \in Nat \ {0}, NEW x \in Grid(p)
  PROVE  x \in Int /\ x + p \in Grid(p) /\ x - p \in Grid(p)
<1>1. PICK k \in Int : x = p * k
  BY DEF Grid
<1>2. p * k \in Int /\ p * (k + 1) = p * k + p /\ p * (k - 1) = p * k - p
  OBVIOUS
<1>3. p * (k + 1) \in Grid(p) /\ p * (k - 1) \in Grid(p)
  <2>1. k + 1 \in Int /\ k - 1 \in Int
    OBVIOUS
  <2>2. QED
    BY <2>1 DEF Grid
<1>4. QED
  BY <1>1, <1>2, <1>3

(* An hour begins where five minutes do. *)
LEMMA GridCoarse == Grid(Passo1h) \subseteq Grid(Passo5m)
<1> USE ConstantsAssumption
<1>1. PICK r \in Int : Passo1h = Passo5m * r
  <2>1. Passo1h \div Passo5m \in Int /\ Passo1h = Passo5m * (Passo1h \div Passo5m) + (Passo1h % Passo5m)
    OBVIOUS
  <2>2. Passo5m * (Passo1h \div Passo5m) \in Int
    BY <2>1
  <2>3. Passo1h = Passo5m * (Passo1h \div Passo5m)
    BY <2>1, <2>2
  <2>4. QED
    BY <2>1, <2>3
<1>2. SUFFICES ASSUME NEW k \in Int
               PROVE  Passo1h * k \in Grid(Passo5m)
  BY DEF Grid
<1>3. Passo1h * k = Passo5m * (r * k) /\ r * k \in Int
  BY <1>1
<1>4. QED
  BY <1>3 DEF Grid

(* The hour is at least twice five minutes: two rows of an hour reach      *)
(* further back than three of five minutes.                                *)
LEMMA HourIsLong == Passo1h >= 2 * Passo5m
<1> USE ConstantsAssumption
<1>1. 1 \in Int /\ Passo5m * 1 = Passo5m /\ Passo1h * 1 = Passo1h
  OBVIOUS
<1>2. Passo5m \in Grid(Passo5m) /\ Passo1h \in Grid(Passo1h)
  BY <1>1 DEF Grid
<1>3. Passo5m + Passo5m <= Passo1h
  BY <1>2, GridCoarse, GridGap
<1>4. QED
  BY <1>3

(* A transaction is in its bucket, at every level. *)
LEMMA InItsBucket ==
  ASSUME Typed, NEW l \in Levels, NEW t \in Txns
  PROVE  /\ Stamp(l, t) \in Grid(Passo(l)) /\ Stamp(l, t) \in Int
         /\ Stamp(Source(l), t) \in Int
         /\ Stamp(l, t) <= Stamp(Source(l), t)
         /\ Stamp(Source(l), t) < Stamp(l, t) + Passo(l)
<1> USE ConstantsAssumption
<1>1. Source(l) \in Tables /\ Passo(l) \in Nat \ {0}
  BY DEF Levels, Tables, Source, Passo
<1>2. Stamp(Source(l), t) \in Nat
  BY <1>1, StampType
<1> DEFINE p == Passo(l)
           m == Stamp(Source(l), t)
<1>3. p \in Nat \ {0} /\ m \in Nat
  BY <1>1, <1>2
<1>4. Stamp(l, t) = Floor(m, p)
  BY StampOfSource
<1> HIDE DEF p, m
<1>5. Floor(m, p) \in Grid(p) /\ Floor(m, p) \in Int /\ Floor(m, p) <= m /\ m < Floor(m, p) + p
  BY <1>3, GridFloor
<1>6. QED
  BY <1>3, <1>4, <1>5 DEF p, m

(* The minute of a transaction is in its bucket too. *)
LEMMA MinuteInBucket ==
  ASSUME Typed, NEW l \in Levels, NEW t \in Txns
  PROVE  at[t] < Stamp(l, t) + Passo(l)
<1> USE ConstantsAssumption DEF Typed
<1>1. at[t] \in Nat /\ "5m" \in Levels /\ "1h" \in Levels
  BY DEF Levels
<1>2. Stamp("5m", t) \in Grid(Passo5m) /\ Stamp("5m", t) \in Int /\ at[t] < Stamp("5m", t) + Passo5m
  <2>1. Source("5m") = "1m" /\ Passo("5m") = Passo5m /\ Stamp("1m", t) = at[t]
    BY DEF Source, Passo, Stamp
  <2>2. QED
    BY <1>1, <2>1, InItsBucket
<1>3. CASE l = "5m"
  BY <1>2, <1>3 DEF Passo
<1>4. CASE l = "1h"
  <2>1. Source("1h") = "5m" /\ Passo("1h") = Passo1h
    BY DEF Source, Passo
  <2>2. /\ Stamp("1h", t) \in Grid(Passo1h) /\ Stamp("1h", t) \in Int
        /\ Stamp("5m", t) < Stamp("1h", t) + Passo1h
    BY <1>1, <2>1, InItsBucket
  <2>3. Stamp("1h", t) + Passo1h \in Grid(Passo5m)
    BY <2>2, GridShift, GridCoarse
  <2>4. Stamp("5m", t) + Passo5m <= Stamp("1h", t) + Passo1h
    BY <1>2, <2>2, <2>3, GridGap
  <2>5. QED
    BY <1>1, <1>2, <1>4, <2>1, <2>2, <2>4
<1>5. QED
  BY <1>3, <1>4 DEF Levels

(* Where the range of the rollup in progress lies. *)
LEMMA RangeOfRollup ==
  ASSUME Typed
  PROVE  /\ Fine(level) \in Grid(Passo(level)) /\ Inizio(level) \in Grid(Passo(level))
         /\ Fine(level) \in Int /\ Inizio(level) \in Int
         /\ Fine(level) <= now /\ now < Fine(level) + Passo(level)
         /\ Inizio(level) + 2 * Passo(level) <= Fine(level)
         /\ level = "5m" => Inizio(level) + 3 * Passo(level) = Fine(level)
         /\ Inizio(level) > now - Retention(Source(level))
<1> USE ConstantsAssumption DEF Typed
<1>1. Passo(level) \in Nat \ {0} /\ now \in Nat
  BY DEF Passo
<1> DEFINE f == Fine(level)
           p == Passo(level)
<1>2. f \in Grid(p) /\ f \in Int /\ f <= now /\ now < f + p
  BY <1>1, GridFloor DEF Fine
<1>3. f - p \in Grid(p) /\ f - p \in Int
  BY <1>1, <1>2, GridShift
<1>4. (f - p) - p \in Grid(p) /\ (f - p) - p \in Int
  BY <1>1, <1>3, GridShift
<1>5. ((f - p) - p) - p \in Grid(p)
  BY <1>1, <1>4, GridShift
<1>6. CASE level = "5m"
  <2>1. p = Passo5m /\ Buckets(level) = 3 /\ Retention(Source(level)) = Minuto
    BY <1>6 DEF Passo, Buckets, Retention, Source
  <2>2. Inizio(level) = f - p * 3
    BY <2>1 DEF Inizio
  <2>3. Inizio(level) = ((f - p) - p) - p
    BY <1>1, <1>2, <2>2
  <2>4. QED
    BY <1>1, <1>2, <1>5, <2>1, <2>3
<1>7. CASE level = "1h"
  <2>1. p = Passo1h /\ Buckets(level) = 2 /\ Retention(Source(level)) = Cinque
    BY <1>7 DEF Passo, Buckets, Retention, Source
  <2>2. Inizio(level) = f - p * 2
    BY <2>1 DEF Inizio
  <2>3. Inizio(level) = (f - p) - p
    BY <1>1, <1>2, <2>2
  <2>4. QED
    BY <1>1, <1>2, <1>4, <1>7, <2>1, <2>3
<1>8. QED
  BY <1>6, <1>7 DEF Levels

(* The rows rollupTra reads are those of whole buckets: what is in one of  *)
(* them is read, and what is not is in none.                               *)
LEMMA ReadsWholeBuckets ==
  ASSUME Typed, NEW t \in Txns
  PROVE  InRange(t) <=>
           Inizio(level) <= Stamp(level, t) /\ Stamp(level, t) + Passo(level) <= now
<1> USE ConstantsAssumption
<1>1. Passo(level) \in Nat \ {0} /\ now \in Nat /\ level \in Levels
  BY DEF Passo, Typed
<1>2. /\ Stamp(level, t) \in Grid(Passo(level)) /\ Stamp(level, t) \in Int
      /\ Stamp(Source(level), t) \in Int
      /\ Stamp(level, t) <= Stamp(Source(level), t)
      /\ Stamp(Source(level), t) < Stamp(level, t) + Passo(level)
  BY <1>1, InItsBucket
<1>3. /\ Fine(level) \in Grid(Passo(level)) /\ Inizio(level) \in Grid(Passo(level))
      /\ Fine(level) \in Int /\ Inizio(level) \in Int
      /\ Fine(level) <= now /\ now < Fine(level) + Passo(level)
  BY RangeOfRollup
<1>4. Stamp(level, t) < Inizio(level) => Stamp(level, t) + Passo(level) <= Inizio(level)
  BY <1>1, <1>2, <1>3, GridGap
<1>5. Stamp(level, t) < Fine(level) => Stamp(level, t) + Passo(level) <= Fine(level)
  BY <1>1, <1>2, <1>3, GridGap
<1> HIDE DEF Stamp, Fine, Inizio, Passo, Source
<1>6. QED
  BY <1>1, <1>2, <1>3, <1>4, <1>5 DEF InRange

(* What rollupTra looks for has not been purged when it starts. *)
LEMMA ReadsBeforePurge ==
  ASSUME Typed, step # "waiting", NEW t \in Txns, InRange(t)
  PROVE  Held(Source(level), t)
<1>1. Inizio(level) > now - Retention(Source(level)) /\ Inizio(level) \in Int
  BY RangeOfRollup
<1>2. Inizio(level) <= Stamp(Source(level), t)
  BY DEF InRange
<1>3. Stamp(Source(level), t) \in Int /\ now \in Int
  BY InItsBucket DEF Typed
<1>4. Retention(Source(level)) \in Int
  BY ConstantsAssumption DEF Retention, Source
<1>5. QED
  BY <1>1, <1>2, <1>3, <1>4 DEF Held, PurgedAt

(* The hour is computed from rows of five minutes that are over. *)
LEMMA HourReadsWholeFives ==
  ASSUME Typed, level = "1h", NEW t \in Txns, InRange(t)
  PROVE  Stamp("5m", t) + Passo5m <= now
<1> USE ConstantsAssumption
<1>1. Passo(level) = Passo1h /\ Source(level) = "5m" /\ "5m" \in Levels /\ Passo("5m") = Passo5m
  BY DEF Passo, Source, Levels
<1>2. Fine(level) \in Grid(Passo1h) /\ Fine(level) \in Int /\ Fine(level) <= now
  BY <1>1, RangeOfRollup
<1>3. Stamp("5m", t) \in Grid(Passo5m) /\ Stamp("5m", t) \in Int
  BY <1>1, InItsBucket
<1>4. Stamp("5m", t) < Fine(level)
  BY <1>1 DEF InRange
<1>5. Stamp("5m", t) + Passo5m <= Fine(level)
  BY <1>2, <1>3, <1>4, GridCoarse, GridGap
<1>6. QED
  BY <1>2, <1>3, <1>5 DEF Typed
-----------------------------------------------------------------------------
(* Only what has expired is ever lost. *)

(* The minute of a transaction, and its buckets, are settled when its      *)
(* window is written.                                                      *)
LEMMA WrittenStays ==
  ASSUME Typed, [Next]_vars, NEW t \in written
  PROVE  /\ t \in written' /\ at'[t] = at[t]
         /\ \A T \in Tables : Stamp(T, t)' = Stamp(T, t)
<1>1. t \in written' /\ at'[t] = at[t]
  <2>1. CASE at' = at /\ written' = written
    BY <2>1
  <2>2. ASSUME NEW u \in Txns, NEW m \in 0 .. Horizon, WriteWindow(u, m)
        PROVE  t \in written' /\ at'[t] = at[t]
    BY <2>2 DEF WriteWindow, Typed
  <2>3. QED
    BY <2>1, <2>2
       DEF Next, vars, manVars, Tick, StartRollup, ReadRows, CommitRows, RollupFails, Purge
<1>2. QED
  BY <1>1 DEF Stamp, Stamp5m, Floor

(* Nor does a window that comes in the middle of a rollup move what the    *)
(* rollup reads.                                                           *)
LEMMA RangeStays ==
  ASSUME Typed, [Next]_vars, UNCHANGED <<level, now>>, NEW t \in written
  PROVE  InRange(t)' <=> InRange(t)
<1>1. Stamp(Source(level), t)' = Stamp(Source(level), t)
  <2>1. Stamp("1m", t)' = Stamp("1m", t) /\ Stamp("5m", t)' = Stamp("5m", t)
    BY WrittenStays DEF Tables
  <2>2. CASE level = "5m"
    BY <2>1, <2>2 DEF Source
  <2>3. CASE level = "1h"
    BY <2>1, <2>3 DEF Source
  <2>4. QED
    BY <2>2, <2>3 DEF Typed, Levels
<1>2. Inizio(level)' = Inizio(level) /\ Fine(level)' = Fine(level)
  BY DEF Inizio, Fine, Passo, Buckets
<1>3. QED
  BY <1>1, <1>2 DEF InRange

(* What a purge may have taken only grows. *)
LEMMA PurgedAtGrows ==
  ASSUME Typed, [Next]_vars
  PROVE  /\ PurgedAt \in Int /\ PurgedAt' \in Int /\ PurgedAt <= PurgedAt'
         /\ PurgedAt <= clock
<1> USE ConstantsAssumption DEF Typed, PurgedAt
<1>1. clock \in Int /\ now \in Int /\ now <= clock /\ step \in {"waiting", "reading", "committing"}
  OBVIOUS
<1>2. CASE Tick
  BY <1>1, <1>2 DEF Tick, manVars
<1>3. CASE StartRollup
  BY <1>1, <1>3 DEF StartRollup
<1>4. CASE ReadRows
  BY <1>1, <1>4 DEF ReadRows
<1>5. CASE CommitRows
  BY <1>1, <1>5 DEF CommitRows
<1>6. CASE RollupFails
  BY <1>1, <1>6 DEF RollupFails
<1>7. CASE UNCHANGED <<clock, step, now>>
  BY <1>1, <1>7
<1>8. QED
  BY <1>2, <1>3, <1>4, <1>5, <1>6, <1>7 DEF Next, vars, manVars, WriteWindow, Purge

(* Retentions are numbers. *)
LEMMA RetentionType == \A T \in Tables : Retention(T) \in Int
BY ConstantsAssumption DEF Tables, Retention

(* What a purge may not take after a step, it could not take before it. *)
LEMMA HeldBefore ==
  ASSUME Typed, [Next]_vars, NEW T \in Tables, NEW t \in written, Held(T, t)'
  PROVE  Held(T, t)
<1>1. Stamp(T, t)' = Stamp(T, t) /\ Retention(T)' = Retention(T)
  BY WrittenStays DEF Retention
<1>2. Stamp(T, t) \in Int
  BY StampType DEF Typed
<1>3. Retention(T) \in Int
  BY RetentionType
<1>4. PurgedAt \in Int /\ PurgedAt' \in Int /\ PurgedAt <= PurgedAt'
  BY PurgedAtGrows
<1>5. Stamp(T, t) >= PurgedAt' - Retention(T)
  BY <1>1 DEF Held
<1>6. QED
  BY <1>2, <1>3, <1>4, <1>5 DEF Held

(* What a purge may take is past its retention. *)
LEMMA NotHeldExpired ==
  ASSUME Typed, step = "waiting", NEW T \in Tables, NEW t \in Txns
  PROVE  Held(T, t) <=> ~ Expired(T, t)
<1>1. Stamp(T, t) \in Int /\ Retention(T) \in Int /\ clock \in Int
  BY StampType, RetentionType DEF Typed
<1>2. QED
  BY <1>1 DEF Held, Expired, PurgedAt

(* A table counts one or nothing. *)
LEMMA CountIsOne ==
  ASSUME Typed, Once, NEW t \in Txns
  PROVE  /\ \A T \in Tables : rows[T][t] \in {0, 1} /\ (rows[T][t] > 0 => t \in written)
         /\ unito[t] \in {0, 1} /\ (unito[t] > 0 => t \in written)
<1>1. \A T \in Tables : rows[T][t] \in Nat /\ rows[T][t] <= (IF t \in written THEN 1 ELSE 0)
  BY DEF Typed, Once, CountedOnce
<1>2. unito[t] \in Nat /\ unito[t] <= (IF t \in written THEN 1 ELSE 0)
  BY DEF Typed, Once, UnitoCountedOnce
<1>3. QED
  BY <1>1, <1>2

(* A row is replaced only when all of its bucket was read. *)
LEMMA TouchedWasRead ==
  ASSUME Typed, Once, ReadsWell, step = "committing", NEW t \in Txns, Touched(t)
  PROVE  InRange(t)
<1>1. PICK u \in Txns : unito[u] > 0 /\ Stamp(level, u) = Stamp(level, t)
  BY DEF Touched
<1>2. InRange(u)
  BY <1>1, CountIsOne DEF ReadsWell
<1>3. QED
  BY <1>1, <1>2, ReadsWholeBuckets

(* The commit of a level loses nothing. *)
LEMMA CommitKeeps ==
  ASSUME Typed, Once, ReadsWell, CommitRows, NEW T \in Tables, NEW t \in Txns, rows[T][t] > 0
  PROVE  rows'[T][t] = 1
<1>1. rows[T][t] = 1 /\ t \in written
  BY CountIsOne
<1>2. T # level => rows'[T][t] = rows[T][t]
  BY DEF CommitRows, Typed, Tables
<1>3. CASE T = level
  <2>1. rows'[level][t] = Replaced(t)
    BY DEF CommitRows, Typed, Levels, Tables
  <2>2. CASE Touched(t)
    <3>1. InRange(t)
      BY <2>2, TouchedWasRead DEF CommitRows
    <3>2. unito[t] = 1
      BY <1>1, <1>3, <3>1 DEF ReadsWell, CommitRows
    <3>3. QED
      BY <1>3, <2>1, <2>2, <3>2 DEF Replaced
  <2>3. CASE ~ Touched(t)
    BY <1>1, <1>3, <2>1, <2>3 DEF Replaced
  <2>4. QED
    BY <2>2, <2>3
<1>4. QED
  BY <1>1, <1>2, <1>3

(* Only a purge takes away, and only what is past its retention. *)
LEMMA ShrinkStep ==
  ASSUME Typed, Once, ReadsWell, [Next]_vars, NEW T \in Tables, NEW t \in Txns,
         rows'[T][t] < rows[T][t]
  PROVE  step = "waiting" /\ Expired(T, t)
<1>0. rows[T][t] \in {0, 1} /\ rows[T][t] \in Nat
  BY CountIsOne
<1>1. CASE CommitRows
  <2>1. rows'[T][t] \in Nat
    BY TypedNext DEF Typed
  <2>2. rows[T][t] > 0
    BY <1>0, <2>1
  <2>3. rows'[T][t] = 1
    BY <1>1, <2>2, CommitKeeps
  <2>4. QED
    BY <1>0, <2>3
<1>2. CASE Purge
  <2>1. rows'[T][t] = rows[T][t] \/ rows'[T][t] = Kept(T)[t]
    BY <1>2 DEF Purge
  <2>2. Kept(T)[t] = rows[T][t] \/ Stamp(T, t) < clock - Retention(T)
    BY DEF Kept, Limite
  <2>3. Stamp(T, t) < clock - Retention(T)
    BY <1>0, <2>1, <2>2
  <2>4. QED
    BY <1>2, <2>3 DEF Purge, Expired
<1>3. ASSUME NEW u \in Txns, NEW m \in 0 .. Horizon, WriteWindow(u, m)
      PROVE  FALSE
  <2>1. rows'[T][t] = rows[T][t] \/ rows'[T][t] = rows[T][t] + 1
    BY <1>3 DEF WriteWindow, Typed, Tables
  <2>2. QED
    BY <1>0, <2>1
<1>4. CASE rows' = rows
  BY <1>0, <1>4
<1>5. QED
  BY <1>1, <1>2, <1>3, <1>4
     DEF Next, vars, manVars, Tick, StartRollup, ReadRows, RollupFails

(* What is counted and held stays. *)
LEMMA HeldStays ==
  ASSUME Typed, Once, ReadsWell, [Next]_vars, NEW T \in Tables, NEW t \in written,
         rows[T][t] = 1, Held(T, t)
  PROVE  rows'[T][t] = 1
<1>1. t \in Txns
  BY DEF Typed
<1>2. rows'[T][t] \in {0, 1}
  <2>1. Typed' /\ Once'
    BY TypedNext, OnceNext
  <2>2. rows'[T][t] \in Nat /\ rows'[T][t] <= (IF t \in written' THEN 1 ELSE 0)
    BY <1>1, <2>1 DEF Typed, Once, CountedOnce
  <2>3. QED
    BY <2>2
<1>3. ~ (rows'[T][t] < rows[T][t])
  BY <1>1, ShrinkStep, NotHeldExpired
<1>4. QED
  BY <1>2, <1>3
(* At the start nothing is written. *)
LEMMA SourcesInit == Init => Sources
BY DEF Init, Sources, MinutesKept, SourcesKept, ReadsWell

(* Minutes stay for their retention. *)
LEMMA MinutesKeptNext ==
  ASSUME Typed, Once, Sources, [Next]_vars
  PROVE  MinutesKept'
<1> USE DEF Tables
<1>1. SUFFICES ASSUME NEW t \in written', Held("1m", t)'
               PROVE  rows'["1m"][t] = 1
  BY DEF MinutesKept
<1>2. CASE t \in written
  <2>1. Held("1m", t)
    BY <1>1, <1>2, HeldBefore
  <2>2. rows["1m"][t] = 1
    BY <1>2, <2>1 DEF Sources, MinutesKept
  <2>3. QED
    BY <1>2, <2>1, <2>2, HeldStays DEF Sources
<1>3. CASE t \notin written
  <2>1. PICK m \in 0 .. Horizon : WriteWindow(t, m)
    BY <1>3
       DEF Next, vars, manVars, Tick, WriteWindow, StartRollup, ReadRows, CommitRows,
           RollupFails, Purge
  <2>2. t \in Txns /\ rows["1m"][t] = 0
    <3>1. t \in Txns
      BY TypedNext DEF Typed
    <3>2. QED
      BY <1>3, <3>1, CountIsOne
  <2>3. QED
    BY <2>1, <2>2 DEF WriteWindow, Typed
<1>4. QED
  BY <1>2, <1>3

(* An hour never outlives its five minutes. *)
LEMMA SourcesKeptNext ==
  ASSUME Typed, Once, Sources, [Next]_vars
  PROVE  SourcesKept'
<1> USE DEF Tables
<1>1. SUFFICES ASSUME NEW t \in written', rows'["1h"][t] > 0, Held("5m", t)'
               PROVE  rows'["5m"][t] = 1
  BY DEF SourcesKept
<1>2. t \in Txns
  BY TypedNext DEF Typed
<1>3. CASE rows["1h"][t] > 0
  <2>1. t \in written
    BY <1>2, <1>3, CountIsOne
  <2>2. Held("5m", t)
    BY <1>1, <2>1, HeldBefore
  <2>3. rows["5m"][t] = 1
    BY <1>3, <2>1, <2>2 DEF Sources, SourcesKept
  <2>4. QED
    BY <2>1, <2>2, <2>3, HeldStays DEF Sources
<1>4. CASE ~ (rows["1h"][t] > 0)
  <2>1. CommitRows /\ level = "1h" /\ unito[t] > 0
    <3>1. rows["1h"][t] = 0
      BY <1>2, <1>4, CountIsOne
    <3>2. CASE CommitRows
      BY <1>1, <1>2, <3>1, <3>2 DEF CommitRows, Replaced, Typed
    <3>3. CASE Purge
      BY <1>1, <1>2, <3>1, <3>3 DEF Purge, Kept
    <3>4. CASE \E u \in Txns, m \in 0 .. Horizon : WriteWindow(u, m)
      BY <1>1, <3>1, <3>4 DEF WriteWindow, Typed
    <3>5. CASE rows' = rows
      BY <1>1, <3>1, <3>5
    <3>6. QED
      BY <3>2, <3>3, <3>4, <3>5
         DEF Next, vars, manVars, Tick, StartRollup, ReadRows, RollupFails
  <2>2. t \in written /\ step = "committing"
    BY <1>2, <2>1, CountIsOne DEF CommitRows
  <2>3. rows["5m"][t] = 1
    BY <2>1, <2>2 DEF Sources, ReadsWell, Source
  <2>4. QED
    BY <1>2, <2>1, <2>3, CommitKeeps DEF Sources
<1>5. QED
  BY <1>3, <1>4

(* What was read is there, and is all that the rows to replace count. *)
LEMMA ReadsWellNext ==
  ASSUME Typed, Once, Sources, [Next]_vars
  PROVE  ReadsWell'
<1> USE DEF Tables
<1>0. SUFFICES ASSUME step' = "committing"
               PROVE  \A t \in written' :
                        /\ unito'[t] > 0 => InRange(t)' /\ rows'[Source(level)'][t] = 1
                        /\ InRange(t)' /\ rows'[level'][t] > 0 => unito'[t] = 1
  BY DEF ReadsWell
<1>1. CASE ReadRows
  <2>1. SUFFICES ASSUME NEW t \in written
                 PROVE  /\ unito'[t] > 0 => InRange(t) /\ rows[Source(level)][t] = 1
                        /\ InRange(t) /\ rows[level][t] > 0 => unito'[t] = 1
    BY <1>1 DEF ReadRows, InRange, Inizio, Fine, Passo, Buckets, Source, Stamp, Stamp5m
  <2>2. t \in Txns /\ level \in Tables /\ Source(level) \in Tables /\ step # "waiting"
    BY <1>1, <2>1 DEF Typed, Levels, Source, ReadRows
  <2>3. unito'[t] = IF InRange(t) THEN rows[Source(level)][t] ELSE 0
    BY <1>1, <2>2 DEF ReadRows
  <2>4. rows[Source(level)][t] \in {0, 1}
    BY <2>2, CountIsOne
  <2>5. ASSUME InRange(t), rows[level][t] > 0
        PROVE  rows[Source(level)][t] = 1
    <3>1. Held(Source(level), t)
      BY <2>2, <2>5, ReadsBeforePurge
    <3>2. CASE level = "5m"
      BY <2>1, <3>1, <3>2 DEF Sources, MinutesKept, Source
    <3>3. CASE level = "1h"
      BY <2>1, <2>5, <3>1, <3>3 DEF Sources, SourcesKept, Source
    <3>4. QED
      BY <3>2, <3>3 DEF Typed, Levels
  <2>6. QED
    BY <2>3, <2>4, <2>5
<1>2. CASE step = "committing" /\ UNCHANGED <<level, now, unito>> /\ ~ Purge /\ ~ CommitRows
  <2>1. SUFFICES ASSUME NEW t \in written'
                 PROVE  /\ unito[t] > 0 => InRange(t)' /\ rows'[Source(level)][t] = 1
                        /\ InRange(t)' /\ rows'[level][t] > 0 => unito[t] = 1
    BY <1>2 DEF Source
  <2>2. t \in Txns /\ level \in Levels /\ level \in Tables /\ Source(level) \in Tables
    BY TypedNext DEF Typed, Levels, Source
  <2>3. CASE t \in written
    <3>1. /\ unito[t] > 0 => InRange(t) /\ rows[Source(level)][t] = 1
          /\ InRange(t) /\ rows[level][t] > 0 => unito[t] = 1
      BY <1>2, <2>3 DEF Sources, ReadsWell
    <3>2. \A T \in Tables : rows'[T][t] = rows[T][t]
      <4>1. CASE rows' = rows
        BY <4>1
      <4>2. ASSUME NEW u \in Txns, NEW m \in 0 .. Horizon, WriteWindow(u, m)
            PROVE  \A T \in Tables : rows'[T][t] = rows[T][t]
        BY <2>3, <4>2 DEF WriteWindow, Typed
      <4>3. QED
        BY <1>2, <4>1, <4>2
           DEF Next, vars, manVars, Tick, StartRollup, ReadRows, RollupFails
    <3>3. InRange(t)' <=> InRange(t)
      BY <1>2, <2>3, RangeStays
    <3>4. QED
      BY <2>2, <3>1, <3>2, <3>3
  <2>4. CASE t \notin written
    <3>1. unito[t] = 0 /\ rows[level][t] = 0
      BY <2>2, <2>4, CountIsOne
    <3>2. rows'[level][t] = 0
      <4>1. CASE rows' = rows
        BY <3>1, <4>1
      <4>2. ASSUME NEW u \in Txns, NEW m \in 0 .. Horizon, WriteWindow(u, m)
            PROVE  rows'[level][t] = 0
        BY <2>2, <3>1, <4>2 DEF WriteWindow, Typed, Levels
      <4>3. QED
        BY <1>2, <4>1, <4>2
           DEF Next, vars, manVars, Tick, StartRollup, ReadRows, RollupFails
    <3>3. QED
      BY <3>1, <3>2
  <2>5. QED
    BY <2>3, <2>4
<1>3. ~ Purge /\ ~ CommitRows
  BY <1>0 DEF Purge, CommitRows, manVars
<1>4. QED
  BY <1>0, <1>1, <1>2, <1>3
     DEF Next, vars, manVars, Tick, WriteWindow, StartRollup, RollupFails

(* The four together are inductive. *)
LEMMA SourcesNext ==
  ASSUME Typed, Once, Sources, [Next]_vars
  PROVE  Sources'
BY MinutesKeptNext, SourcesKeptNext, ReadsWellNext DEF Sources

(* Every reachable state has the sources of the rows it may replace. *)
LEMMA SourcesAlways == Spec => []Sources
<1>1. Init => Sources
  BY SourcesInit
<1>2. Typed /\ Once /\ Sources /\ [Next]_vars => Sources'
  BY SourcesNext
<1>3. QED
  BY <1>1, <1>2, InvAlways, PTL DEF Spec

(* Whatever of its source the purge has already taken, a row computed      *)
(* again keeps all it had: the four hours of minutes and the days of five  *)
(* minutes Validate asks for reach further back than rollupTra does, and   *)
(* Purge is the only way out of a table.                                   *)
THEOREM RowsNeverShrink == Spec => NeverShrinks
<1>1. Typed /\ Once /\ Sources /\ [Next]_vars
        => [\A T \in Tables, t \in Txns : rows'[T][t] < rows[T][t] => Expired(T, t)]_vars
  BY ShrinkStep DEF Sources
<1>2. QED
  BY <1>1, InvAlways, SourcesAlways, PTL DEF Spec, NeverShrinks
-----------------------------------------------------------------------------
(* What the pages find. *)

(* A window comes no later than the bound, and a rollup that is due is not *)
(* put off for ever: the clock of the model says so.                       *)
LEMMA TimesInit == Init => Times
BY ConstantsAssumption DEF Init, Times

(* Every step keeps them. *)
LEMMA TimesNext ==
  ASSUME Typed, Times, [Next]_vars
  PROVE  Times'
<1> USE ConstantsAssumption DEF Times
<1>0. clock \in Nat /\ now \in Nat /\ lastNow \in Nat /\ now <= clock /\ lastNow <= now
  BY DEF Typed
<1>1. CASE Tick
  <2>1. clock' - lastNow' <= MaxGap
    <3>1. clock + 1 - lastNow <= MaxGap /\ clock' = clock + 1 /\ lastNow' = lastNow
      BY <1>1 DEF Tick, manVars
    <3> HIDE ConstantsAssumption DEF Times
    <3>2. MaxGap \in Int
      BY ConstantsAssumption
    <3>3. QED
      BY <1>0, <3>1, <3>2
  <2>2. UNCHANGED <<at, written, now, base, lastNow, seen>>
    BY <1>1 DEF Tick, manVars
  <2>3. QED
    BY <2>1, <2>2
<1>2. ASSUME NEW u \in Txns, NEW m \in 0 .. Horizon, WriteWindow(u, m)
      PROVE  Times'
  <2>1. /\ at'[u] = m /\ m >= clock - MaxLate
        /\ \A t \in written : at'[t] = at[t]
        /\ written' = written \cup {u}
        /\ UNCHANGED <<clock, now, base, lastNow, seen>>
    BY <1>2 DEF WriteWindow, manVars, Typed
  <2>2. at'[u] >= now - MaxLate /\ at'[u] >= lastNow - MaxLate
    BY <1>0, <2>1
  <2>3. QED
    BY <2>1, <2>2
<1>3. CASE StartRollup
  BY <1>3 DEF StartRollup
<1>4. CASE ReadRows
  BY <1>4 DEF ReadRows
<1>5. CASE CommitRows
  <2>1. UNCHANGED <<clock, now, base, at, written>>
    BY <1>5 DEF CommitRows
  <2>2. (lastNow' = lastNow /\ seen' = seen) \/ (lastNow' = now /\ seen' = base)
    BY <1>5 DEF CommitRows
  <2>3. QED
    BY <1>0, <2>1, <2>2
<1>6. CASE RollupFails
  BY <1>6 DEF RollupFails
<1>7. CASE Purge \/ UNCHANGED vars
  BY <1>7 DEF Purge, vars, manVars
<1>8. QED
  BY <1>1, <1>2, <1>3, <1>4, <1>5, <1>6, <1>7 DEF Next

(* A bucket too old for the rollup in progress was due to the last         *)
(* complete one: it was over by then, and all it counts was written.       *)
LEMMA TooOldWasDue ==
  ASSUME Typed, Times, MaxLate + MaxGap <= 3 * Passo5m, NEW t \in base,
         Stamp(level, t) < Inizio(level)
  PROVE  Due(level, t)
<1> USE ConstantsAssumption
<1>1. /\ level \in Levels /\ t \in Txns /\ Passo(level) \in Nat \ {0}
      /\ now \in Nat /\ lastNow \in Nat /\ clock \in Nat /\ at[t] \in Nat
      /\ now <= clock /\ t \in written
  BY DEF Typed, Passo
<1> DEFINE p == Passo(level)
           s == Stamp(level, t)
           i == Inizio(level)
<1>2. s \in Grid(p) /\ s \in Int
  BY <1>1, InItsBucket
<1>3. i \in Grid(p) /\ i \in Int
  BY RangeOfRollup
<1>4. s + p <= i
  BY <1>1, <1>2, <1>3, GridGap
<1>5. i + 3 * Passo5m <= now
  <2>1. Fine(level) \in Int /\ Fine(level) <= now /\ i + 2 * p <= Fine(level)
    BY RangeOfRollup
  <2>2. CASE level = "5m"
    <3>1. p = Passo5m /\ i + 3 * p = Fine(level)
      BY <2>2, RangeOfRollup DEF Passo
    <3>2. QED
      BY <1>1, <1>3, <2>1, <3>1
  <2>3. CASE level = "1h"
    <3>1. p = Passo1h /\ Passo1h >= 2 * Passo5m
      BY <2>3, HourIsLong DEF Passo
    <3>2. QED
      BY <1>1, <1>3, <2>1, <3>1
  <2>4. QED
    BY <1>1, <2>2, <2>3 DEF Levels
<1>6. now <= lastNow + MaxGap
  BY <1>1 DEF Times
<1>7. s + p <= lastNow - MaxLate
  BY <1>1, <1>2, <1>3, <1>4, <1>5, <1>6
<1>8. at[t] < s + p
  BY <1>1, MinuteInBucket
<1>9. t \in seen
  <2>1. ~ (at[t] >= lastNow - MaxLate)
    BY <1>1, <1>2, <1>7, <1>8
  <2>2. QED
    BY <1>1, <2>1 DEF Times
<1>10. s + p <= lastNow
  BY <1>1, <1>2, <1>7
<1>11. QED
  BY <1>9, <1>10 DEF Due

(* After the commit of a level, all that its buckets were due is there. *)
LEMMA CommitGives ==
  ASSUME Typed, Once, Sources, Times, MaxLate + MaxGap <= 3 * Passo5m, ReadsAll, DueKept,
         CommitRows, NEW t \in base,
         Stamp(level, t) + Passo(level) <= now, Held(level, t)
  PROVE  rows'[level][t] = 1
<1>1. t \in Txns /\ level \in Levels /\ step = "committing"
  BY DEF Typed, CommitRows
<1>2. rows'[level][t] = Replaced(t)
  BY <1>1 DEF CommitRows, Typed, Levels, Tables
<1>3. CASE InRange(t)
  <2>1. unito[t] = 1
    BY <1>1, <1>3 DEF ReadsAll
  <2>2. Touched(t)
    BY <1>1, <2>1 DEF Touched
  <2>3. QED
    BY <1>2, <2>1, <2>2 DEF Replaced
<1>4. CASE ~ InRange(t)
  <2>1. ~ Touched(t)
    BY <1>1, <1>4, TouchedWasRead DEF Sources
  <2>2. Stamp(level, t) < Inizio(level)
    <3>1. Stamp(level, t) \in Int /\ Inizio(level) \in Int
      BY <1>1, InItsBucket, RangeOfRollup
    <3>2. ~ (Inizio(level) <= Stamp(level, t))
      BY <1>1, <1>4, ReadsWholeBuckets
    <3>3. QED
      BY <3>1, <3>2
  <2>3. Due(level, t)
    BY <2>2, TooOldWasDue
  <2>4. rows[level][t] = 1
    BY <1>1, <2>3 DEF DueKept
  <2>5. QED
    BY <1>2, <2>1, <2>4 DEF Replaced
<1>5. QED
  BY <1>3, <1>4

(* At the start no rollup has completed. *)
LEMMA CompleteInit == Init => Complete
BY DEF Init, Complete, ReadsAll, FiveFresh, DueKept, Due
(* The rollup in progress reads all it started from. *)
LEMMA ReadsAllNext ==
  ASSUME Typed, Once, Sources, [Next]_vars, ReadsAll, FiveFresh
  PROVE  ReadsAll'
<1> USE DEF Tables
<1>1. CASE ReadRows
  <2>1. SUFFICES ASSUME NEW t \in base, InRange(t)
                 PROVE  unito'[t] = 1
    BY <1>1 DEF ReadsAll, ReadRows, InRange, Inizio, Fine, Passo, Buckets, Source, Stamp, Stamp5m
  <2>2. t \in Txns /\ t \in written /\ step # "waiting"
    BY <1>1 DEF Typed, ReadRows
  <2>3. unito'[t] = rows[Source(level)][t]
    BY <1>1, <2>1, <2>2 DEF ReadRows
  <2>4. Held(Source(level), t)
    BY <2>1, <2>2, ReadsBeforePurge
  <2>5. CASE level = "5m"
    BY <2>2, <2>3, <2>4, <2>5 DEF Sources, MinutesKept, Source
  <2>6. CASE level = "1h"
    <3>1. Source(level) = "5m" /\ Stamp("5m", t) >= now - Cinque
      BY <2>2, <2>4, <2>6 DEF Source, Held, PurgedAt, Retention
    <3>2. Stamp("5m", t) + Passo5m <= now
      BY <2>1, <2>2, <2>6, HourReadsWholeFives
    <3>3. QED
      BY <2>2, <2>3, <2>6, <3>1, <3>2 DEF FiveFresh
  <2>7. QED
    BY <2>5, <2>6 DEF Typed, Levels
<1>2. CASE step = "committing" /\ UNCHANGED <<level, now, unito, base>>
  <2>1. SUFFICES ASSUME NEW t \in base, InRange(t)'
                 PROVE  unito[t] = 1
    BY <1>2 DEF ReadsAll
  <2>2. t \in written
    BY DEF Typed
  <2>3. InRange(t)
    BY <1>2, <2>1, <2>2, RangeStays
  <2>4. QED
    BY <1>2, <2>3 DEF ReadsAll
<1>3. CASE step' # "committing"
  BY <1>3 DEF ReadsAll
<1>4. QED
  BY <1>1, <1>2, <1>3
     DEF Next, vars, manVars, Tick, WriteWindow, StartRollup, CommitRows, RollupFails, Purge

(* The rows of five minutes an hour is computed from are there. *)
LEMMA FiveFreshNext ==
  ASSUME Typed, Once, Sources, Times, [Next]_vars, MaxLate + MaxGap <= 3 * Passo5m,
         ReadsAll, FiveFresh, DueKept
  PROVE  FiveFresh'
<1> USE DEF Tables
<1>1. SUFFICES ASSUME step' # "waiting", level' = "1h", NEW t \in base',
                      Stamp("5m", t)' + Passo5m <= now', Stamp("5m", t)' >= now' - Cinque
               PROVE  rows'["5m"][t] = 1
  BY DEF FiveFresh
<1>2. step # "waiting" /\ UNCHANGED <<now, base>> /\ (level = "1h" \/ (level = "5m" /\ CommitRows))
  BY <1>1
     DEF Next, vars, manVars, Tick, WriteWindow, StartRollup, ReadRows, CommitRows, RollupFails,
         Purge, Typed, Levels
<1>3. t \in base /\ t \in written
  BY <1>1, <1>2 DEF Typed
<1>4. Stamp("5m", t) + Passo5m <= now /\ Stamp("5m", t) >= now - Cinque
  BY <1>1, <1>2, <1>3, WrittenStays
<1>5. Held("5m", t)
  BY <1>2, <1>4 DEF Held, PurgedAt, Retention
<1>6. CASE level = "1h"
  <2>1. rows["5m"][t] = 1
    BY <1>2, <1>3, <1>4, <1>6 DEF FiveFresh
  <2>2. QED
    BY <1>3, <1>5, <2>1, HeldStays DEF Sources
<1>7. CASE level = "5m" /\ CommitRows
  BY <1>3, <1>4, <1>5, <1>7, CommitGives DEF Passo
<1>8. QED
  BY <1>2, <1>6, <1>7

(* What the last complete rollup was due stays, until it expires. *)
LEMMA DueKeptNext ==
  ASSUME Typed, Once, Sources, Times, [Next]_vars, MaxLate + MaxGap <= 3 * Passo5m,
         ReadsAll, FiveFresh, DueKept
  PROVE  DueKept'
<1> USE DEF Tables
<1>1. SUFFICES ASSUME NEW l \in Levels, NEW t \in Txns, Due(l, t)', Held(l, t)'
               PROVE  rows'[l][t] = 1
  BY DEF DueKept
<1>2. l \in Tables
  BY DEF Levels
<1>3. CASE UNCHANGED <<seen, lastNow>>
  <2>1. t \in seen /\ t \in written
    BY <1>1, <1>3 DEF Due, Typed
  <2>2. Due(l, t)
    BY <1>1, <1>2, <1>3, <2>1, WrittenStays DEF Due, Passo
  <2>3. Held(l, t)
    BY <1>1, <1>2, <2>1, HeldBefore
  <2>4. rows[l][t] = 1
    BY <2>2, <2>3 DEF DueKept
  <2>5. QED
    BY <1>2, <2>1, <2>3, <2>4, HeldStays DEF Sources
<1>4. CASE CommitRows /\ level = "1h" /\ lastNow' = now /\ seen' = base
  <2>1. t \in base /\ t \in written
    BY <1>1, <1>4 DEF Due, Typed
  <2>2. Stamp(l, t) + Passo(l) <= now
    BY <1>1, <1>2, <1>4, <2>1, WrittenStays DEF Due, Passo
  <2>3. Held(l, t)
    BY <1>1, <1>2, <2>1, HeldBefore
  <2>4. CASE l = "1h"
    BY <1>4, <2>1, <2>2, <2>3, <2>4, CommitGives
  <2>5. CASE l = "5m"
    <3>1. step # "waiting"
      BY <1>4 DEF CommitRows
    <3>2. Stamp("5m", t) + Passo5m <= now /\ Stamp("5m", t) >= now - Cinque
      BY <2>2, <2>3, <2>5, <3>1 DEF Passo, Held, PurgedAt, Retention
    <3>3. rows["5m"][t] = 1
      BY <1>4, <2>1, <3>1, <3>2 DEF FiveFresh
    <3>4. QED
      BY <2>1, <2>3, <2>5, <3>3, HeldStays DEF Sources
  <2>6. QED
    BY <2>4, <2>5 DEF Levels
<1>5. QED
  BY <1>3, <1>4
     DEF Next, vars, manVars, Tick, WriteWindow, StartRollup, ReadRows, CommitRows, RollupFails,
         Purge

(* The completeness of the rollup is inductive. *)
LEMMA CompleteNext ==
  ASSUME Typed, Once, Sources, Times, Complete, [Next]_vars
  PROVE  Complete'
<1>1. SUFFICES ASSUME MaxLate + MaxGap <= 3 * Passo5m
               PROVE  ReadsAll' /\ FiveFresh' /\ DueKept'
  BY DEF Complete
<1>2. ReadsAll /\ FiveFresh /\ DueKept
  BY <1>1 DEF Complete
<1>3. QED
  BY <1>1, <1>2, ReadsAllNext, FiveFreshNext, DueKeptNext

(* A page finds what it asks for in the table it is sent to. *)
LEMMA PagesFind ==
  ASSUME Typed, Sources, Complete
  PROVE  PagesMissNothing
<1> USE DEF Tables
<1>1. SUFFICES ASSUME MaxLate + MaxGap <= 3 * Passo5m, NEW since \in 0 .. clock, NEW T,
                      T = TabellaPer(since), NEW t \in written,
                      Stamp(T, t) >= since, ~ Expired("1h", t), T # "1m" => Due(T, t)
               PROVE  rows[T][t] = 1
  BY DEF PagesMissNothing
<1>2. t \in Txns /\ clock \in Int /\ now \in Int /\ now <= clock /\ since \in Int
  BY DEF Typed
<1>3. PurgedAt \in Int /\ PurgedAt <= clock
  BY <1>2 DEF PurgedAt
<1>4. \A S \in Tables : Stamp(S, t) \in Int /\ Retention(S) \in Int
  BY <1>2, StampType, RetentionType
<1>5. CASE T = "1m"
  <2>1. clock - since <= Retention("1m")
    BY <1>1, <1>5 DEF TabellaPer, Retention
  <2>2. Held("1m", t)
    BY <1>1, <1>2, <1>3, <1>4, <1>5, <2>1 DEF Held
  <2>3. QED
    BY <1>5, <2>2 DEF Sources, MinutesKept
<1>6. CASE T = "5m"
  <2>1. clock - since <= Retention("5m")
    BY <1>1, <1>6 DEF TabellaPer, Retention
  <2>2. Held("5m", t)
    BY <1>1, <1>2, <1>3, <1>4, <1>6, <2>1 DEF Held
  <2>3. QED
    BY <1>1, <1>2, <1>6, <2>2 DEF Complete, DueKept, Levels
<1>7. CASE T = "1h"
  <2>1. Held("1h", t)
    BY <1>1, <1>2, <1>3, <1>4 DEF Held, Expired
  <2>2. QED
    BY <1>1, <1>2, <1>7, <2>1 DEF Complete, DueKept, Levels
<1>8. QED
  BY <1>1, <1>5, <1>6, <1>7 DEF TabellaPer

(* The page of any interval still finds, in the table tabellaPer sends it  *)
(* to, all that table was given of it: Validate leaves no hole between a   *)
(* resolution and the next, and three rows of five minutes and two of an   *)
(* hour are enough for a rollup to make up for the windows that come late  *)
(* and for the rollups that failed or were stopped half way.               *)
THEOREM NoHoleInThePages == Spec => []PagesMissNothing
<1>1. Init => Times /\ Complete
  BY TimesInit, CompleteInit
<1>2. Typed /\ Once /\ Sources /\ Times /\ Complete /\ [Next]_vars => (Times /\ Complete)'
  BY TimesNext, CompleteNext
<1>3. Typed /\ Sources /\ Complete => PagesMissNothing
  BY PagesFind
<1>4. QED
  BY <1>1, <1>2, <1>3, InvAlways, SourcesAlways, PTL DEF Spec
=============================================================================
