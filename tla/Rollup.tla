------------------------------- MODULE Rollup -------------------------------
(***************************************************************************)
(* The three resolutions of the metrics in the database: the minutes that  *)
(* WriteWindow writes, and the buckets of five minutes and of an hour that *)
(* the maintenance goroutine of cmd/orma computes from them (Rollup) and   *)
(* prunes (Purge), with the choice of table the pages make (tabellaPer).   *)
(*                                                                         *)
(* The rows of one series are followed, by the transactions they sum up: a *)
(* table tells how many times each transaction is counted in it.  A row    *)
(* exists exactly when it counts something.                                *)
(***************************************************************************)
EXTENDS Integers, FiniteSets

CONSTANTS
  Txns,
  Passo5m,   \* minutes of a row of metrics_5m
  Passo1h,   \* minutes of a row of metrics_1h
  Minuto,    \* Retention.Minuto, in minutes
  Cinque,    \* Retention.Cinque
  Ora,       \* Retention.Ora
  MaxLate,   \* bound: age of a minute when its window is written
  MaxGap,    \* bound: time between two complete rollups, stops included
  Horizon    \* bound: the clock stops at this minute

(* The hour is made of several times five minutes.  What config.Validate   *)
(* asks of the retentions, in the unit of the steps: at least an hour, at  *)
(* least a day, each level covering the one before.                        *)
ASSUME ConstantsAssumption ==
  /\ Passo5m \in Nat \ {0} /\ Passo1h \in Nat \ {0}
  /\ Passo1h % Passo5m = 0 /\ Passo1h > Passo5m
  /\ {Minuto, Cinque, Ora, MaxLate, MaxGap, Horizon} \subseteq Nat
  /\ Minuto > 4 * Passo5m /\ Cinque >= Minuto
  /\ Cinque > 3 * Passo1h /\ Ora >= Cinque

Tables == {"1m", "5m", "1h"}
Levels == {"5m", "1h"}

VARIABLES
  clock,    \* minute of time.Now()
  at,       \* minute of each transaction written
  written,  \* transactions of the windows written so far
  rows,     \* rows[T][t]: how many times table T counts t
  step,     \* of manutenzione: "waiting", "reading", "committing"
  level,    \* table rollupTra is computing
  now,      \* minute Rollup has read from the clock
  unito,    \* its local map, as a table
  base,     \* written when the rollup in progress began
  lastNow,  \* now of the last rollup that completed
  seen      \* its base

manVars == <<step, level, now, unito, base, lastNow, seen>>
vars == <<clock, at, written, rows, manVars>>

Source(l) == IF l = "5m" THEN "1m" ELSE "5m"
Passo(l) == IF l = "5m" THEN Passo5m ELSE Passo1h
BucketsTwo(l) == 2
Buckets(l) == IF l = "5m" THEN 3 ELSE 2

Floor(m, p) == m - (m % p)

(* bucket_ts of the row of a table that counts t. *)
Stamp5m(t) == Floor(at[t], Passo5m)
Stamp(T, t) ==
  CASE T = "1m" -> at[t]
    [] T = "5m" -> Stamp5m(t)
    [] T = "1h" -> Floor(Stamp5m(t), Passo1h)

Empty == [t \in Txns |-> 0]

Init ==
  /\ clock = 0
  /\ at = [t \in Txns |-> 0]
  /\ written = {}
  /\ rows = [T \in Tables |-> Empty]
  /\ step = "waiting" /\ level = "5m" /\ now = 0 /\ unito = Empty
  /\ base = {} /\ lastNow = 0 /\ seen = {}

(* The bound on the gap: the clock waits for a rollup that is due. *)
Tick ==
  /\ clock < Horizon
  /\ clock + 1 - lastNow <= MaxGap
  /\ clock' = clock + 1
  /\ UNCHANGED <<at, written, rows, manVars>>

(* WriteWindow merges a window into the row of its minute.  The window is  *)
(* that of the start of the request, over when it is written.  The one     *)
(* connection lets it in between any two statements of the maintenance.    *)
WriteWindow(t, m) ==
  /\ t \notin written
  /\ m < clock /\ clock - m <= MaxLate
  /\ at' = [at EXCEPT ![t] = m]
  /\ written' = written \cup {t}
  /\ rows' = [rows EXCEPT !["1m"][t] = @ + 1]
  /\ UNCHANGED <<clock, manVars>>

-----------------------------------------------------------------------------
(* Rollup, on the goroutine of the maintenance. *)

StartRollup ==
  /\ step = "waiting"
  /\ step' = "reading" /\ level' = "5m"
  /\ now' = clock
  /\ base' = written
  /\ UNCHANGED <<clock, at, written, rows, unito, lastNow, seen>>

FineOpen(l) == Floor(now, Passo(l)) + Passo(l)

(* Only buckets that are over. *)
Fine(l) == Floor(now, Passo(l))
Inizio(l) == Fine(l) - Passo(l) * Buckets(l)

(* The SELECT of rollupTra. *)
InRange(t) == Inizio(level) <= Stamp(Source(level), t) /\ Stamp(Source(level), t) < Fine(level)

ReadRows ==
  /\ step = "reading"
  /\ unito' = [t \in Txns |-> IF InRange(t) THEN rows[Source(level)][t] ELSE 0]
  /\ step' = "committing"
  /\ UNCHANGED <<clock, at, written, rows, level, now, base, lastNow, seen>>

Touched(t) == \E u \in Txns : unito[u] > 0 /\ Stamp(level, u) = Stamp(level, t)

Added(t) == rows[level][t] + unito[t]

(* INSERT OR REPLACE of every row computed; the others stay.               *)
Replaced(t) == IF Touched(t) THEN unito[t] ELSE rows[level][t]

(* The transaction of rollupTra, then the next level or the end.           *)
CommitRows ==
  /\ step = "committing"
  /\ rows' = [rows EXCEPT ![level] = [t \in Txns |-> Replaced(t)]]
  /\ \/ /\ level = "5m"
        /\ level' = "1h" /\ step' = "reading"
        /\ UNCHANGED <<lastNow, seen>>
     \/ /\ level = "1h"
        /\ step' = "waiting"
        /\ lastNow' = now /\ seen' = base
        /\ UNCHANGED level
  /\ UNCHANGED <<clock, at, written, now, unito, base>>

(* A statement fails, or the daemon is stopped: what was read is lost, and *)
(* a transaction that had begun rolls back.                                *)
RollupFails ==
  /\ step # "waiting"
  /\ step' = "waiting"
  /\ UNCHANGED <<clock, at, written, rows, level, now, unito, base, lastNow, seen>>

-----------------------------------------------------------------------------
(* Purge and the pages. *)

Retention(T) ==
  CASE T = "1m" -> Minuto
    [] T = "5m" -> Cinque
    [] T = "1h" -> Ora

LimiteDelMinuto(T) == clock - Minuto

Limite(T) == clock - Retention(T)

Kept(T) == [t \in Txns |-> IF Stamp(T, t) < Limite(T) THEN 0 ELSE rows[T][t]]

(* One DELETE a table, in this order; a failure stops it half way. *)
Purge ==
  /\ step = "waiting"
  /\ \E done \in {{"1m"}, {"1m", "5m"}, Tables} :
       rows' = [T \in Tables |-> IF T \in done THEN Kept(T) ELSE rows[T]]
  /\ UNCHANGED <<clock, at, written, manVars>>

TabellaPerOra(since) == IF clock - since <= Ora THEN "1m" ELSE "1h"

TabellaPer(since) ==
  CASE clock - since <= Minuto -> "1m"
    [] clock - since > Minuto /\ clock - since <= Cinque -> "5m"
    [] OTHER -> "1h"

-----------------------------------------------------------------------------
Next ==
  \/ Tick
  \/ \E t \in Txns, m \in 0 .. Horizon : WriteWindow(t, m)
  \/ StartRollup
  \/ ReadRows
  \/ CommitRows
  \/ RollupFails
  \/ Purge

Spec == Init /\ [][Next]_vars

-----------------------------------------------------------------------------
(* Properties. *)

(* Types; and a row of a coarse table is that of a bucket that is over,    *)
(* "quello in corso cambierebbe ancora".                                   *)
TypeOK ==
  /\ clock \in 0 .. Horizon
  /\ at \in [Txns -> 0 .. Horizon]
  /\ written \subseteq Txns
  /\ rows \in [Tables -> [Txns -> Nat]]
  /\ step \in {"waiting", "reading", "committing"}
  /\ level \in Levels
  /\ now \in 0 .. clock
  /\ unito \in [Txns -> Nat]
  /\ lastNow \in 0 .. now
  /\ seen \subseteq base /\ base \subseteq written
  /\ \A l \in Levels, t \in Txns : rows[l][t] > 0 => Stamp(l, t) + Passo(l) <= clock

(* The rollup is idempotent: whatever fails or is repeated, no table       *)
(* counts a transaction twice, and none counts one that was not written.   *)
CountedOnce ==
  \A T \in Tables, t \in Txns : rows[T][t] <= (IF t \in written THEN 1 ELSE 0)

Expired(T, t) == Stamp(T, t) < clock - Retention(T)

(* t was in the database when the last complete rollup began, and its      *)
(* bucket was over.                                                        *)
Due(l, t) == t \in seen /\ Stamp(l, t) + Passo(l) <= lastNow

(* A recomputed row never loses what it had because the purge had already  *)
(* taken part of its source: only what is past its own retention goes.     *)
NeverShrinks ==
  [][\A T \in Tables, t \in Txns : rows'[T][t] < rows[T][t] => Expired(T, t)]_vars

(* Validate: without its rule "resterebbe un buco nel quale le pagine non  *)
(* trovano nulla".  The table a page is sent to still has all it was given *)
(* of the interval the page asks for, as long as the lateness of a window  *)
(* and the time without a complete rollup do not add up to more than       *)
(* fifteen minutes.                                                        *)
PagesMissNothing ==
  MaxLate + MaxGap <= 3 * Passo5m =>
    \A since \in 0 .. clock :
      LET T == TabellaPer(since)
      IN  \A t \in written :
            /\ Stamp(T, t) >= since /\ ~Expired("1h", t)
            /\ T # "1m" => Due(T, t)
            => rows[T][t] = 1
=============================================================================
