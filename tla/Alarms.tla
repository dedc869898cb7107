-------------------------------- MODULE Alarms --------------------------------
(***************************************************************************)
(* The evaluator of the alarms (internal/allarmi/allarmi.go), which the    *)
(* maintenance of the daemon calls every minute with a copy of the         *)
(* counters of the aggregator, over the summary the store makes of the     *)
(* last minutes (Summary in internal/store/store.go).  The goroutine of    *)
(* the aggregator writes windows and counts losses in the meantime.        *)
(* Thresholds and durations are integers; the log is left out, except for  *)
(* the losses it adds up.                                                  *)
(***************************************************************************)
EXTENDS Histogram, FiniteSets

CONSTANTS
  Batches,        \* what a minute brings: sequences of [d, failed]
  FinestraMinuti, \* the minutes an evaluation looks at
  MinRequests,    \* with fewer requests nothing is judged: 20
  ErrorRatePct, ApdexMin, P95MS, ApdexT,   \* the thresholds, 0 for none
  MaxLosses,      \* bound on the losses the agents declare between restarts
  MaxLostWindows  \* bound on the windows lost between restarts

ASSUME AlarmsAssumption ==
  /\ FinestraMinuti \in Nat \ {0} /\ MinRequests \in Nat \ {0} /\ MaxLosses \in Nat
  /\ {ErrorRatePct, ApdexMin, P95MS, ApdexT} \subseteq Nat

(* The counters of a histogram, of 32 bits, hold the requests of the       *)
(* minutes that are looked at.                                             *)
ASSUME TrafficAssumption ==
  /\ Batches \subseteq Seq([d : Nat, failed : BOOLEAN])
  /\ \A batch \in Batches : FinestraMinuti * Len(batch) < Word

VARIABLES
  rows,          \* the metrics of the last minutes, oldest first
  agentPerse,    \* transactions the agents could not deliver
  finestrePerse, \* windows that were not written
  evaluating,    \* Stats has been called, Valuta has not returned
  stats,         \* the copy it got
  attivi,        \* the alarms that are on
  agentPerseViste,
  reported,      \* the sum of "nuove" in the log since the start
  judged         \* the requests of the last summary with enough of them

counters == <<agentPerse, finestrePerse>>
evaluator == <<attivi, agentPerseViste, reported, judged>>
vars == <<rows, counters, evaluating, stats, evaluator>>

NoStats == [agentPerse |-> 0, finestrePerse |-> 0]
NoRow == [requests |-> <<>>, count |-> 0, errors |-> 0, histogram |-> Empty]

Started ==
  /\ agentPerse = 0 /\ finestrePerse = 0
  /\ evaluating = FALSE /\ stats = NoStats
  /\ attivi = {} /\ agentPerseViste = 0 /\ reported = 0 /\ judged = <<>>

Init == rows = [i \in 1 .. FinestraMinuti |-> NoRow] /\ Started

-----------------------------------------------------------------------------
(* The aggregator and the store. *)

Count(S(_), requests) == Cardinality({i \in DOMAIN requests : S(requests[i])})
Failed(r) == r.failed

(* The row of a minute; "requests" is what it was made from.               *)
Row(batch) ==
  LET hist[i \in 0 .. Len(batch)] ==
        IF i = 0 THEN Empty ELSE Add(hist[i - 1], batch[i].d)
  IN  [requests |-> batch, count |-> Len(batch), errors |-> Count(Failed, batch),
       histogram |-> hist[Len(batch)]]

(* A minute ends and its window is written.  A minute with no request has  *)
(* no row.                                                                 *)
WriteWindow ==
  /\ \E batch \in Batches : rows' = Append(Tail(rows), Row(batch))
  /\ UNCHANGED <<counters, evaluating, stats, evaluator>>

(* A minute ends and its window is lost.                                   *)
LoseWindow ==
  /\ finestrePerse < MaxLostWindows
  /\ finestrePerse' = finestrePerse + 1
  /\ rows' = Append(Tail(rows), NoRow)
  /\ UNCHANGED <<agentPerse, evaluating, stats, evaluator>>

(* A frame arrives whose agent declares losses.                            *)
DeclareLosses ==
  /\ \E n \in 1 .. MaxLosses - agentPerse : agentPerse' = agentPerse + n
  /\ UNCHANGED <<rows, finestrePerse, evaluating, stats, evaluator>>

(* Summary adds up the rows since FinestraMinuti ago.                      *)
Summary ==
  LET sum[i \in 0 .. FinestraMinuti] ==
        IF i = 0 THEN NoRow
        ELSE [requests |-> sum[i - 1].requests \o rows[i].requests,
              count |-> sum[i - 1].count + rows[i].count,
              errors |-> sum[i - 1].errors + rows[i].errors,
              histogram |-> Merge(sum[i - 1].histogram, rows[i].histogram)]
  IN  sum[FinestraMinuti]

-----------------------------------------------------------------------------
(* The evaluator. *)

(* The rules whose threshold the summary exceeds.                          *)
Exceeded(s) ==
  {rule \in {"tasso di errore", "apdex", "tempo di risposta"} :
     CASE rule = "tasso di errore" ->
            ErrorRatePct > 0 /\ s.errors * 100 > ErrorRatePct * s.count
       [] rule = "apdex" -> ApdexMin > 0 /\ ApdexBelow(s.histogram, ApdexT, ApdexMin)
       [] OTHER -> P95MS > 0 /\ Percentile(s.histogram, 95) > P95MS}

Written == IF stats.finestrePerse > 0 THEN {"scrittura delle metriche"} ELSE {}

(* regola for each rule: with few requests those of the traffic stay as    *)
(* they are, and that of the lost windows is never given a FALSE.          *)
Rules(s) ==
  IF s.count >= MinRequests THEN Exceeded(s) \cup (attivi \cap {"scrittura delle metriche"})
  ELSE attivi

(* manutenzione calls Stats ...                                            *)
TakeStats ==
  /\ ~evaluating
  /\ evaluating' = TRUE
  /\ stats' = [agentPerse |-> agentPerse, finestrePerse |-> finestrePerse]
  /\ UNCHANGED <<rows, counters, evaluator>>

(* A mutant of LogLosses: what is declared meanwhile counts as reported.   *)
LogLossesOfNow ==
  /\ agentPerseViste' = agentPerse
  /\ reported' = reported + stats.agentPerse - agentPerseViste

(* The losses that are new in the copy are logged, and remembered.         *)
LogLosses ==
  IF stats.agentPerse > agentPerseViste
  THEN /\ agentPerseViste' = stats.agentPerse
       /\ reported' = reported + stats.agentPerse - agentPerseViste
  ELSE UNCHANGED <<agentPerseViste, reported>>

(* A mutant of Valuta: with few requests it returns before the losses.     *)
ValutaOfTraffic ==
  /\ evaluating
  /\ evaluating' = FALSE
  /\ LET s == Summary
     IN  IF s.count >= MinRequests
         THEN /\ attivi' = Rules(s) \cup Written
              /\ judged' = s.requests
              /\ LogLosses
         ELSE UNCHANGED evaluator
  /\ UNCHANGED <<rows, counters, stats>>

(* ... and Valuta, which reads the store.                                  *)
Valuta ==
  /\ evaluating
  /\ evaluating' = FALSE
  /\ LET s == Summary
     IN  /\ attivi' = Rules(s) \cup Written
         /\ judged' = IF s.count >= MinRequests THEN s.requests ELSE judged
  /\ LogLosses
  /\ UNCHANGED <<rows, counters, stats>>

(* The query fails: nothing is looked at, the losses neither.              *)
ValutaFails ==
  /\ evaluating
  /\ evaluating' = FALSE
  /\ UNCHANGED <<rows, counters, stats, evaluator>>

(* The daemon starts again: the counters and the evaluator are new, the    *)
(* metrics are those of the database.                                      *)
Restart ==
  /\ agentPerse' = 0 /\ finestrePerse' = 0
  /\ evaluating' = FALSE /\ stats' = NoStats
  /\ attivi' = {} /\ agentPerseViste' = 0 /\ reported' = 0 /\ judged' = <<>>
  /\ UNCHANGED rows

Next ==
  \/ WriteWindow \/ LoseWindow \/ DeclareLosses
  \/ TakeStats \/ Valuta \/ ValutaFails \/ Restart

(* The ticker of the maintenance calls Valuta again and again, and a query *)
(* of the store does not fail for ever.                                    *)
Spec == Init /\ [][Next]_vars /\ WF_vars(TakeStats) /\ SF_vars(Valuta)

-----------------------------------------------------------------------------
(* Properties. *)

TypeOK ==
  /\ agentPerse \in Nat /\ finestrePerse \in Nat
  /\ evaluating \in BOOLEAN
  /\ stats \in [agentPerse : Nat, finestrePerse : Nat]
  /\ agentPerseViste \in Nat /\ reported \in Nat

(* The first bound above t, if there is one.                               *)
Above(t) == {i \in 0 .. Last : Value[i] > t}
Bound(t) == Value[CHOOSE i \in Above(t) : \A j \in Above(t) : i <= j]

AtMost(t) == LET Fast(r) == r.d <= t IN Count(Fast, judged)
Before(t) == LET Fast(r) == r.d < Bound(t) IN
             IF Above(t) = {} THEN Len(judged) ELSE Count(Fast, judged)

ErrorsAreTrue ==
  "tasso di errore" \in attivi
    <=> ErrorRatePct > 0 /\ Count(Failed, judged) * 100 > ErrorRatePct * Len(judged)

LatencyIsTrue ==
  IF "tempo di risposta" \in attivi THEN P95MS > 0 /\ AtMost(P95MS) < Target(95, Len(judged))
  ELSE P95MS = 0 \/ Before(P95MS) >= Target(95, Len(judged))

ApdexIsTrue ==
  IF "apdex" \in attivi
  THEN ApdexT > 0 /\ (AtMost(ApdexT) + AtMost(4 * ApdexT)) * 100 < ApdexMin * 2 * Len(judged)
  ELSE ApdexT = 0 \/ (Before(ApdexT) + Before(4 * ApdexT)) * 100 >= ApdexMin * 2 * Len(judged)

(* An alarm is on exactly when the requests of the last summary that had   *)
(* enough of them exceed its threshold, up to the width of a bucket: one   *)
(* that is on is never false, one that is off hides less than a bucket.  A *)
(* rule whose threshold is zero is off.                                    *)
AlarmsAreTrue ==
  IF judged = <<>> THEN attivi \subseteq {"scrittura delle metriche"}
  ELSE ErrorsAreTrue /\ LatencyIsTrue /\ ApdexIsTrue

(* What the log adds up to is what was declared up to the copy it looked   *)
(* at: no loss is told twice, and none that comes while Valuta works is    *)
(* taken for told.                                                         *)
LossesReportedOnce ==
  /\ reported = agentPerseViste
  /\ agentPerseViste <= agentPerse
  /\ evaluating => agentPerseViste <= stats.agentPerse

(* Every loss reaches the log, whatever the traffic.                       *)
LossesSurface ==
  []<>(/\ reported = agentPerse
       /\ finestrePerse > 0 => "scrittura delle metriche" \in attivi)
=============================================================================
