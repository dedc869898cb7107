----------------------------- MODULE Aggregator -----------------------------
(***************************************************************************)
(* The in-memory half of the orma daemon: the goroutine of every agent     *)
(* connection (ingest.Listener.handle) feeding agg.Aggregator.Add, the     *)
(* goroutine of Aggregator.Run that empties the closed minutes onto the    *)
(* store, and the shutdown of cmd/orma doStart that cancels it together    *)
(* with the maintenance and with Listener.Serve, and waits for the three,  *)
(* while the goroutines of the connections keep running.                   *)
(*                                                                         *)
(* A window (one minute) is modelled by the set of transactions accounted  *)
(* in it, each with the name it was accounted under: the maps of           *)
(* store.Window (Metrics, SQL, Hosts, Errors, Profilo) are functions of    *)
(* that set, and the one whose size the code looks at, Metrics, is         *)
(* reconstructed by Series.  A map entry of a.windows exists exactly when  *)
(* its set is not empty, because Add creates a window and accounts a       *)
(* transaction in it under the same lock.                                  *)
(***************************************************************************)
EXTENDS Integers, FiniteSets

CONSTANTS
  Txns,          \* the transactions agents may send, see Txn below
  Conns,         \* goroutines of the agent connections
  NoTxn,         \* a connection goroutine between two frames
  Overflow,      \* OverflowName, "OtherTransaction/*"
  MaxNames,      \* Options.MaxNames
  TraceMax,      \* Options.TraceMaxPerWindow
  SlowestNames,  \* Options.SlowestNames
  Threshold,     \* Options.TraceThresholdNS
  Horizon        \* bound: the clock stops at this minute

Minutes == 0 .. Horizon

(* What Add reads of a protocol.Transaction.  start is the minute in which *)
(* the request started, 0 when the agent gives no timestamp; error is      *)
(* isError; db and ext say whether a span is a query or an external call;  *)
(* perse is how many undelivered transactions the frame declares.          *)
IsTxn(t) ==
  /\ t.start \in 0 .. Horizon - 1
  /\ t.dur \in Nat
  /\ t.perse \in Nat
  /\ {t.error, t.db, t.ext} \subseteq BOOLEAN

ASSUME TxnsAssumption == \A t \in Txns : IsTxn(t)

(* New applies withDefaults, so the two caps are positive. *)
ASSUME OptionsAssumption ==
  /\ MaxNames \in Nat \ {0}
  /\ TraceMax \in Nat \ {0}
  /\ SlowestNames \in Nat
  /\ Threshold \in Nat
  /\ Horizon \in Nat \ {0}

Names == {t.name : t \in Txns} \cup {Overflow}

(* A transaction and the name it was accounted under. *)
Entry == [txn : Txns, name : Names]

Window == [entries : SUBSET Entry, traces : SUBSET Entry]
EmptyWindow == [entries |-> {}, traces |-> {}]

(* A decoded frame on its way to the lock, with its windowTS. *)
InFlight == [txn : Txns, minute : Minutes]

ASSUME NoTxnAssumption == NoTxn \notin InFlight

VARIABLES
  clock,            \* the minute time.Now() falls in
  phase,            \* of doStart: "serving", "stopping" (ctx cancelled), "exited"
  cause,            \* whether stop has an error to return
  manut,            \* manutenzione: "running", "done"
  served,           \* Serve: "running", "returned", its result in the channel,
                    \* or "taken", the channel empty for ever
  conn,             \* what each connection goroutine is about to Add
  received,         \* transactions counted by Listener.frames
  agentPerse,       \* Aggregator.agentPerse
  windows,          \* Aggregator.windows
  slowest,          \* Aggregator.slowest: at most one entry per name
  run,              \* Aggregator.Run: "waiting", "locking", "writing", "done"
  all,              \* argument of the flush in progress
  current,          \* minute that flush read from the clock
  ready,            \* its local map of windows still to write
  db,               \* what the store holds for each minute
  lost,             \* transactions of windows whose WriteWindow failed
  finestreScritte,
  finestrePerse

stopVars  == <<phase, cause, manut, served>>
connVars  == <<conn, received, agentPerse>>
memVars   == <<windows, slowest>>
flushVars == <<run, all, current, ready>>
diskVars  == <<db, lost, finestreScritte, finestrePerse>>
vars == <<clock, stopVars, connVars, memVars, flushVars, diskVars>>

TxnsOf(W) == {e.txn : e \in W.entries}
Accounted(f) == UNION {TxnsOf(f[m]) : m \in Minutes}
InHand == {conn[c].txn : c \in {d \in Conns : conn[d] # NoTxn}}

-----------------------------------------------------------------------------
(* The keys of w.Metrics: one series per category that contributed. *)

Key(e) == <<e.txn.app, e.name, e.txn.kind>>

Series(E) ==
  {<<Key(e), "totale">> : e \in E}
    \cup {<<Key(e), "database">> : e \in {x \in E : x.txn.db}}
    \cup {<<Key(e), "esterne">> : e \in {x \in E : x.txn.ext}}

CapOffByOne(E, t) ==
  IF Cardinality(Series(E)) <= MaxNames THEN t.name ELSE Overflow

CapWithoutSeen(E, t) ==
  IF Cardinality(Series(E)) < MaxNames THEN t.name ELSE Overflow

ApplyCardinalityCap(E, t) ==
  LET own == [txn |-> t, name |-> t.name]
  IN  IF \/ <<Key(own), "totale">> \in Series(E)
         \/ Cardinality(Series(E)) < MaxNames
      THEN t.name
      ELSE Overflow

KeepTrace(t, traces) ==
  /\ Cardinality(traces) < TraceMax
  /\ t.error \/ t.dur >= Threshold

TrackFirst(per, e) ==
  IF \/ \E x \in per : x.name = e.name
     \/ Cardinality(per) >= SlowestNames
  THEN per
  ELSE per \cup {e}

(* per is a map from names, so it holds one entry for each. *)
TrackSlowest(per, e) ==
  LET same == {x \in per : x.name = e.name}
  IN  IF \/ \E x \in same : x.txn.dur >= e.txn.dur
         \/ same = {} /\ Cardinality(per) >= SlowestNames
      THEN per
      ELSE (per \ same) \cup {e}

(* Add returns before trackSlowest when the trace is kept. *)
SlowestAfter(per, e, kept) == IF kept THEN per ELSE TrackSlowest(per, e)

-----------------------------------------------------------------------------
Init ==
  /\ clock = 1
  /\ phase = "serving" /\ cause = FALSE /\ manut = "running" /\ served = "running"
  /\ conn = [c \in Conns |-> NoTxn]
  /\ received = {}
  /\ agentPerse = 0
  /\ windows = [m \in Minutes |-> EmptyWindow]
  /\ slowest = [m \in Minutes |-> {}]
  /\ run = "waiting"
  /\ all = FALSE
  /\ current = 1
  /\ ready = [m \in Minutes |-> EmptyWindow]
  /\ db = [m \in Minutes |-> EmptyWindow]
  /\ lost = {}
  /\ finestreScritte = 0
  /\ finestrePerse = 0

Tick ==
  /\ clock < Horizon
  /\ clock' = clock + 1
  /\ UNCHANGED <<stopVars, connVars, memVars, flushVars, diskVars>>

-----------------------------------------------------------------------------
Running == phase # "exited"

(* A connection goroutine. *)

WindowTS(t) == IF t.start = 0 THEN clock ELSE t.start

(* handle decodes a frame, counts it and calls Add, which sums the declared *)
(* losses before it asks for the lock.  Nothing stops it at shutdown short  *)
(* of the end of the process.  Frames arrive before the last minute of the  *)
(* bound, so that every window can close.                                   *)
Receive(c, t) ==
  /\ Running
  /\ clock < Horizon
  /\ conn[c] = NoTxn
  /\ t \notin received
  /\ conn' = [conn EXCEPT ![c] = [txn |-> t, minute |-> WindowTS(t)]]
  /\ received' = received \cup {t}
  /\ agentPerse' = agentPerse + t.perse
  /\ UNCHANGED <<clock, stopVars, memVars, flushVars, diskVars>>

(* The part of Add under the lock. *)
Add(c) ==
  /\ Running
  /\ conn[c] # NoTxn
  /\ LET t    == conn[c].txn
         m    == conn[c].minute
         e    == [txn |-> t, name |-> ApplyCardinalityCap(windows[m].entries, t)]
         kept == KeepTrace(t, windows[m].traces)
     IN  /\ windows' = [windows EXCEPT ![m] =
                          [entries |-> @.entries \cup {e},
                           traces  |-> IF kept THEN @.traces \cup {e} ELSE @.traces]]
         /\ slowest' = [slowest EXCEPT ![m] = SlowestAfter(@, e, kept)]
  /\ conn' = [conn EXCEPT ![c] = NoTxn]
  /\ UNCHANGED <<clock, stopVars, received, agentPerse, flushVars, diskVars>>

-----------------------------------------------------------------------------
(* The goroutine of Run. *)

(* The two cases of its select: the ticker, always, or the cancelled context. *)
Selected(final) == final => phase = "stopping"

(* flush reads the clock before it asks for the lock. *)
MinuteOfNow == clock

StartFlush(final) ==
  /\ run = "waiting"
  /\ Selected(final)
  /\ run' = "locking"
  /\ all' = final
  /\ current' = MinuteOfNow
  /\ UNCHANGED <<clock, stopVars, connVars, memVars, ready, diskVars>>

DueWhenStarted(m) == all \/ m <= current

DueWhenOver(m) == m < current

Due(m) == all \/ m < current

(* The critical section of flush: the windows due leave the shared maps. *)
TakeWindows ==
  /\ run = "locking"
  /\ run' = "writing"
  /\ ready' = [m \in Minutes |->
                 IF Due(m) /\ windows[m].entries # {}
                 THEN [windows[m] EXCEPT !.traces = @ \cup slowest[m]]
                 ELSE EmptyWindow]
  /\ windows' = [m \in Minutes |-> IF Due(m) THEN EmptyWindow ELSE windows[m]]
  /\ slowest' = [m \in Minutes |-> IF Due(m) THEN {} ELSE slowest[m]]
  /\ UNCHANGED <<clock, stopVars, connVars, all, current, diskVars>>

WriteReplaces(m) ==
  /\ db' = [db EXCEPT ![m] = ready[m]]
  /\ finestreScritte' = finestreScritte + 1
  /\ UNCHANGED <<lost, finestrePerse>>

(* WriteWindow merges the window into the rows of the same minute. *)
WriteCommitted(m) ==
  /\ db' = [db EXCEPT ![m] = [entries |-> @.entries \cup ready[m].entries,
                              traces  |-> @.traces \cup ready[m].traces]]
  /\ finestreScritte' = finestreScritte + 1
  /\ UNCHANGED <<lost, finestrePerse>>

WriteFailedSilently(m) == UNCHANGED diskVars

(* It fails and rolls back: the window is gone, and the daemon counts it. *)
WriteFailed(m) ==
  /\ lost' = lost \cup TxnsOf(ready[m])
  /\ finestrePerse' = finestrePerse + 1
  /\ UNCHANGED <<db, finestreScritte>>

(* The windows are written in the arbitrary order of a Go map. *)
Write(m) ==
  /\ run = "writing"
  /\ ready[m].entries # {}
  /\ ready' = [ready EXCEPT ![m] = EmptyWindow]
  /\ WriteCommitted(m) \/ WriteFailed(m)
  /\ UNCHANGED <<clock, stopVars, connVars, memVars, run, all, current>>

EndFlush ==
  /\ run = "writing"
  /\ \A m \in Minutes : ready[m].entries = {}
  /\ run' = IF all THEN "done" ELSE "waiting"
  /\ UNCHANGED <<clock, stopVars, connVars, memVars, all, current, ready, diskVars>>

-----------------------------------------------------------------------------
(* The goroutines of the maintenance and of Serve, and doStart.            *)

(* manutenzione finds the context cancelled between two of its rounds,     *)
(* which change nothing here.                                              *)
MaintenanceEnds ==
  /\ phase = "stopping" /\ manut = "running"
  /\ manut' = "done"
  /\ UNCHANGED <<clock, phase, cause, served, connVars, memVars, flushVars, diskVars>>

(* Accept fails, and Serve puts its result in a channel that has room.     *)
ServeReturns ==
  /\ served = "running"
  /\ served' = "returned"
  /\ UNCHANGED <<clock, phase, cause, manut, connVars, memVars, flushVars, diskVars>>

AcceptFails == phase = "serving" /\ ServeReturns

(* When the context is cancelled a goroutine of Serve closes the listener. *)
ListenerCloses == phase = "stopping" /\ ServeReturns

(* The select of doStart: a signal, the error of the web server, or that   *)
(* of Serve, which is so taken from its channel.  stop cancels the context. *)
Cancel ==
  /\ phase = "serving"
  /\ phase' = "stopping"
  /\ \/ cause' \in BOOLEAN /\ UNCHANGED served
     \/ served = "returned" /\ served' = "taken" /\ cause' = TRUE
  /\ UNCHANGED <<clock, manut, connVars, memVars, flushVars, diskVars>>

(* A mutant of ServeAwaited: Serve is waited for with an error too.        *)
ServeAlwaysAwaited == served = "returned"

(* Without an error of its own to return, stop reads the one of Serve.     *)
ServeAwaited == cause \/ served = "returned"

(* stop waits for Run, for manutenzione, and maybe for Serve; the process  *)
(* ends under the connection goroutines, that nobody waits for.            *)
Exit ==
  /\ phase = "stopping"
  /\ run = "done"
  /\ manut = "done"
  /\ ServeAwaited
  /\ phase' = "exited"
  /\ UNCHANGED <<clock, cause, manut, served, connVars, memVars, flushVars, diskVars>>

Shutdown == MaintenanceEnds \/ AcceptFails \/ ListenerCloses \/ Cancel \/ Exit

-----------------------------------------------------------------------------
(* The process is gone. *)
Terminated == phase = "exited" /\ UNCHANGED vars

Next ==
  \/ Tick
  \/ \E c \in Conns, t \in Txns : Receive(c, t)
  \/ \E c \in Conns : Add(c)
  \/ \E final \in BOOLEAN : StartFlush(final)
  \/ TakeWindows
  \/ \E m \in Minutes : Write(m)
  \/ EndFlush
  \/ Shutdown
  \/ Terminated

Spec == Init /\ [][Next]_vars

(* The clock advances, goroutines that can run do run, and the ticker      *)
(* fires for ever.  A cancelled context stays ready, and select picks at   *)
(* random among the ready cases: it cannot lose against a ticker for ever, *)
(* which is strong fairness of the final flush, and fairness of the end of *)
(* the maintenance, whose rounds end.  No fairness of Receive, Cancel,     *)
(* AcceptFails or of the outcome of a write.                               *)
Fairness ==
  /\ WF_vars(Tick)
  /\ \A c \in Conns : WF_vars(Add(c))
  /\ WF_vars(StartFlush(FALSE))
  /\ SF_vars(StartFlush(TRUE))
  /\ WF_vars(TakeWindows)
  /\ \A m \in Minutes : WF_vars(Write(m))
  /\ WF_vars(EndFlush)
  /\ WF_vars(MaintenanceEnds)
  /\ WF_vars(ListenerCloses)
  /\ WF_vars(Exit)

FairSpec == Spec /\ Fairness

-----------------------------------------------------------------------------
(* Correctness. *)

(* Every variable stays in its type; in particular every timestamp names a *)
(* minute, and the flush never runs ahead of the clock.                    *)
TypeOK ==
  /\ clock \in Minutes
  /\ phase \in {"serving", "stopping", "exited"}
  /\ cause \in BOOLEAN
  /\ manut \in {"running", "done"}
  /\ served \in {"running", "returned", "taken"}
  /\ conn \in [Conns -> InFlight \cup {NoTxn}]
  /\ received \subseteq Txns
  /\ agentPerse \in Nat
  /\ windows \in [Minutes -> Window]
  /\ slowest \in [Minutes -> SUBSET Entry]
  /\ run \in {"waiting", "locking", "writing", "done"}
  /\ all \in BOOLEAN
  /\ current \in 0 .. clock
  /\ ready \in [Minutes -> Window]
  /\ db \in [Minutes -> Window]
  /\ lost \subseteq Txns
  /\ finestreScritte \in Nat
  /\ finestrePerse \in Nat

Disjoint(A, B) == A \cap B = {}

(* f accounts a transaction in one minute only, under one name only. *)
NoDuplicates(f) ==
  \A m, n \in Minutes : \A a \in f[m].entries, b \in f[n].entries :
    a.txn = b.txn => m = n /\ a = b

(* No two goroutines hold the same transaction. *)
OneHand ==
  \A c, d \in Conns :
    conn[c] # NoTxn /\ conn[d] # NoTxn /\ conn[c].txn = conn[d].txn => c = d

(* flush has a batch of its own only while it writes it. *)
BatchOnlyWhileWriting ==
  run # "writing" => \A m \in Minutes : ready[m].entries = {}

(* Conservation across the unlocked steps of handle, Add and flush: every  *)
(* frame the listener counted is in the hands of its goroutine, in memory, *)
(* in the batch being written, in the database or in a window counted as   *)
(* lost, in exactly one of them and once.                                  *)
AccountedOnce ==
  /\ received = InHand \cup Accounted(windows) \cup Accounted(ready)
                  \cup Accounted(db) \cup lost
  /\ Disjoint(InHand, Accounted(windows) \cup Accounted(ready) \cup Accounted(db) \cup lost)
  /\ Disjoint(Accounted(windows), Accounted(ready) \cup Accounted(db) \cup lost)
  /\ Disjoint(Accounted(ready), Accounted(db) \cup lost)
  /\ Disjoint(Accounted(db), lost)
  /\ NoDuplicates(windows) /\ NoDuplicates(ready) /\ NoDuplicates(db)
  /\ OneHand
  /\ BatchOnlyWhileWriting

(* The names of an app and kind that have a series of their own. *)
OwnSeries(E) == {<<Key(e), "totale">> : e \in {x \in E : x.name # Overflow}}

(* applyCardinalityCap is a valve: while a minute is in memory at most     *)
(* MaxNames names have their own series in it, whatever arrives.           *)
CapHolds ==
  \A m \in Minutes : /\ Cardinality(OwnSeries(windows[m].entries)) <= MaxNames
                     /\ Cardinality(OwnSeries(ready[m].entries)) <= MaxNames

(* The valve closes only when the window is full, and a name that had a    *)
(* series of its own is never moved to the collecting one: within a window *)
(* the metrics of one (app, name, kind) are never split in two.            *)
CapIsStable ==
  \A m \in Minutes :
    LET E == windows[m].entries
    IN  /\ \A e \in E : e.name = Overflow /\ e.txn.name # Overflow
                          => Cardinality(Series(E)) >= MaxNames
        /\ \A a, b \in E :
             <<a.txn.app, a.txn.name, a.txn.kind>> = <<b.txn.app, b.txn.name, b.txn.kind>>
               => a.name = b.name

(* keepTrace: a failed or slow transaction goes without a trace only       *)
(* because the minute already holds TraceMax of them, never because of the *)
(* order of arrival, and the traces kept by that rule never exceed it.     *)
TraceRule ==
  \A m \in Minutes :
    LET W == windows[m]
    IN  /\ Cardinality(W.traces) <= TraceMax
        /\ \A e \in W.entries \ W.traces :
             e.txn.error \/ e.txn.dur >= Threshold => Cardinality(W.traces) = TraceMax

(* trackSlowest: what is kept for a name is the slowest of all the         *)
(* transactions of that name still without a trace, even those that came   *)
(* before the name was followed; a name is left out only when              *)
(* SlowestNames others are followed.                                       *)
SlowestIsSlowest ==
  \A m \in Minutes :
    \A e \in windows[m].entries \ windows[m].traces :
      IF \E s \in slowest[m] : s.name = e.name
      THEN \E s \in slowest[m] : s.name = e.name /\ s.txn.dur >= e.txn.dur
      ELSE Cardinality(slowest[m]) = SlowestNames

(* The comment of flush: "Finestre di sole lente senza metriche non        *)
(* esistono".  Whatever slowest follows is accounted in the window of the  *)
(* same minute and has no trace there, one per name, so that flush never   *)
(* appends a trace twice and its clean-up of orphans finds nothing.        *)
SlowestBelongs ==
  \A m \in Minutes :
    /\ slowest[m] \subseteq windows[m].entries \ windows[m].traces
    /\ \A a, b \in slowest[m] : a.name = b.name => a = b

(* Which transactions keep their trace does not depend on chance: at any   *)
(* moment the three rules hold together, so that the caps alone exclude.   *)
TracesAreChosen == TraceRule /\ SlowestIsSlowest /\ SlowestBelongs

(* flush takes a minute away only when it is over, or at shutdown: the     *)
(* clock read before the lock may be old, never early.                     *)
OpenMinuteStays ==
  [][\A m \in Minutes :
       ~(windows[m].entries \subseteq windows'[m].entries)
         => m < clock \/ phase = "stopping"]_vars

(* Detailed and abstract: the goroutines implement the ledger, where a     *)
(* transaction is settled once and no step forgets one.                    *)
LedgerOf == INSTANCE Ledger WITH
  pending   <- InHand \cup Accounted(windows) \cup Accounted(ready),
  persisted <- Accounted(db)

LedgerSpec == LedgerOf!Spec

(* Whatever is in memory before the last flush takes its windows reaches   *)
(* the database, or the count of the lost windows.                         *)
FinalTaken == all /\ run \in {"writing", "done"}
Settled ==
  \A t \in Txns :
    (t \in Accounted(windows) /\ ~FinalTaken) ~> (t \in Accounted(db) \cup lost)

(* No deadlock at shutdown: Run and manutenzione return although a ticker  *)
(* may be ready whenever the context is, and stop never waits for a result *)
(* of Serve that doStart has already read.                                 *)
ShutdownEnds == (phase = "stopping") ~> (phase = "exited")

-----------------------------------------------------------------------------
(* What the documentation says and the code does not do. *)

(* cmd/orma/main.go:634: stop flushes "le metriche ancora in memoria" and  *)
(* "l'ultimo minuto non si perde".                                         *)
UltimoMinutoNonSiPerde == phase = "exited" => received \subseteq Accounted(db) \cup lost
=============================================================================
