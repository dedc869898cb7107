-------------------------- MODULE AggregatorProofs --------------------------
(***************************************************************************)
(* Theorems about Aggregator, for every set of transactions, of            *)
(* connections and every value of the options.                             *)
(***************************************************************************)
EXTENDS Aggregator, FiniteSetTheorems, TLAPS

-----------------------------------------------------------------------------
(* Type correctness. *)

(* A capped name is the name of some transaction, or the collecting one. *)
LEMMA CapType ==
  ASSUME NEW E, NEW t \in Txns
  PROVE  ApplyCardinalityCap(E, t) \in Names
BY DEF ApplyCardinalityCap, Names

(* What Add accounts is an entry. *)
LEMMA AddedEntry ==
  ASSUME NEW E, NEW t \in Txns
  PROVE  [txn |-> t, name |-> ApplyCardinalityCap(E, t)] \in Entry
BY CapType DEF Entry

(* The rule of the slowest keeps part of what it had, and the new entry. *)
LEMMA SlowestAfterType ==
  ASSUME NEW S, NEW per \in SUBSET S, NEW e \in S, NEW kept
  PROVE  SlowestAfter(per, e, kept) \in SUBSET S
BY DEF SlowestAfter, TrackSlowest

LEMMA TypeInit == Init => TypeOK
<1> SUFFICES ASSUME Init
             PROVE  TypeOK
  OBVIOUS
<1>1. {0, 1} \subseteq Minutes
  BY OptionsAssumption DEF Minutes
<1>2. EmptyWindow \in Window
  BY DEF EmptyWindow, Window
<1>3. clock \in Minutes /\ current \in 0 .. clock
  BY <1>1 DEF Init
<1>4. /\ windows \in [Minutes -> Window]
      /\ ready \in [Minutes -> Window]
      /\ db \in [Minutes -> Window]
  BY <1>2 DEF Init
<1>5. conn \in [Conns -> InFlight \cup {NoTxn}] /\ slowest \in [Minutes -> SUBSET Entry]
  BY DEF Init
<1>6. QED
  BY <1>3, <1>4, <1>5 DEF Init, TypeOK

(* One step per action; the flush only moves windows about. *)
LEMMA TypeNext == TypeOK /\ [Next]_vars => TypeOK'
<1> SUFFICES ASSUME TypeOK, [Next]_vars
             PROVE  TypeOK'
  OBVIOUS
<1> USE OptionsAssumption
<1>1. CASE Tick
  BY <1>1 DEF Tick, TypeOK, Minutes, stopVars, connVars, memVars, flushVars, diskVars
<1>2. ASSUME NEW c \in Conns, NEW t \in Txns, Receive(c, t)
      PROVE  TypeOK'
  <2>1. WindowTS(t) \in Minutes
    BY TxnsAssumption DEF WindowTS, TypeOK, IsTxn, Minutes
  <2>2. [txn |-> t, minute |-> WindowTS(t)] \in InFlight
    BY <2>1 DEF InFlight
  <2>3. agentPerse' \in Nat
    BY <1>2, TxnsAssumption DEF Receive, TypeOK, IsTxn
  <2>4. QED
    BY <1>2, <2>2, <2>3 DEF Receive, TypeOK, stopVars, memVars, flushVars, diskVars
<1>3. ASSUME NEW c \in Conns, Add(c)
      PROVE  TypeOK'
  <2> DEFINE t == conn[c].txn
             m == conn[c].minute
             e == [txn |-> t, name |-> ApplyCardinalityCap(windows[m].entries, t)]
             kept == KeepTrace(t, windows[m].traces)
             W == [entries |-> windows[m].entries \cup {e},
                   traces  |-> IF kept THEN windows[m].traces \cup {e}
                                       ELSE windows[m].traces]
  <2>1. conn[c] \in InFlight
    BY <1>3 DEF Add, TypeOK
  <2>2. t \in Txns /\ m \in Minutes
    BY <2>1 DEF InFlight
  <2>3. e \in Entry
    BY <2>2, AddedEntry
  <2>4. windows[m] \in Window /\ slowest[m] \in SUBSET Entry
    BY <2>2 DEF TypeOK
  <2>5. W \in Window
    BY <2>3, <2>4 DEF Window
  <2>6. windows' = [windows EXCEPT ![m] = W]
    BY <1>3 DEF Add
  <2>7. slowest' = [slowest EXCEPT ![m] = SlowestAfter(slowest[m], e, kept)]
    BY <1>3 DEF Add
  <2> HIDE DEF e, kept, W, t, m
  <2>8. SlowestAfter(slowest[m], e, kept) \in SUBSET Entry
    BY <2>3, <2>4, SlowestAfterType
  <2>9. windows' \in [Minutes -> Window] /\ slowest' \in [Minutes -> SUBSET Entry]
    BY <2>2, <2>5, <2>6, <2>7, <2>8 DEF TypeOK
  <2>10. QED
    BY <1>3, <2>9 DEF Add, TypeOK, stopVars, flushVars, diskVars
<1>4. ASSUME NEW final \in BOOLEAN, StartFlush(final)
      PROVE  TypeOK'
  BY <1>4 DEF StartFlush, MinuteOfNow, TypeOK, Minutes, stopVars, connVars, memVars, diskVars
<1>5. CASE TakeWindows
  <2>1. ready' \in [Minutes -> Window]
    BY <1>5 DEF TakeWindows, TypeOK, Window, EmptyWindow
  <2>2. windows' \in [Minutes -> Window] /\ slowest' \in [Minutes -> SUBSET Entry]
    BY <1>5 DEF TakeWindows, TypeOK, Window, EmptyWindow
  <2>3. QED
    BY <1>5, <2>1, <2>2 DEF TakeWindows, TypeOK, stopVars, connVars, diskVars
<1>6. ASSUME NEW m \in Minutes, Write(m)
      PROVE  TypeOK'
  <2>1. ready' \in [Minutes -> Window]
    BY <1>6 DEF Write, TypeOK, Window, EmptyWindow
  <2>2. CASE WriteCommitted(m)
    <3>1. db' \in [Minutes -> Window]
      BY <2>2 DEF WriteCommitted, TypeOK, Window
    <3>2. QED
      BY <1>6, <2>1, <2>2, <3>1
         DEF Write, WriteCommitted, TypeOK, stopVars, connVars, memVars
  <2>3. CASE WriteFailed(m)
    <3>1. TxnsOf(ready[m]) \subseteq Txns
      BY DEF TxnsOf, TypeOK, Window, Entry
    <3>2. QED
      BY <1>6, <2>1, <2>3, <3>1
         DEF Write, WriteFailed, TypeOK, stopVars, connVars, memVars
  <2>4. QED
    BY <1>6, <2>2, <2>3 DEF Write
<1>7. CASE EndFlush
  BY <1>7 DEF EndFlush, TypeOK, stopVars, connVars, memVars, diskVars
<1>8. CASE Shutdown
  BY <1>8 DEF Shutdown, MaintenanceEnds, AcceptFails, ListenerCloses, ServeReturns, Cancel, Exit,
              TypeOK, stopVars, connVars, memVars, flushVars, diskVars
<1>9. CASE UNCHANGED vars
  BY <1>9 DEF vars, TypeOK, stopVars, connVars, memVars, flushVars, diskVars
<1>10. QED
  BY <1>1, <1>2, <1>3, <1>4, <1>5, <1>6, <1>7, <1>8, <1>9 DEF Next, Terminated

(* Every variable keeps its type: every window, in memory, in flight or in *)
(* the store, is one of the minutes of the clock, and only names of        *)
(* transactions and the collecting name are ever accounted.                *)
THEOREM TypeCorrect == Spec => []TypeOK
BY TypeInit, TypeNext, PTL DEF Spec

-----------------------------------------------------------------------------
(* Conservation. *)

(* A transaction is accounted when some minute has an entry for it. *)
LEMMA AccountedMember ==
  ASSUME NEW f, NEW t
  PROVE  t \in Accounted(f) <=> \E m \in Minutes : \E e \in f[m].entries : e.txn = t
BY DEF Accounted, TxnsOf

(* g is f with the entries E merged into minute m. *)
Merges(f, g, m, E) ==
  \A n \in Minutes : g[n].entries = IF n = m THEN f[n].entries \cup E ELSE f[n].entries

(* g holds the entries of f for the minutes in D, h those for the others. *)
Splits(f, g, h, D) ==
  \A n \in Minutes : /\ g[n].entries = IF n \in D THEN f[n].entries ELSE {}
                     /\ h[n].entries = IF n \in D THEN {} ELSE f[n].entries

(* Entries merged into one minute add their transactions, and no others. *)
LEMMA AccountedMerge ==
  ASSUME NEW f, NEW g, NEW m \in Minutes, NEW E, Merges(f, g, m, E)
  PROVE  Accounted(g) = Accounted(f) \cup {e.txn : e \in E}
<1> USE DEF Merges
<1>1. ASSUME NEW t, t \in Accounted(g)
      PROVE  t \in Accounted(f) \cup {e.txn : e \in E}
  <2>1. PICK n \in Minutes : \E e \in g[n].entries : e.txn = t
    BY <1>1, AccountedMember
  <2>2. PICK e \in g[n].entries : e.txn = t
    BY <2>1
  <2>3. e \in f[n].entries \/ e \in E
    BY <2>2
  <2>4. QED
    BY <2>2, <2>3, AccountedMember
<1>2. ASSUME NEW t, t \in Accounted(f)
      PROVE  t \in Accounted(g)
  <2>1. PICK n \in Minutes : \E e \in f[n].entries : e.txn = t
    BY <1>2, AccountedMember
  <2>2. f[n].entries \subseteq g[n].entries
    OBVIOUS
  <2>3. QED
    BY <2>1, <2>2, AccountedMember
<1>3. ASSUME NEW e \in E
      PROVE  e.txn \in Accounted(g)
  <2>1. e \in g[m].entries
    OBVIOUS
  <2>2. QED
    BY <2>1, AccountedMember
<1>4. QED
  BY <1>1, <1>2, <1>3

(* Merging entries of transactions not accounted yet, one entry for each,  *)
(* creates no duplicate.                                                   *)
LEMMA NoDuplicatesMerge ==
  ASSUME NEW f, NEW g, NEW m \in Minutes, NEW E, Merges(f, g, m, E),
         NoDuplicates(f),
         \A a, b \in E : a.txn = b.txn => a = b,
         Disjoint(Accounted(f), {e.txn : e \in E})
  PROVE  NoDuplicates(g)
<1> USE DEF Merges
<1>1. \A n \in Minutes : \A a \in f[n].entries, b \in E : a.txn # b.txn
  BY AccountedMember DEF Disjoint
<1>2. SUFFICES ASSUME NEW k \in Minutes, NEW n \in Minutes,
                      NEW a \in g[k].entries, NEW b \in g[n].entries,
                      a.txn = b.txn
               PROVE  k = n /\ a = b
  BY DEF NoDuplicates
<1>3. CASE a \in f[k].entries /\ b \in f[n].entries
  BY <1>2, <1>3 DEF NoDuplicates
<1>4. CASE a \notin f[k].entries \/ b \notin f[n].entries
  <2>1. (a \in E /\ k = m) \/ (b \in E /\ n = m)
    BY <1>4
  <2>2. a \in E /\ k = m /\ b \in E /\ n = m
    BY <1>1, <1>2, <2>1
  <2>3. QED
    BY <1>2, <2>2
<1>5. QED
  BY <1>3, <1>4

(* A minute that is emptied takes its transactions away, and no others. *)
LEMMA AccountedDrop ==
  ASSUME NEW f, NEW g, NEW m \in Minutes,
         \A n \in Minutes : g[n].entries = IF n = m THEN {} ELSE f[n].entries,
         NoDuplicates(f)
  PROVE  /\ Accounted(g) = Accounted(f) \ TxnsOf(f[m])
         /\ TxnsOf(f[m]) \subseteq Accounted(f)
         /\ NoDuplicates(g)
<1>1. ASSUME NEW t
      PROVE  t \in Accounted(g) <=> t \in Accounted(f) /\ t \notin TxnsOf(f[m])
  BY AccountedMember DEF NoDuplicates, TxnsOf
<1>2. TxnsOf(f[m]) \subseteq Accounted(f)
  BY AccountedMember DEF TxnsOf
<1>3. NoDuplicates(g)
  <2>1. \A n \in Minutes : g[n].entries \subseteq f[n].entries
    OBVIOUS
  <2>2. QED
    BY <2>1 DEF NoDuplicates
<1>4. QED
  BY <1>1, <1>2, <1>3

(* The critical section of flush splits the windows in two parts. *)
LEMMA AccountedSplit ==
  ASSUME NEW f, NEW g, NEW h, NEW D, Splits(f, g, h, D), NoDuplicates(f)
  PROVE  /\ Accounted(f) = Accounted(g) \cup Accounted(h)
         /\ Disjoint(Accounted(g), Accounted(h))
         /\ NoDuplicates(g)
         /\ NoDuplicates(h)
<1> USE DEF Splits
<1>1. ASSUME NEW t
      PROVE  t \in Accounted(f) <=> t \in Accounted(g) \cup Accounted(h)
  BY AccountedMember
<1>2. Disjoint(Accounted(g), Accounted(h))
  BY AccountedMember DEF Disjoint, NoDuplicates
<1>3. NoDuplicates(g) /\ NoDuplicates(h)
  BY DEF NoDuplicates
<1>4. QED
  BY <1>1, <1>2, <1>3

LEMMA OnceInit == Init => AccountedOnce
<1> SUFFICES ASSUME Init
             PROVE  AccountedOnce
  OBVIOUS
<1>1. InHand = {}
  BY DEF Init, InHand
<1>2. /\ \A m \in Minutes : windows[m].entries = {}
      /\ \A m \in Minutes : ready[m].entries = {}
      /\ \A m \in Minutes : db[m].entries = {}
  BY DEF Init, EmptyWindow
<1>3. Accounted(windows) = {} /\ Accounted(ready) = {} /\ Accounted(db) = {}
  BY <1>2, AccountedMember
<1>4. NoDuplicates(windows) /\ NoDuplicates(ready) /\ NoDuplicates(db)
  BY <1>2 DEF NoDuplicates
<1>5. OneHand /\ BatchOnlyWhileWriting
  BY <1>2 DEF Init, OneHand, BatchOnlyWhileWriting
<1>6. QED
  BY <1>1, <1>3, <1>4, <1>5 DEF Init, AccountedOnce, Disjoint

(* A connection goroutine takes a new transaction in hand. *)
LEMMA OnceReceive ==
  ASSUME TypeOK, AccountedOnce, NEW c \in Conns, NEW t \in Txns, Receive(c, t)
  PROVE  AccountedOnce' /\ InHand' = InHand \cup {t}
<1> DEFINE p == [txn |-> t, minute |-> WindowTS(t)]
<1>1. WindowTS(t) \in Minutes
  BY OptionsAssumption, TxnsAssumption DEF WindowTS, TypeOK, IsTxn, Minutes
<1>2. p # NoTxn /\ p.txn = t
  BY <1>1, NoTxnAssumption DEF InFlight
<1>3. conn[c] = NoTxn /\ t \notin received /\ conn' = [conn EXCEPT ![c] = p]
  BY DEF Receive
<1> HIDE DEF p
<1>4. \A d \in Conns : conn'[d] = IF d = c THEN p ELSE conn[d]
  BY <1>3 DEF TypeOK
<1>5. InHand' = InHand \cup {t}
  BY <1>2, <1>3, <1>4 DEF InHand
<1>6. t \notin InHand
  BY <1>3 DEF AccountedOnce
<1>7. OneHand'
  BY <1>2, <1>4, <1>6 DEF OneHand, InHand, AccountedOnce
<1>8. received' = received \cup {t} /\ UNCHANGED <<windows, ready, db, lost, run>>
  BY DEF Receive, memVars, flushVars, diskVars
<1>9. BatchOnlyWhileWriting'
  BY <1>8 DEF AccountedOnce, BatchOnlyWhileWriting
<1>10. /\ UNCHANGED <<Accounted(windows), Accounted(ready), Accounted(db)>>
       /\ NoDuplicates(windows)' /\ NoDuplicates(ready)' /\ NoDuplicates(db)'
  BY <1>8 DEF AccountedOnce, Accounted, NoDuplicates, TxnsOf
<1>11. QED
  BY <1>3, <1>5, <1>7, <1>8, <1>9, <1>10 DEF AccountedOnce, Disjoint

(* It puts the transaction it had in hand in one window. *)
LEMMA OnceAdd ==
  ASSUME TypeOK, AccountedOnce, NEW c \in Conns, Add(c)
  PROVE  /\ AccountedOnce'
         /\ InHand \cup Accounted(windows) = (InHand \cup Accounted(windows))'
<1> DEFINE t == conn[c].txn
           m == conn[c].minute
           e == [txn |-> t, name |-> ApplyCardinalityCap(windows[m].entries, t)]
<1>1. conn[c] # NoTxn /\ conn' = [conn EXCEPT ![c] = NoTxn]
  BY DEF Add
<1>2. m \in Minutes /\ t \in InHand
  BY <1>1 DEF TypeOK, InFlight, InHand
<1>3. e.txn = t
  OBVIOUS
<1>4. Merges(windows, windows', m, {e})
  BY <1>2 DEF Add, TypeOK, Merges
<1>5. UNCHANGED <<received, run, ready, db, lost>>
  BY DEF Add, flushVars, diskVars
<1> HIDE DEF e, t, m
<1>6. InHand' = InHand \ {t}
  <2>1. \A d \in Conns : conn'[d] = IF d = c THEN NoTxn ELSE conn[d]
    BY <1>1 DEF TypeOK
  <2>2. \A d \in Conns : conn[d] # NoTxn /\ conn[d].txn = t => d = c
    BY <1>1 DEF AccountedOnce, OneHand, t
  <2>3. QED
    BY <1>1, <2>1, <2>2 DEF InHand, t
<1>7. OneHand'
  BY <1>1 DEF AccountedOnce, OneHand, TypeOK
<1>8. {x.txn : x \in {e}} = {t}
  BY <1>3
<1>9. Accounted(windows') = Accounted(windows) \cup {t}
  BY <1>2, <1>4, <1>8, AccountedMerge
<1>10. NoDuplicates(windows')
  <2>1. Disjoint(Accounted(windows), {x.txn : x \in {e}})
    BY <1>2, <1>8 DEF AccountedOnce, Disjoint
  <2>2. \A a, b \in {e} : a.txn = b.txn => a = b
    OBVIOUS
  <2>3. NoDuplicates(windows)
    BY DEF AccountedOnce
  <2>4. QED
    BY <1>2, <1>4, <2>1, <2>2, <2>3, NoDuplicatesMerge
<1>11. BatchOnlyWhileWriting'
  BY <1>5 DEF AccountedOnce, BatchOnlyWhileWriting
<1>12. /\ UNCHANGED <<Accounted(ready), Accounted(db)>>
       /\ NoDuplicates(ready)' /\ NoDuplicates(db)'
  BY <1>5 DEF AccountedOnce, Accounted, NoDuplicates, TxnsOf
<1>13. Accounted(windows)' = Accounted(windows') /\ NoDuplicates(windows)' = NoDuplicates(windows')
  BY DEF Accounted, NoDuplicates, TxnsOf
<1>14. QED
  BY <1>2, <1>5, <1>6, <1>7, <1>9, <1>10, <1>11, <1>12, <1>13
     DEF AccountedOnce, Disjoint

(* The critical section moves whole windows to the batch. *)
LEMMA OnceTake ==
  ASSUME TypeOK, AccountedOnce, TakeWindows
  PROVE  /\ AccountedOnce'
         /\ UNCHANGED InHand
         /\ Accounted(windows) \cup Accounted(ready) = (Accounted(windows) \cup Accounted(ready))'
<1> DEFINE D == {m \in Minutes : Due(m)}
<1>1. \A m \in Minutes : ready[m].entries = {}
  BY DEF AccountedOnce, BatchOnlyWhileWriting, TakeWindows
<1>2. Accounted(ready) = {}
  BY <1>1, AccountedMember
<1>3. \A n \in Minutes : ready'[n].entries = IF n \in D THEN windows[n].entries ELSE {}
  BY DEF TakeWindows, EmptyWindow, TypeOK, Window
<1>4. Splits(windows, ready', windows', D)
  BY <1>3 DEF TakeWindows, EmptyWindow, Splits
<1>5. NoDuplicates(windows)
  BY DEF AccountedOnce
<1> HIDE DEF D
<1>6. /\ Accounted(windows) = Accounted(ready') \cup Accounted(windows')
      /\ Disjoint(Accounted(ready'), Accounted(windows'))
      /\ NoDuplicates(ready')
      /\ NoDuplicates(windows')
  BY <1>4, <1>5, AccountedSplit
<1>7. UNCHANGED <<conn, received, db, lost>> /\ run' = "writing"
  BY DEF TakeWindows, connVars, diskVars
<1>8. /\ UNCHANGED <<InHand, Accounted(db)>>
      /\ NoDuplicates(db)'
      /\ OneHand'
      /\ BatchOnlyWhileWriting'
  BY <1>7 DEF AccountedOnce, InHand, Accounted, NoDuplicates, TxnsOf, OneHand, BatchOnlyWhileWriting
<1>9. /\ Accounted(windows)' = Accounted(windows') /\ NoDuplicates(windows)' = NoDuplicates(windows')
      /\ Accounted(ready)' = Accounted(ready') /\ NoDuplicates(ready)' = NoDuplicates(ready')
  BY DEF Accounted, NoDuplicates, TxnsOf
<1>10. QED
  BY <1>2, <1>6, <1>7, <1>8, <1>9 DEF AccountedOnce, Disjoint

(* A write settles one window of the batch, in the store or as lost. *)
LEMMA OnceWrite ==
  ASSUME TypeOK, AccountedOnce, NEW m \in Minutes, Write(m)
  PROVE  /\ AccountedOnce'
         /\ UNCHANGED <<InHand, Accounted(windows)>>
         /\ Accounted(ready)' = Accounted(ready) \ TxnsOf(ready[m])
         /\ TxnsOf(ready[m]) # {}
         /\ TxnsOf(ready[m]) \subseteq Accounted(ready)
         /\ \/ Accounted(db)' = Accounted(db) \cup TxnsOf(ready[m]) /\ UNCHANGED lost
            \/ lost' = lost \cup TxnsOf(ready[m]) /\ UNCHANGED Accounted(db)
<1> DEFINE B == TxnsOf(ready[m])
<1>1. \A n \in Minutes : ready'[n].entries = IF n = m THEN {} ELSE ready[n].entries
  BY DEF Write, EmptyWindow, TypeOK
<1>2. NoDuplicates(ready)
  BY DEF AccountedOnce
<1>3. /\ Accounted(ready') = Accounted(ready) \ B
      /\ B \subseteq Accounted(ready)
      /\ NoDuplicates(ready')
  BY <1>1, <1>2, AccountedDrop
<1>4. B # {}
  BY DEF Write, TxnsOf
<1>5. UNCHANGED <<conn, received, windows, run>> /\ run = "writing"
  BY DEF Write, stopVars, connVars, memVars
<1>6. /\ UNCHANGED <<InHand, Accounted(windows)>>
      /\ NoDuplicates(windows)'
      /\ OneHand'
      /\ BatchOnlyWhileWriting'
  BY <1>5 DEF AccountedOnce, InHand, Accounted, NoDuplicates, TxnsOf, OneHand, BatchOnlyWhileWriting
<1>7. Accounted(ready)' = Accounted(ready') /\ NoDuplicates(ready)' = NoDuplicates(ready')
  BY DEF Accounted, NoDuplicates, TxnsOf
<1>8. Accounted(db)' = Accounted(db') /\ NoDuplicates(db)' = NoDuplicates(db')
  BY DEF Accounted, NoDuplicates, TxnsOf
<1>9. CASE WriteCommitted(m)
  <2>1. Merges(db, db', m, ready[m].entries)
    BY <1>9 DEF WriteCommitted, TypeOK, Merges
  <2>2. B = {e.txn : e \in ready[m].entries}
    BY DEF TxnsOf
  <2>3. Accounted(db') = Accounted(db) \cup B
    BY <2>1, <2>2, AccountedMerge
  <2>4. NoDuplicates(db')
    <3>1. NoDuplicates(db) /\ Disjoint(Accounted(db), {e.txn : e \in ready[m].entries})
      BY <1>3, <2>2 DEF AccountedOnce, Disjoint
    <3>2. \A a, b \in ready[m].entries : a.txn = b.txn => a = b
      BY <1>2 DEF NoDuplicates
    <3>3. QED
      BY <2>1, <3>1, <3>2, NoDuplicatesMerge
  <2>5. UNCHANGED lost
    BY <1>9 DEF WriteCommitted
  <2> HIDE DEF B
  <2>6. AccountedOnce'
    BY <1>3, <1>5, <1>6, <1>7, <1>8, <2>3, <2>4, <2>5 DEF AccountedOnce, Disjoint
  <2>7. QED
    BY <1>3, <1>4, <1>6, <1>7, <1>8, <2>3, <2>5, <2>6 DEF B
<1>10. CASE WriteFailed(m)
  <2>1. lost' = lost \cup B /\ UNCHANGED db
    BY <1>10 DEF WriteFailed
  <2>2. UNCHANGED Accounted(db) /\ NoDuplicates(db)'
    BY <2>1 DEF AccountedOnce, Accounted, NoDuplicates, TxnsOf
  <2> HIDE DEF B
  <2>3. AccountedOnce'
    BY <1>3, <1>5, <1>6, <1>7, <2>1, <2>2 DEF AccountedOnce, Disjoint
  <2>4. QED
    BY <1>3, <1>4, <1>6, <1>7, <2>1, <2>2, <2>3 DEF B
<1>11. QED
  BY <1>9, <1>10 DEF Write

(* The clock, the shutdown and the ends of a flush move no transaction. *)
Quiet == \/ Tick
         \/ \E final \in BOOLEAN : StartFlush(final)
         \/ EndFlush
         \/ Shutdown
         \/ UNCHANGED vars

LEMMA OnceQuiet ==
  ASSUME TypeOK, AccountedOnce, Quiet
  PROVE  /\ AccountedOnce'
         /\ UNCHANGED <<InHand, Accounted(windows), Accounted(ready), Accounted(db), lost>>
<1>1. UNCHANGED <<conn, received, windows, ready, db, lost>>
  BY DEF Quiet, Tick, StartFlush, EndFlush, stopVars,
         Shutdown, MaintenanceEnds, AcceptFails, ListenerCloses, ServeReturns, Cancel, Exit,
         vars, connVars, memVars, flushVars, diskVars
<1>2. run' # "writing" => \A m \in Minutes : ready[m].entries = {}
  BY DEF Quiet, Tick, StartFlush, EndFlush, stopVars,
         Shutdown, MaintenanceEnds, AcceptFails, ListenerCloses, ServeReturns, Cancel, Exit, AccountedOnce,
         BatchOnlyWhileWriting, vars, flushVars
<1>3. /\ UNCHANGED <<InHand, Accounted(windows), Accounted(ready), Accounted(db)>>
      /\ NoDuplicates(windows)' /\ NoDuplicates(ready)' /\ NoDuplicates(db)'
      /\ OneHand'
      /\ BatchOnlyWhileWriting'
  BY <1>1, <1>2
     DEF AccountedOnce, InHand, Accounted, NoDuplicates, TxnsOf, OneHand, BatchOnlyWhileWriting
<1>4. QED
  BY <1>1, <1>3 DEF AccountedOnce, Disjoint

(* The disjuncts of Next, grouped by what they do to a transaction. *)
LEMMA NextCases ==
  ASSUME [Next]_vars
  PROVE  \/ \E c \in Conns, t \in Txns : Receive(c, t)
         \/ \E c \in Conns : Add(c)
         \/ TakeWindows
         \/ \E m \in Minutes : Write(m)
         \/ Quiet
BY DEF Next, Terminated, Quiet

LEMMA OnceNext == TypeOK /\ AccountedOnce /\ [Next]_vars => AccountedOnce'
BY NextCases, OnceReceive, OnceAdd, OnceTake, OnceWrite, OnceQuiet

(* Whatever the interleaving of connections, flushes, failed writes and    *)
(* shutdown, a transaction the listener counted is in exactly one place    *)
(* and accounted once: none is written twice, none vanishes before the end *)
(* of the process.                                                         *)
THEOREM Conservation == Spec => []AccountedOnce
<1>1. Init => AccountedOnce
  BY OnceInit
<1>2. TypeOK /\ AccountedOnce /\ [Next]_vars => AccountedOnce'
  BY OnceNext
<1>3. QED
  BY <1>1, <1>2, TypeCorrect, PTL DEF Spec

-----------------------------------------------------------------------------
(* Refinement. *)

LEMMA LedgerInit == Init => LedgerOf!Init
<1> SUFFICES ASSUME Init
             PROVE  LedgerOf!Init
  OBVIOUS
<1>1. AccountedOnce
  BY OnceInit
<1>2. received = {} /\ lost = {}
  BY DEF Init
<1>3. QED
  BY <1>1, <1>2 DEF LedgerOf!Init, AccountedOnce

(* Each step of the goroutines is a step of the ledger, or moves a         *)
(* transaction between places the ledger does not tell apart.              *)
LEMMA LedgerNext ==
  TypeOK /\ AccountedOnce /\ [Next]_vars => [LedgerOf!Next]_(LedgerOf!vars)
<1> SUFFICES ASSUME TypeOK, AccountedOnce, [Next]_vars
             PROVE  [LedgerOf!Next]_(LedgerOf!vars)
  OBVIOUS
<1>1. ASSUME NEW c \in Conns, NEW t \in Txns, Receive(c, t)
      PROVE  LedgerOf!Accept(t)
  <2>1. InHand' = InHand \cup {t}
    BY <1>1, OnceReceive
  <2>2. t \notin received /\ UNCHANGED <<windows, ready, db, lost>>
    BY <1>1 DEF Receive, memVars, flushVars, diskVars
  <2>3. UNCHANGED <<Accounted(windows), Accounted(ready), Accounted(db)>>
    BY <2>2 DEF Accounted, TxnsOf
  <2>4. QED
    BY <2>1, <2>2, <2>3 DEF LedgerOf!Accept, AccountedOnce
<1>2. ASSUME NEW c \in Conns, Add(c)
      PROVE  UNCHANGED LedgerOf!vars
  <2>1. UNCHANGED <<ready, db, lost>>
    BY <1>2 DEF Add, flushVars, diskVars
  <2>2. UNCHANGED <<Accounted(ready), Accounted(db)>>
    BY <2>1 DEF Accounted, TxnsOf
  <2>3. QED
    BY <1>2, <2>1, <2>2, OnceAdd DEF LedgerOf!vars
<1>3. CASE TakeWindows
  <2>1. UNCHANGED <<db, lost>>
    BY <1>3 DEF TakeWindows, diskVars
  <2>2. UNCHANGED Accounted(db)
    BY <2>1 DEF Accounted, TxnsOf
  <2>3. QED
    BY <1>3, <2>1, <2>2, OnceTake DEF LedgerOf!vars
<1>4. ASSUME NEW m \in Minutes, Write(m)
      PROVE  LedgerOf!Next
  <2> DEFINE B == TxnsOf(ready[m])
  <2>1. B \in SUBSET Txns
    BY DEF TxnsOf, TypeOK, Window, Entry
  <2>2. /\ UNCHANGED <<InHand, Accounted(windows)>>
        /\ Accounted(ready)' = Accounted(ready) \ B
        /\ B # {}
        /\ B \subseteq Accounted(ready)
        /\ \/ Accounted(db)' = Accounted(db) \cup B /\ UNCHANGED lost
           \/ lost' = lost \cup B /\ UNCHANGED Accounted(db)
    BY <1>4, OnceWrite
  <2>3. Disjoint(InHand \cup Accounted(windows), B)
    BY <2>2 DEF AccountedOnce, Disjoint
  <2> HIDE DEF B
  <2>4. LedgerOf!Persist(B) \/ LedgerOf!Lose(B)
    BY <2>2, <2>3 DEF LedgerOf!Persist, LedgerOf!Lose, Disjoint
  <2>5. QED
    BY <2>1, <2>4 DEF LedgerOf!Next
<1>5. CASE Quiet
  BY <1>5, OnceQuiet DEF LedgerOf!vars
<1>6. QED
  BY <1>1, <1>2, <1>3, <1>4, <1>5, NextCases DEF LedgerOf!Next

(* The daemon implements the ledger: it settles each transaction at most   *)
(* once, a whole window at a time, and the only way out of memory is the   *)
(* database or the count of the lost windows.                              *)
THEOREM ImplementsLedger == Spec => LedgerSpec
<1>1. Init => LedgerOf!Init
  BY LedgerInit
<1>2. TypeOK /\ AccountedOnce /\ [Next]_vars => [LedgerOf!Next]_(LedgerOf!vars)
  BY LedgerNext
<1>3. QED
  BY <1>1, <1>2, TypeCorrect, Conservation, PTL DEF Spec, LedgerSpec, LedgerOf!Spec

-----------------------------------------------------------------------------
(* The cardinality cap. *)

(* Inductive form of CapHolds: the cap compares the size of the whole map  *)
(* of series, which has to be finite for the comparison to bound anything. *)
CapInv ==
  /\ \A m \in Minutes : IsFiniteSet(Series(windows[m].entries))
  /\ CapHolds

(* A further entry adds at most three series. *)
LEMMA SeriesFinite ==
  ASSUME NEW E, NEW e, IsFiniteSet(Series(E))
  PROVE  IsFiniteSet(Series(E \cup {e}))
<1> DEFINE T == <<Key(e), "totale">>
           D == <<Key(e), "database">>
           X == <<Key(e), "esterne">>
           A == Series(E) \cup {T} \cup {D} \cup {X}
<1>1. IsFiniteSet(A)
  BY FS_AddElement
<1>2. Series(E \cup {e}) \subseteq A
  BY DEF Series
<1>3. QED
  BY <1>1, <1>2, FS_Subset

(* Names with a series of their own are among the series. *)
LEMMA OwnAmongSeries ==
  ASSUME NEW E, IsFiniteSet(Series(E))
  PROVE  /\ IsFiniteSet(OwnSeries(E))
         /\ Cardinality(OwnSeries(E)) \in Nat
         /\ Cardinality(Series(E)) \in Nat
         /\ Cardinality(OwnSeries(E)) <= Cardinality(Series(E))
<1>1. OwnSeries(E) \subseteq Series(E)
  BY DEF OwnSeries, Series
<1>2. QED
  BY <1>1, FS_Subset, FS_CardinalityType

(* The heart of the cap: what applyCardinalityCap answers keeps the names  *)
(* with a series of their own within MaxNames.                             *)
LEMMA CapStep ==
  ASSUME NEW E, NEW t, IsFiniteSet(Series(E)), Cardinality(OwnSeries(E)) <= MaxNames
  PROVE  LET e == [txn |-> t, name |-> ApplyCardinalityCap(E, t)]
         IN  Cardinality(OwnSeries(E \cup {e})) <= MaxNames
<1> DEFINE e == [txn |-> t, name |-> ApplyCardinalityCap(E, t)]
           k == <<Key(e), "totale">>
           own == [txn |-> t, name |-> t.name]
<1>1. MaxNames \in Nat
  BY OptionsAssumption
<1>2. CASE e.name = Overflow
  <2>1. OwnSeries(E \cup {e}) = OwnSeries(E)
    BY <1>2 DEF OwnSeries
  <2>2. QED
    BY <2>1
<1>3. CASE e.name # Overflow
  <2>1. OwnSeries(E \cup {e}) = OwnSeries(E) \cup {k}
    BY <1>3 DEF OwnSeries
  <2>2. e = own
    BY <1>3 DEF ApplyCardinalityCap
  <2>3. k \in Series(E) \/ Cardinality(Series(E)) < MaxNames
    BY <1>3, <2>2 DEF ApplyCardinalityCap
  <2>4. CASE k \in Series(E)
    <3>1. PICK x \in E : k = <<Key(x), "totale">>
      BY <2>4 DEF Series
    <3>2. x.name = e.name
      BY <3>1 DEF Key
    <3>3. k \in OwnSeries(E)
      BY <1>3, <3>1, <3>2 DEF OwnSeries
    <3>4. OwnSeries(E \cup {e}) = OwnSeries(E)
      BY <2>1, <3>3
    <3>5. QED
      BY <3>4
  <2>5. CASE Cardinality(Series(E)) < MaxNames
    <3> HIDE DEF k
    <3>1. /\ IsFiniteSet(OwnSeries(E))
          /\ Cardinality(OwnSeries(E)) \in Nat
          /\ Cardinality(Series(E)) \in Nat
          /\ Cardinality(OwnSeries(E)) <= Cardinality(Series(E))
      BY OwnAmongSeries
    <3>2. Cardinality(OwnSeries(E) \cup {k})
            = IF k \in OwnSeries(E) THEN Cardinality(OwnSeries(E))
                                    ELSE Cardinality(OwnSeries(E)) + 1
      BY <3>1, FS_AddElement
    <3>3. Cardinality(OwnSeries(E) \cup {k}) <= MaxNames
      BY <1>1, <2>5, <3>1, <3>2
    <3>4. QED
      BY <2>1, <3>3
  <2>6. QED
    BY <2>3, <2>4, <2>5
<1>4. QED
  BY <1>2, <1>3

LEMMA EmptyWithinCap ==
  /\ IsFiniteSet(Series({}))
  /\ Cardinality(OwnSeries({})) <= MaxNames
<1>1. Series({}) = {} /\ OwnSeries({}) = {}
  BY DEF Series, OwnSeries
<1>2. QED
  BY <1>1, FS_EmptySet, OptionsAssumption

LEMMA CapInit == Init => CapInv
<1> SUFFICES ASSUME Init
             PROVE  CapInv
  OBVIOUS
<1>1. \A m \in Minutes : windows[m].entries = {} /\ ready[m].entries = {}
  BY DEF Init, EmptyWindow
<1>2. QED
  BY <1>1, EmptyWithinCap DEF CapInv, CapHolds

LEMMA CapNext == TypeOK /\ CapInv /\ [Next]_vars => CapInv'
<1> SUFFICES ASSUME TypeOK, CapInv, [Next]_vars
             PROVE  CapInv'
  OBVIOUS
<1>1. ASSUME UNCHANGED <<windows, ready>>
      PROVE  CapInv'
  BY <1>1 DEF CapInv, CapHolds
<1>2. ASSUME NEW c \in Conns, Add(c)
      PROVE  CapInv'
  <2> DEFINE t == conn[c].txn
             m == conn[c].minute
             E == windows[m].entries
             e == [txn |-> t, name |-> ApplyCardinalityCap(E, t)]
  <2>1. m \in Minutes
    BY <1>2 DEF Add, TypeOK, InFlight
  <2>2. Merges(windows, windows', m, {e}) /\ UNCHANGED ready
    BY <1>2, <2>1 DEF Add, TypeOK, Merges, flushVars
  <2>3. IsFiniteSet(Series(E)) /\ Cardinality(OwnSeries(E)) <= MaxNames
    BY <2>1 DEF CapInv, CapHolds
  <2>4. IsFiniteSet(Series(E \cup {e}))
    BY <2>3, SeriesFinite
  <2>5. Cardinality(OwnSeries(E \cup {e})) <= MaxNames
    BY <2>3, CapStep
  <2> HIDE DEF e, t
  <2>6. ASSUME NEW n \in Minutes
        PROVE  /\ IsFiniteSet(Series(windows'[n].entries))
               /\ Cardinality(OwnSeries(windows'[n].entries)) <= MaxNames
               /\ Cardinality(OwnSeries(ready'[n].entries)) <= MaxNames
    <3>1. windows'[n].entries = IF n = m THEN E \cup {e} ELSE windows[n].entries
      BY <2>2 DEF Merges
    <3> HIDE DEF m
    <3>2. QED
      BY <2>2, <2>4, <2>5, <3>1 DEF CapInv, CapHolds
  <2>7. QED
    BY <2>6 DEF CapInv, CapHolds
<1>3. CASE TakeWindows
  <2>1. ASSUME NEW n \in Minutes
        PROVE  /\ windows'[n].entries \in {{}, windows[n].entries}
               /\ ready'[n].entries \in {{}, windows[n].entries}
    BY <1>3 DEF TakeWindows, EmptyWindow, TypeOK, Window
  <2>2. ASSUME NEW n \in Minutes
        PROVE  /\ IsFiniteSet(Series(windows'[n].entries))
               /\ Cardinality(OwnSeries(windows'[n].entries)) <= MaxNames
               /\ Cardinality(OwnSeries(ready'[n].entries)) <= MaxNames
    BY <2>1, EmptyWithinCap DEF CapInv, CapHolds
  <2>3. QED
    BY <2>2 DEF CapInv, CapHolds
<1>4. ASSUME NEW m \in Minutes, Write(m)
      PROVE  CapInv'
  <2>1. UNCHANGED windows
    BY <1>4 DEF Write, memVars
  <2>2. \A n \in Minutes : ready'[n].entries \in {{}, ready[n].entries}
    BY <1>4 DEF Write, EmptyWindow, TypeOK
  <2>3. QED
    BY <2>1, <2>2, EmptyWithinCap DEF CapInv, CapHolds
<1>5. ASSUME NEW c \in Conns, NEW t \in Txns, Receive(c, t)
      PROVE  CapInv'
  BY <1>1, <1>5 DEF Receive, memVars, flushVars
<1>6. CASE Quiet
  BY <1>1, <1>6 DEF Quiet, Tick, StartFlush, EndFlush, stopVars,
         Shutdown, MaintenanceEnds, AcceptFails, ListenerCloses, ServeReturns, Cancel, Exit, vars, memVars, flushVars
<1>7. QED
  BY <1>2, <1>3, <1>4, <1>5, <1>6, NextCases

(* The valve of applyCardinalityCap holds for every load: in memory and in *)
(* the batch handed to the store, a minute never has more than MaxNames    *)
(* names with metrics of their own.                                        *)
THEOREM CapIsRespected == Spec => []CapHolds
<1>1. Init => CapInv
  BY CapInit
<1>2. TypeOK /\ CapInv /\ [Next]_vars => CapInv'
  BY CapNext
<1>3. CapInv => CapHolds
  BY DEF CapInv
<1>4. QED
  BY <1>1, <1>2, <1>3, TypeCorrect, PTL DEF Spec

-----------------------------------------------------------------------------
(* The minutes in progress. *)

(* Why the flush of everything is a flush at shutdown: the argument all    *)
(* comes from the cancelled context, and the process outlives Run.         *)
FinalInv ==
  /\ all => phase # "serving"
  /\ phase = "exited" => run = "done"

LEMMA FinalNext == TypeOK /\ FinalInv /\ [Next]_vars => FinalInv'
<1> SUFFICES ASSUME TypeOK, FinalInv, [Next]_vars
             PROVE  FinalInv'
  OBVIOUS
<1>1. ASSUME NEW c \in Conns, NEW t \in Txns, Receive(c, t)
      PROVE  FinalInv'
  BY <1>1 DEF Receive, FinalInv, stopVars, flushVars
<1>2. ASSUME NEW c \in Conns, Add(c)
      PROVE  FinalInv'
  BY <1>2 DEF Add, FinalInv, stopVars, flushVars
<1>3. CASE TakeWindows
  BY <1>3 DEF TakeWindows, FinalInv, stopVars
<1>4. ASSUME NEW m \in Minutes, Write(m)
      PROVE  FinalInv'
  BY <1>4 DEF Write, FinalInv, stopVars
<1>5. ASSUME NEW final \in BOOLEAN, StartFlush(final)
      PROVE  FinalInv'
  BY <1>5 DEF StartFlush, Selected, FinalInv, stopVars
<1>6. CASE EndFlush
  BY <1>6 DEF EndFlush, FinalInv, stopVars
<1>7. CASE Tick \/ Shutdown \/ UNCHANGED vars
  BY <1>7 DEF Tick, Shutdown, MaintenanceEnds, AcceptFails, ListenerCloses, ServeReturns, Cancel, Exit,
              FinalInv, vars, stopVars, flushVars
<1>8. QED
  BY <1>1, <1>2, <1>3, <1>4, <1>5, <1>6, <1>7, NextCases DEF Quiet

(* Only the critical section of flush takes entries away from a window.    *)
LEMMA OpenMinuteStep ==
  TypeOK /\ FinalInv /\ [Next]_vars =>
    \A m \in Minutes :
      ~(windows[m].entries \subseteq windows'[m].entries) => m < clock \/ phase = "stopping"
<1> SUFFICES ASSUME TypeOK, FinalInv, [Next]_vars, NEW m \in Minutes,
                    ~(windows[m].entries \subseteq windows'[m].entries)
             PROVE  m < clock \/ phase = "stopping"
  OBVIOUS
<1>1. ASSUME NEW c \in Conns, Add(c)
      PROVE  FALSE
  <2>1. conn[c].minute \in Minutes
    BY <1>1 DEF Add, TypeOK, InFlight
  <2>2. windows[m].entries \subseteq windows'[m].entries
    BY <1>1, <2>1 DEF Add, TypeOK
  <2>3. QED
    BY <2>2
<1>2. CASE TakeWindows
  <2>1. Due(m)
    BY <1>2 DEF TakeWindows
  <2>2. run = "locking"
    BY <1>2 DEF TakeWindows
  <2>3. CASE all
    BY <2>2, <2>3 DEF FinalInv, TypeOK
  <2>4. CASE m < current
    <3>1. current \in Int /\ clock \in Int /\ m \in Int /\ current <= clock
      BY OptionsAssumption DEF TypeOK, Minutes
    <3>2. QED
      BY <2>4, <3>1
  <2>5. QED
    BY <2>1, <2>3, <2>4 DEF Due
<1>3. ASSUME UNCHANGED windows
      PROVE  FALSE
  BY <1>3
<1>4. ASSUME NEW n \in Minutes, Write(n)
      PROVE  FALSE
  BY <1>3, <1>4 DEF Write, memVars
<1>5. ASSUME NEW c \in Conns, NEW t \in Txns, Receive(c, t)
      PROVE  FALSE
  BY <1>3, <1>5 DEF Receive, memVars
<1>6. CASE Quiet
  BY <1>3, <1>6 DEF Quiet, Tick, StartFlush, EndFlush, stopVars,
         Shutdown, MaintenanceEnds, AcceptFails, ListenerCloses, ServeReturns, Cancel, Exit, vars, memVars
<1>7. QED
  BY <1>1, <1>2, <1>4, <1>5, <1>6, NextCases

(* A minute still in progress is never flushed while the daemon serves,    *)
(* although flush reads the clock before it gets the lock.                 *)
THEOREM OpenMinuteIsKept == Spec => OpenMinuteStays
<1>1. Init => FinalInv
  BY DEF Init, FinalInv
<1>2. TypeOK /\ FinalInv /\ [Next]_vars => FinalInv'
  BY FinalNext
<1>3. TypeOK /\ FinalInv /\ [Next]_vars =>
        [\A m \in Minutes :
           ~(windows[m].entries \subseteq windows'[m].entries)
             => m < clock \/ phase = "stopping"]_vars
  BY OpenMinuteStep
<1>4. QED
  BY <1>1, <1>2, <1>3, TypeCorrect, PTL DEF Spec, OpenMinuteStays

-----------------------------------------------------------------------------
(* The names of a window. *)

(* Inductive form of CapIsStable, for the entries of one window: an entry  *)
(* is under its own name or under the collecting one.                      *)
Stable(E) ==
  /\ \A e \in E : e.name \in {e.txn.name, Overflow}
  /\ \A e \in E : e.name = Overflow /\ e.txn.name # Overflow => Cardinality(Series(E)) >= MaxNames
  /\ \A a, b \in E :
       <<a.txn.app, a.txn.name, a.txn.kind>> = <<b.txn.app, b.txn.name, b.txn.kind>>
         => a.name = b.name

(* A name whose triple is already in the window has its series there, so   *)
(* that applyCardinalityCap answers for it what it answered the first time.*)
LEMMA StableStep ==
  ASSUME NEW E, NEW t, IsFiniteSet(Series(E)), Stable(E)
  PROVE  LET e == [txn |-> t, name |-> ApplyCardinalityCap(E, t)]
         IN  Stable(E \cup {e})
<1> DEFINE e == [txn |-> t, name |-> ApplyCardinalityCap(E, t)]
           own == [txn |-> t, name |-> t.name]
           k == <<Key(own), "totale">>
           N == Cardinality(Series(E))
           F == E \cup {e}
<1>1. /\ N \in Nat /\ Cardinality(Series(F)) \in Nat
      /\ N <= Cardinality(Series(F)) /\ MaxNames \in Nat
  <2>1. Series(E) \subseteq Series(F)
    BY DEF Series
  <2>2. IsFiniteSet(Series(F))
    BY SeriesFinite
  <2>3. QED
    BY <2>1, <2>2, FS_Subset, FS_CardinalityType, OptionsAssumption
<1>2. e.txn = t /\ e.name \in {t.name, Overflow}
  BY DEF ApplyCardinalityCap
<1>3. IF k \in Series(E) \/ N < MaxNames THEN e.name = t.name ELSE e.name = Overflow
  BY DEF ApplyCardinalityCap
<1>4. k \in Series(E) => \E x \in E : x.txn.app = t.app /\ x.txn.kind = t.kind /\ x.name = t.name
  BY DEF Series, Key
<1>5. ASSUME NEW x \in E, x.txn.app = t.app, x.txn.kind = t.kind, x.name = t.name
      PROVE  k \in Series(E)
  BY <1>5 DEF Series, Key
<1> HIDE DEF k, N, e
<1>6. ASSUME NEW a \in E, a.txn.app = t.app, a.txn.name = t.name, a.txn.kind = t.kind
      PROVE  a.name = e.name
  <2>1. a.name \in {t.name, Overflow}
    BY <1>6 DEF Stable
  <2>2. CASE t.name = Overflow
    BY <1>2, <2>1, <2>2
  <2>3. CASE t.name # Overflow /\ k \in Series(E)
    <3>1. PICK x \in E : x.txn.app = t.app /\ x.txn.kind = t.kind /\ x.name = t.name
      BY <1>4, <2>3
    <3>2. x.txn.name = t.name
      BY <2>3, <3>1 DEF Stable
    <3>3. a.name = x.name
      BY <1>6, <3>1, <3>2 DEF Stable
    <3>4. QED
      BY <1>3, <2>3, <3>1, <3>3
  <2>4. CASE t.name # Overflow /\ k \notin Series(E)
    <3>1. a.name = Overflow
      BY <1>5, <1>6, <2>1, <2>4
    <3>2. N >= MaxNames
      BY <1>6, <2>4, <3>1 DEF Stable, N
    <3>3. QED
      BY <1>1, <1>3, <2>4, <3>1, <3>2
  <2>5. QED
    BY <2>2, <2>3, <2>4
<1>7. e.name = Overflow /\ t.name # Overflow => N >= MaxNames
  BY <1>1, <1>3
<1>8. \A x \in F : x.name \in {x.txn.name, Overflow}
  BY <1>2 DEF Stable
<1>9. \A x \in F : x.name = Overflow /\ x.txn.name # Overflow => Cardinality(Series(F)) >= MaxNames
  <2>1. \A x \in F : x.name = Overflow /\ x.txn.name # Overflow => N >= MaxNames
    BY <1>2, <1>7 DEF Stable, N
  <2>2. QED
    BY <1>1, <2>1
<1>10. \A a, b \in F :
         <<a.txn.app, a.txn.name, a.txn.kind>> = <<b.txn.app, b.txn.name, b.txn.kind>>
           => a.name = b.name
  BY <1>2, <1>6 DEF Stable
<1>11. QED
  BY <1>8, <1>9, <1>10 DEF Stable, e

(* The entries of a window are those of before, one more, or none.         *)
LEMMA WindowSteps ==
  ASSUME TypeOK, [Next]_vars, NEW m \in Minutes
  PROVE  \/ windows'[m] = windows[m] /\ slowest'[m] = slowest[m]
         \/ windows'[m] = EmptyWindow /\ slowest'[m] = {}
         \/ \E c \in Conns : Add(c) /\ conn[c].minute = m
<1>1. ASSUME NEW c \in Conns, Add(c)
      PROVE  \/ windows'[m] = windows[m] /\ slowest'[m] = slowest[m]
             \/ conn[c].minute = m
  BY <1>1 DEF Add, TypeOK
<1>2. CASE TakeWindows
  BY <1>2 DEF TakeWindows
<1>3. ASSUME NEW n \in Minutes, Write(n)
      PROVE  UNCHANGED <<windows, slowest>>
  BY <1>3 DEF Write, memVars
<1>4. ASSUME NEW c \in Conns, NEW t \in Txns, Receive(c, t)
      PROVE  UNCHANGED <<windows, slowest>>
  BY <1>4 DEF Receive, memVars
<1>5. CASE Quiet
  BY <1>5 DEF Quiet, Tick, StartFlush, EndFlush, stopVars,
         Shutdown, MaintenanceEnds, AcceptFails, ListenerCloses, ServeReturns, Cancel, Exit, vars, memVars
<1>6. QED
  BY <1>1, <1>2, <1>3, <1>4, <1>5, NextCases

StableInv == \A m \in Minutes : Stable(windows[m].entries)

LEMMA StableNext == TypeOK /\ CapInv /\ StableInv /\ [Next]_vars => StableInv'
<1> SUFFICES ASSUME TypeOK, CapInv, StableInv, [Next]_vars, NEW m \in Minutes
             PROVE  Stable(windows'[m].entries)
  BY DEF StableInv
<1>1. CASE windows'[m] = windows[m]
  BY <1>1 DEF StableInv
<1>2. CASE windows'[m] = EmptyWindow
  BY <1>2 DEF Stable, EmptyWindow
<1>3. ASSUME NEW c \in Conns, Add(c), conn[c].minute = m
      PROVE  Stable(windows'[m].entries)
  <2> DEFINE t == conn[c].txn
             E == windows[m].entries
             e == [txn |-> t, name |-> ApplyCardinalityCap(E, t)]
  <2>1. windows'[m].entries = E \cup {e}
    BY <1>3 DEF Add, TypeOK
  <2>2. IsFiniteSet(Series(E)) /\ Stable(E)
    BY DEF CapInv, StableInv
  <2> HIDE DEF E, t
  <2>3. Stable(E \cup {e})
    BY <2>2, StableStep
  <2>4. QED
    BY <2>1, <2>3
<1>4. QED
  BY <1>1, <1>2, <1>3, WindowSteps

(* The valve of applyCardinalityCap closes only on a full window, and in a *)
(* window the metrics of an (app, name, kind) are all under one name, for  *)
(* every load and every cap.                                               *)
THEOREM CapStaysStable == Spec => []CapIsStable
<1>1. Init => StableInv
  BY DEF Init, StableInv, Stable, EmptyWindow
<1>2. Init => CapInv
  BY CapInit
<1>3. TypeOK /\ CapInv /\ [Next]_vars => CapInv'
  BY CapNext
<1>4. TypeOK /\ CapInv /\ StableInv /\ [Next]_vars => StableInv'
  BY StableNext
<1>5. StableInv => CapIsStable
  BY DEF StableInv, Stable, CapIsStable
<1>6. QED
  BY <1>1, <1>2, <1>3, <1>4, <1>5, TypeCorrect, PTL DEF Spec

-----------------------------------------------------------------------------
(* The traces of a window. *)

Keeps(e) == e.txn.error \/ e.txn.dur >= Threshold

(* Inductive form of TracesAreChosen, for the entries E of a window, its   *)
(* traces T and the entries S that slowest follows: the caps compare the   *)
(* sizes of T and S, which have to be finite, and S may not outgrow its    *)
(* own.                                                                    *)
Traced(E, T) ==
  /\ T \subseteq E /\ IsFiniteSet(T) /\ Cardinality(T) <= TraceMax
  /\ \A e \in E \ T : Keeps(e) => Cardinality(T) = TraceMax

Followed(R, S) ==
  /\ S \subseteq R /\ IsFiniteSet(S) /\ Cardinality(S) <= SlowestNames
  /\ \A a, b \in S : a.name = b.name => a = b
  /\ \A e \in R : IF \E s \in S : s.name = e.name
                 THEN \E s \in S : s.name = e.name /\ s.txn.dur >= e.txn.dur
                 ELSE Cardinality(S) = SlowestNames

(* keepTrace. *)
LEMMA TracedStep ==
  ASSUME NEW E, NEW T, Traced(E, T), NEW e, e \notin E
  PROVE  IF KeepTrace(e.txn, T) THEN Traced(E \cup {e}, T \cup {e}) ELSE Traced(E \cup {e}, T)
<1>1. Cardinality(T) \in Nat /\ TraceMax \in Nat
  BY FS_CardinalityType, OptionsAssumption DEF Traced
<1>2. CASE KeepTrace(e.txn, T)
  <2>1. /\ Cardinality(T) < TraceMax /\ IsFiniteSet(T \cup {e})
        /\ Cardinality(T \cup {e}) = Cardinality(T) + 1
    <3>1. IsFiniteSet(T) /\ e \notin T
      BY DEF Traced
    <3>2. QED
      BY <1>2, <3>1, FS_AddElement DEF KeepTrace
  <2>2. \A x \in (E \cup {e}) \ (T \cup {e}) : ~Keeps(x)
    BY <1>1, <2>1 DEF Traced
  <2>3. Cardinality(T \cup {e}) <= TraceMax
    BY <1>1, <2>1
  <2>4. Traced(E \cup {e}, T \cup {e})
    BY <2>1, <2>2, <2>3 DEF Traced
  <2>5. QED
    BY <1>2, <2>4
<1>3. CASE ~KeepTrace(e.txn, T)
  <2>1. Keeps(e) => Cardinality(T) = TraceMax
    BY <1>1, <1>3 DEF KeepTrace, Keeps, Traced
  <2>2. QED
    BY <1>3, <2>1 DEF Traced
<1>4. QED
  BY <1>2, <1>3

(* trackSlowest. *)
LEMMA FollowedStep ==
  ASSUME NEW R, NEW S, Followed(R, S), NEW e, e \notin R, e.txn.dur \in Nat,
         \A x \in R : x.txn.dur \in Nat
  PROVE  Followed(R \cup {e}, TrackSlowest(S, e))
<1> DEFINE same == {x \in S : x.name = e.name}
           F == R \cup {e}
           N == Cardinality(S)
           U == (S \ same) \cup {e}
<1>1. N \in Nat /\ SlowestNames \in Nat /\ N <= SlowestNames /\ IsFiniteSet(S) /\ S \subseteq R /\ e \notin S
  BY FS_CardinalityType, OptionsAssumption DEF Followed
<1> HIDE DEF N
<1>2. CASE \E x \in same : x.txn.dur >= e.txn.dur
  <2>1. TrackSlowest(S, e) = S
    BY <1>2 DEF TrackSlowest
  <2>2. \E s \in S : s.name = e.name /\ s.txn.dur >= e.txn.dur
    BY <1>2
  <2>3. QED
    BY <2>1, <2>2 DEF Followed
<1>3. CASE same = {} /\ N >= SlowestNames
  <2>1. TrackSlowest(S, e) = S
    BY <1>3 DEF TrackSlowest, N
  <2>2. ~(\E s \in S : s.name = e.name) /\ N = SlowestNames
    BY <1>1, <1>3
  <2>3. QED
    BY <2>1, <2>2 DEF Followed, N
<1>4. CASE /\ ~\E x \in same : x.txn.dur >= e.txn.dur
           /\ ~(same = {} /\ N >= SlowestNames)
  <2>1. TrackSlowest(S, e) = U
    BY <1>4 DEF TrackSlowest, N
  <2>2. \A x \in same : x.txn.dur < e.txn.dur
    BY <1>1, <1>4
  <2>3. /\ IsFiniteSet(U)
        /\ IF same = {} THEN Cardinality(U) = N + 1 ELSE Cardinality(U) = N
    <3>1. IsFiniteSet(S \ same) /\ e \notin S \ same
      BY <1>1, FS_Subset
    <3>2. IsFiniteSet(U) /\ Cardinality(U) = Cardinality(S \ same) + 1
      BY <3>1, FS_AddElement
    <3>3. CASE same = {}
      <4>1. S \ same = S
        BY <3>3
      <4>2. QED
        BY <3>2, <3>3, <4>1 DEF N
    <3>4. CASE same # {}
      <4>1. PICK x \in S : x \in same
        BY <3>4
      <4>2. same = {x}
        BY <4>1 DEF Followed
      <4>3. Cardinality(S \ {x}) = N - 1
        BY <1>1, <4>1, FS_RemoveElement DEF N
      <4>4. Cardinality(U) = (N - 1) + 1
        BY <3>2, <4>2, <4>3
      <4>5. QED
        BY <1>1, <3>2, <3>4, <4>4
    <3>5. QED
      BY <3>3, <3>4
  <2>4. Cardinality(U) <= SlowestNames
    BY <1>1, <1>4, <2>3
  <2>5. \A a, b \in U : a.name = b.name => a = b
    BY DEF Followed
  <2>6. ASSUME NEW x \in F
        PROVE  IF \E s \in U : s.name = x.name
               THEN \E s \in U : s.name = x.name /\ s.txn.dur >= x.txn.dur
               ELSE Cardinality(U) = SlowestNames
    <3>1. CASE x = e
      <4>1. e \in U /\ e.txn.dur >= e.txn.dur
        OBVIOUS
      <4>2. QED
        BY <3>1, <4>1
    <3>2. CASE x \in R /\ x.name = e.name
      <4>1. PICK s \in S : s.name = x.name /\ s.txn.dur >= x.txn.dur
        <5>1. CASE same = {}
          <6>1. ~\E s \in S : s.name = x.name
            BY <3>2, <5>1
          <6>2. N = SlowestNames
            BY <3>2, <6>1 DEF Followed, N
          <6>3. QED
            BY <1>1, <1>4, <5>1, <6>2
        <5>2. CASE same # {}
          <6>1. \E s \in S : s.name = x.name
            BY <3>2, <5>2
          <6>2. QED
            BY <3>2, <6>1 DEF Followed
        <5>3. QED
          BY <5>1, <5>2
      <4>2. s \in same /\ s \in R
        BY <1>1, <3>2, <4>1
      <4>3. s.txn.dur < e.txn.dur
        BY <2>2, <4>2
      <4>4. e \in U /\ e.txn.dur >= x.txn.dur
        BY <3>2, <4>1, <4>2, <4>3
      <4>5. QED
        BY <3>2, <4>4
    <3>3. CASE x \in R /\ x.name # e.name
      <4>1. CASE \E s \in S : s.name = x.name
        <5>1. PICK s \in S : s.name = x.name /\ s.txn.dur >= x.txn.dur
          BY <3>3, <4>1 DEF Followed
        <5>2. s \in U
          BY <3>3, <5>1
        <5>3. QED
          BY <5>1, <5>2
      <4>2. CASE ~\E s \in S : s.name = x.name
        <5>1. N = SlowestNames
          BY <3>3, <4>2 DEF Followed, N
        <5>2. same # {}
          BY <1>1, <1>4, <5>1
        <5>3. Cardinality(U) = SlowestNames
          BY <2>3, <5>1, <5>2
        <5>4. ~\E s \in U : s.name = x.name
          BY <3>3, <4>2
        <5>5. QED
          BY <5>3, <5>4
      <4>3. QED
        BY <4>1, <4>2
    <3>4. QED
      BY <3>1, <3>2, <3>3
  <2>7. U \subseteq F
    BY <1>1
  <2> HIDE DEF U
  <2>8. Followed(F, U)
    BY <2>3, <2>4, <2>5, <2>6, <2>7 DEF Followed
  <2>9. QED
    BY <2>1, <2>8
<1>5. QED
  BY <1>2, <1>3, <1>4

(* A kept trace leaves what has none as it was: the new entry is not among *)
(* those of before, so the slowest need not look at it.                    *)
LEMMA TracesAdd ==
  ASSUME NEW E, NEW T, NEW S, Traced(E, T), Followed(E \ T, S), NEW e, e \notin E,
         e.txn.dur \in Nat, \A x \in E : x.txn.dur \in Nat, NEW F, F = E \cup {e},
         NEW V, V = IF KeepTrace(e.txn, T) THEN T \cup {e} ELSE T
  PROVE  Traced(F, V) /\ Followed(F \ V, SlowestAfter(S, e, KeepTrace(e.txn, T)))
<1>1. e \notin T
  BY DEF Traced
<1>2. CASE KeepTrace(e.txn, T)
  <2>1. Traced(E \cup {e}, T \cup {e})
    BY <1>2, TracedStep
  <2>2. (E \cup {e}) \ (T \cup {e}) = E \ T
    OBVIOUS
  <2>3. QED
    BY <1>2, <2>1, <2>2 DEF SlowestAfter
<1>3. CASE ~KeepTrace(e.txn, T)
  <2>1. Traced(E \cup {e}, T)
    BY <1>3, TracedStep
  <2>2. (E \cup {e}) \ T = (E \ T) \cup {e}
    BY <1>1
  <2>3. Followed((E \ T) \cup {e}, TrackSlowest(S, e))
    BY FollowedStep
  <2>4. QED
    BY <1>3, <2>1, <2>2, <2>3 DEF SlowestAfter
<1>4. QED
  BY <1>2, <1>3

TracesInv ==
  \A m \in Minutes : /\ Traced(windows[m].entries, windows[m].traces)
                     /\ Followed(windows[m].entries \ windows[m].traces, slowest[m])

LEMMA TracesEmpty == Traced({}, {}) /\ Followed({}, {})
BY FS_EmptySet, OptionsAssumption DEF Traced, Followed

LEMMA TracesInit == Init => TracesInv
<1> SUFFICES ASSUME Init, NEW m \in Minutes
             PROVE  windows[m].entries = {} /\ windows[m].traces = {} /\ slowest[m] = {}
  BY TracesEmpty DEF TracesInv
<1>1. QED
  BY DEF Init, EmptyWindow

LEMMA TracesNext == TypeOK /\ AccountedOnce /\ TracesInv /\ [Next]_vars => TracesInv'
<1> SUFFICES ASSUME TypeOK, AccountedOnce, TracesInv, [Next]_vars, NEW m \in Minutes
             PROVE  /\ Traced(windows'[m].entries, windows'[m].traces)
                    /\ Followed(windows'[m].entries \ windows'[m].traces, slowest'[m])
  BY DEF TracesInv
<1>1. CASE windows'[m] = windows[m] /\ slowest'[m] = slowest[m]
  BY <1>1 DEF TracesInv
<1>2. CASE windows'[m] = EmptyWindow /\ slowest'[m] = {}
  <2>1. windows'[m].entries = {} /\ windows'[m].traces = {}
    BY <1>2 DEF EmptyWindow
  <2>2. QED
    BY <1>2, <2>1, TracesEmpty
<1>3. ASSUME NEW c \in Conns, Add(c), conn[c].minute = m
      PROVE  /\ Traced(windows'[m].entries, windows'[m].traces)
             /\ Followed(windows'[m].entries \ windows'[m].traces, slowest'[m])
  <2> DEFINE t == conn[c].txn
             E == windows[m].entries
             T == windows[m].traces
             e == [txn |-> t, name |-> ApplyCardinalityCap(E, t)]
  <2>1. /\ windows'[m].entries = E \cup {e}
        /\ windows'[m].traces = IF KeepTrace(e.txn, T) THEN T \cup {e} ELSE T
        /\ slowest'[m] = SlowestAfter(slowest[m], e, KeepTrace(e.txn, T))
    BY <1>3 DEF Add, TypeOK
  <2>2. t \in Txns /\ t \in InHand
    BY <1>3 DEF Add, TypeOK, InFlight, InHand
  <2>3. e \notin E
    <3>1. t \notin TxnsOf(windows[m])
      BY <2>2 DEF AccountedOnce, Disjoint, Accounted
    <3>2. QED
      BY <3>1 DEF TxnsOf
  <2>4. e.txn = t /\ e.txn.dur \in Nat /\ \A x \in E : x.txn.dur \in Nat
    BY <2>2, TxnsAssumption DEF IsTxn, TypeOK, Window, Entry
  <2>5. Traced(E, T) /\ Followed(E \ T, slowest[m])
    BY DEF TracesInv
  <2> DEFINE F == windows'[m].entries
             V == windows'[m].traces
             S == slowest[m]
  <2> HIDE DEF E, T, e, F, V, S
  <2>6. F = E \cup {e} /\ V = IF KeepTrace(e.txn, T) THEN T \cup {e} ELSE T
    BY <2>1 DEF F, V
  <2>7. Traced(E, T) /\ Followed(E \ T, S)
    BY <2>5 DEF S
  <2>8. Traced(F, V) /\ Followed(F \ V, SlowestAfter(S, e, KeepTrace(e.txn, T)))
    BY <2>3, <2>4, <2>6, <2>7, TracesAdd
  <2>9. QED
    BY <2>1, <2>8 DEF F, V, S
<1>4. QED
  BY <1>1, <1>2, <1>3, WindowSteps

(* keepTrace and trackSlowest, for every order of arrival: a failed or     *)
(* slow transaction has no trace only when the minute is full of them, and *)
(* what is kept for a name is the slowest of those without.  It needs that *)
(* a transaction is accounted once (Conservation): a second entry would be *)
(* both a trace and a candidate.                                           *)
THEOREM TracesStayChosen == Spec => []TracesAreChosen
<1>1. Init => TracesInv
  BY TracesInit
<1>2. TypeOK /\ AccountedOnce /\ TracesInv /\ [Next]_vars => TracesInv'
  BY TracesNext
<1>3. TracesInv => TracesAreChosen
  <2> SUFFICES ASSUME TracesInv
               PROVE  TracesAreChosen
    OBVIOUS
  <2>1. TraceRule
    BY DEF TracesInv, Traced, TraceRule, Keeps
  <2>2. SlowestIsSlowest
    BY DEF TracesInv, Followed, SlowestIsSlowest
  <2>3. SlowestBelongs
    BY DEF TracesInv, Followed, SlowestBelongs
  <2>4. QED
    BY <2>1, <2>2, <2>3 DEF TracesAreChosen
<1>4. QED
  BY <1>1, <1>2, <1>3, TypeCorrect, Conservation, PTL DEF Spec
=============================================================================
