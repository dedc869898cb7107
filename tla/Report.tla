-------------------------------- MODULE Report --------------------------------
(***************************************************************************)
(* What the web pages say of one request: the trace the daemon builds from *)
(* it (agg/aggregator.go) and stores (store/traces.go), the rows of its    *)
(* waterfall and the findings about it (store/rilievi.go).  Composes them  *)
(* with the frame it comes from (Codec).  Times are in milliseconds.       *)
(***************************************************************************)
EXTENDS Codec

CONSTANTS
  Thresholds,    \* the thresholds a reader of the page may ask for
  CollapseAt,    \* how many equal queries under one parent become one row
  RepeatedAt,    \* how many equal queries of a trace make a suspect
  MinFinding,    \* the least time worth a finding
  MaxFindings    \* how many findings a page shows

VARIABLES
  trace,     \* the row of traces, and then the Trace the page loads
  soglia,    \* the threshold of the page
  rows,      \* the rows it shows
  findings   \* what the page says to look at

reportVars == <<trace, soglia, rows, findings>>
vars == <<requestVars, codecVars, reportVars>>

-----------------------------------------------------------------------------
(* The trace. *)

(* The attributes of a span become a map: of equal keys the last one stays. *)
AttrMap(attrs) ==
  [key \in {attrs[i].key : i \in DOMAIN attrs} |->
     attrs[Max({i \in DOMAIN attrs : attrs[i].key = key})].v]

(* The root has no parent in the trace, even when a remote one called it.  *)
NoParent == -1

TraceSpan(i, s) ==
  [id |-> s.id, parent |-> IF i = 1 THEN NoParent ELSE s.parent, name |-> s.name,
   offset |-> Max({0, s.start - got.numbers[7]}), dur |-> s.dur, chiamate |-> s.chiamate,
   interne |-> s.interne, def |-> s.def, pila |-> SelectSeq(s.pila, LAMBDA f : f # ""),
   attrs |-> AttrMap(s.attrs)]

(* buildTrace, written by writeTraces and read again by Trace.             *)
BuiltTrace ==
  [dur |-> got.numbers[8], dropped |-> got.numbers[14],
   spans |-> [i \in DOMAIN got.spans |-> TraceSpan(i, got.spans[i])], profilo |-> got.profilo]

Keep ==
  /\ phase = "decoded"
  /\ phase' = "kept"
  /\ trace' = BuiltTrace
  /\ UNCHANGED <<uri, txn, spans, codecVars, soglia, rows, findings>>

-----------------------------------------------------------------------------
(* The waterfall. *)

Spans == trace.spans

Attr(s, key) == IF key \in DOMAIN s.attrs THEN s.attrs[key] ELSE ""
Statement(s) == Attr(s, "db.statement")
HostOf(s) == Attr(s, "server.address")

Total(durations) == FoldLeft(LAMBDA a, b : a + b, 0, durations)
TimeOf(places) == MapThenSumSet(LAMBDA i : Spans[i].dur, places)

(* A mutant of IsRoot: a parent that is not there is not looked for.       *)
HasNoParent(i) == Spans[i].parent = NoParent

(* A span whose parent is not there is shown like the root.                *)
IsRoot(i) == \A j \in DOMAIN Spans : Spans[j].id # Spans[i].parent

Roots == SelectSeq([i \in DOMAIN Spans |-> i], IsRoot)

(* The children of a span, by their offsets and then by their places.      *)
Kids(i) ==
  SetToSortSeq({k \in DOMAIN Spans : ~IsRoot(k) /\ Spans[k].parent = Spans[i].id},
               LAMBDA a, b : \/ Spans[a].offset < Spans[b].offset
                             \/ Spans[a].offset = Spans[b].offset /\ a < b)

Same(kids, i) ==
  IF Statement(Spans[i]) = "" THEN {i}
  ELSE {k \in ToSet(kids) : Statement(Spans[k]) = Statement(Spans[i])}

Row(i, depth, dur, own, ripetuto) ==
  [span |-> i, depth |-> depth, dur |-> dur, propri |-> own, ripetuto |-> ripetuto]

(* A mutant of Own: the time of the children is not taken away.           *)
OwnIsWhole(dur, children) == dur

Own(dur, children) == IF dur > children THEN dur - children ELSE 0

(* Waterfall, its visit of a span at each depth: the span, then each of    *)
(* its children, but equal queries together in a row at the first of them. *)
Visit[i \in DOMAIN Spans, depth \in 0..Len(Spans)] ==
  LET kids == Kids(i)
      Earlier(k) == {kids[j] : j \in 1..(SelectInSeq(kids, LAMBDA e : e = k) - 1)}
      RowsOf(k) ==
        LET same == Same(kids, k)
        IN  IF Cardinality(same) < CollapseAt THEN Visit[k, depth + 1]
            ELSE IF same \cap Earlier(k) # {} THEN <<>>
            ELSE <<Row(k, depth + 1, TimeOf(same), TimeOf(same), Cardinality(same))>>
  IN  <<Row(i, depth, Spans[i].dur, Own(Spans[i].dur, TimeOf(ToSet(kids))), 0)>>
        \o FlattenSeq([j \in DOMAIN kids |-> RowsOf(kids[j])])

AllRows == FlattenSeq([i \in DOMAIN Roots |-> Visit[Roots[i], 0]])

(* A mutant of BelowAfter: what is kept in one branch counts for the others. *)
BelowForever(below, depth, keep) == below \cup (IF keep /\ depth > 0 THEN {depth} ELSE {})

BelowAfter(below, depth, keep) ==
  {d \in below : d <= depth} \cup (IF keep /\ depth > 0 THEN {depth} ELSE {})

(* filtraPerDurata, backwards: below tells at each depth whether a row to  *)
(* keep follows under the one at hand.                                     *)
Filtered(all, threshold) ==
  LET step(row, acc) ==
        LET keep == row.depth = 0 \/ row.dur >= threshold \/ row.depth + 1 \in acc.below
        IN  [out |-> IF keep THEN <<row>> \o acc.out ELSE acc.out,
             below |-> BelowAfter(acc.below, row.depth, keep)]
  IN  IF threshold <= 0 THEN all ELSE FoldRight(step, all, [out |-> <<>>, below |-> {}]).out

-----------------------------------------------------------------------------
(* The findings. *)

Worth == Max({MinFinding * 20, trace.dur})   \* twenty times the threshold

Statements == {Statement(Spans[i]) : i \in DOMAIN Spans} \ {""}

(* RiepilogoQuery. *)
Executions(statement) == {i \in DOMAIN Spans : Statement(Spans[i]) = statement}

(* propriDi: by parent, wherever the children are. *)
OwnTime(i) ==
  Own(Spans[i].dur, TimeOf({k \in DOMAIN Spans : Spans[k].parent = Spans[i].id /\ k # 1}))

Finding(tipo, what, ms) == [tipo |-> tipo, what |-> what, ms |-> ms]

CodeKind(s, own) ==
  IF 2 * s.interne > own THEN "span"
  ELSE IF s.chiamate < 50 /\ 10 * s.interne < own THEN "attesa" ELSE "span"

(* A mutant of IsCode: calls of the network are taken for code.           *)
IsNotQuery(s) == Statement(s) = ""

IsCode(s) == Statement(s) = "" /\ HostOf(s) = ""

Profiles == {p \in ToSet(trace.profilo) : 20 * p.nano >= Worth}
Repeated == {q \in Statements : /\ Cardinality(Executions(q)) >= RepeatedAt
                                /\ 40 * TimeOf(Executions(q)) >= Worth}
SlowQueries == {i \in DOMAIN Spans : Statement(Spans[i]) # "" /\ 20 * Spans[i].dur >= Worth}
SlowCode == {i \in DOMAIN Spans : /\ IsCode(Spans[i]) /\ Spans[i].parent # NoParent
                                  /\ 20 * OwnTime(i) >= Worth}

(* Rilievi before they are cut to MaxFindings: a set, ties in any order.   *)
AllFindings ==
  {Finding("profilo", p.funzione, p.nano) : p \in Profiles}
    \cup {Finding("ripetizione", q, TimeOf(Executions(q))) : q \in Repeated}
    \cup {Finding("query", ToString(i), Spans[i].dur) : i \in SlowQueries}
    \cup {Finding(CodeKind(Spans[i], OwnTime(i)), ToString(i), OwnTime(i)) : i \in SlowCode}

(* The MaxFindings most expensive ones, ties in any order.                 *)
Shown(all, some) ==
  /\ Cardinality(some) = Min({Cardinality(all), MaxFindings})
  /\ \A f \in some, g \in all \ some : f.ms >= g.ms

(* A reader opens the page of the trace. *)
Show(threshold) ==
  /\ phase = "kept"
  /\ phase' = "shown"
  /\ soglia' = threshold
  /\ rows' = Filtered(AllRows, threshold)
  /\ \E some \in SUBSET AllFindings : Shown(AllFindings, some) /\ findings' = some
  /\ UNCHANGED <<uri, txn, spans, codecVars, trace>>

-----------------------------------------------------------------------------

Init ==
  /\ CodecInit
  /\ trace = [dur |-> 0, dropped |-> 0, spans |-> <<>>, profilo |-> <<>>]
  /\ soglia = 0 /\ rows = <<>> /\ findings = {}

CallsMade == [f : DOMAIN Functions, d : CallTimes]

Script ==
  \/ \E name \in Names : NameTransaction(name) \/ BackgroundTransaction(name)
  \/ Ignore
  \/ \E attr \in Attributes : AddAttribute(attr)
  \/ \E type \in ErrorTypes : PhpError(type)
  \/ \E class \in Classes : Throw(class) \/ NoticeError(class)
  \/ Call
  \/ \E call \in CallsMade, inner \in {<<>>} \cup {<<c>> : c \in CallsMade} : Profile(call, inner)
  \/ \E body \in SpanBodies, parent \in {0} \cup (Len(spans) + 2)..MaxItems : RecordSpan(body, parent)
  \/ \E duration \in Durations : EndRequest(duration)

Transport == PostDeactivate \/ Encode \/ ReadTable \/ ReadTransaction \/ ReadSpan \/ ReadEvents \/ ReadProfilo

Next ==
  \/ Script /\ UNCHANGED <<codecVars, reportVars>>
  \/ Transport /\ UNCHANGED reportVars
  \/ Keep
  \/ \E threshold \in Thresholds : Show(threshold)

Spec == Init /\ [][Next]_vars

-----------------------------------------------------------------------------
(* Properties. *)

Shows == phase = "shown"

Stands(row, i) ==
  IF row.ripetuto = 0 THEN row.span = i
  ELSE /\ Spans[i].parent = Spans[row.span].parent
       /\ Statement(Spans[i]) = Statement(Spans[row.span])

(* The row under which a row stands: the last one before it less deep.     *)
Above(all, j) == Max({k \in 1..j - 1 : all[k].depth < all[j].depth})

(* With no threshold the waterfall shows every span once, in a row of its  *)
(* own or in one that says how many it stands for, right under its parent  *)
(* if that was recorded and at depth 0 if not, brothers by their offsets.  *)
RowsCoverSpans ==
  Shows /\ soglia = 0 =>
    /\ \A i \in DOMAIN Spans : Cardinality({j \in DOMAIN rows : Stands(rows[j], i)}) = 1
    /\ \A j \in DOMAIN rows :
         /\ rows[j].ripetuto > 0 =>
              rows[j].ripetuto = Cardinality({i \in DOMAIN Spans : Stands(rows[j], i)})
         /\ IF IsRoot(rows[j].span) THEN rows[j].depth = 0
            ELSE LET above == rows[Above(rows, j)]
                 IN  /\ Spans[above.span].id = Spans[rows[j].span].parent
                     /\ rows[j].depth = above.depth + 1
    /\ \A j, k \in DOMAIN rows :
         j < k /\ rows[j].depth > 0 /\ Spans[rows[j].span].parent = Spans[rows[k].span].parent
           => Spans[rows[j].span].offset <= Spans[rows[k].span].offset

Overlap == \E i \in DOMAIN Spans : TimeOf(ToSet(Kids(i))) > Spans[i].dur

(* The own times of the rows add up to the time of the roots: none is lost *)
(* or counted twice, unless brothers overlap.                              *)
SelfTimeAddsUp ==
  Shows /\ soglia = 0 /\ ~Overlap =>
    Total([j \in DOMAIN rows |-> rows[j].propri]) = TimeOf(ToSet(Roots))

(* A row is hidden only if it is short and so is all that hangs from it,   *)
(* and a row that is shown is shown under the row of its parent.           *)
HiddenRowsAreShort ==
  Shows /\ soglia > 0 =>
    LET Hangs(k, j) == k < j /\ \A m \in k + 1..j : AllRows[m].depth > AllRows[k].depth
        Matters(k) == \/ AllRows[k].depth = 0 \/ AllRows[k].dur >= soglia
                      \/ \E j \in DOMAIN AllRows : Hangs(k, j) /\ AllRows[j].dur >= soglia
        kept == SelectSeq([k \in DOMAIN AllRows |-> k], Matters)
    IN  rows = [m \in DOMAIN kept |-> AllRows[kept[m]]]

(* What says at the daemon that a span is a query or a call of the network.*)
Told(a) == a.key \in {"db.statement", "server.address"} /\ a.v # ""

(* A finding that blames code never names a query or a call of the network *)
(* whose statement or address the agent recorded, unless the table of      *)
(* strings had no room for it; and its time is the own time of the row of  *)
(* the span it names.                                                      *)
FindingsBlameCode ==
  Shows /\ soglia = 0 =>
    \A f \in findings, i \in 2..Len(Spans) :
      f.tipo \in {"span", "attesa"} /\ f.what = ToString(i) =>
        /\ Len(tab.strings) < MaxStrings => \A a \in ToSet(spans[i - 1].attrs) : ~Told(a)
        /\ \E j \in DOMAIN rows : rows[j].span = i /\ rows[j].propri = f.ms
=============================================================================
