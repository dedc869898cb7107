--------------------------- MODULE StatementsProofs ---------------------------
(***************************************************************************)
(* Proofs about Statements, for any objects, statements and files, any     *)
(* first allocation and any limits of the tables.                          *)
(***************************************************************************)
EXTENDS Statements, TLAPS

Arenas == [cells : Seq(Texts), cap : Nat, base : Nat]

Spans == [file : Nat, of : Files, stmt : Nat, meant : Texts \cup {None}]

(* What each variable holds. *)
Typed ==
  /\ arena \in Arenas
  /\ DOMAIN fileTab \subseteq Files
  /\ stmtMap \in [Handles -> Nat \cup {None}]
  /\ spans \in Seq(Spans)
  /\ recorded \in [Handles -> Queries \cup {None}]

(* off leads to text in the arena a. *)
Leads(a, off, text) == off \in 1 .. Len(a.cells) /\ a.cells[off] = text

(* b is a with more behind it, wherever it is in memory. *)
Extends(a, b) == \A off \in 1 .. Len(a.cells) : Leads(b, off, a.cells[off])

TabLeads(a, tab) == \A f \in DOMAIN tab : Leads(a, tab[f], f)

(* What the prefix of the arena promises to whoever holds an offset. *)
Offsets ==
  /\ \A h \in Handles : stmtMap[h] # None => Leads(arena, stmtMap[h], recorded[h])
  /\ TabLeads(arena, fileTab)
  /\ \A i \in 1 .. Len(spans) : Leads(arena, spans[i].file, spans[i].of)

IInv == Typed /\ Offsets

-----------------------------------------------------------------------------
(* The arena. *)

(* What leads somewhere still does when more is copied behind it. *)
LEMMA LeadsInExtension ==
  ASSUME NEW a, NEW b, Extends(a, b), NEW off, NEW text, Leads(a, off, text)
  PROVE  Leads(b, off, text)
BY DEF Leads, Extends

(* Copying behind a copy is copying behind the first. *)
LEMMA ExtendsTransitive ==
  ASSUME NEW a, NEW b, NEW c, Extends(a, b), Extends(b, c)
  PROVE  Extends(a, c)
BY DEF Leads, Extends

(* An interned file stays where it is. *)
LEMMA TabInExtension ==
  ASSUME NEW a, NEW b, Extends(a, b), NEW tab, TabLeads(a, tab)
  PROVE  TabLeads(b, tab)
BY LeadsInExtension DEF TabLeads

(* Making room, by moving the arena or not, changes no string of it. *)
LEMMA ReservedKeeps ==
  ASSUME NEW a \in Arenas, NEW b \in Reserved(a)
  PROVE  b \in Arenas /\ b.cells = a.cells
<1>1. CASE b = a
  BY <1>1
<1>2. CASE b \in Grown(a)
  <2>1. PICK n \in {a.base, a.base + 1} :
          b = [a EXCEPT !.cap = IF a.cap = 0 THEN FirstCap ELSE 2 * a.cap, !.base = n]
    BY <1>2 DEF Grown
  <2>2. (IF a.cap = 0 THEN FirstCap ELSE 2 * a.cap) \in Nat /\ n \in Nat
    BY <2>1, ConstantsAssumption DEF Arenas
  <2>3. QED
    BY <2>1, <2>2 DEF Arenas
<1>3. QED
  BY <1>1, <1>2 DEF Reserved

(* A string is copied behind the others. *)
LEMMA PutExtends ==
  ASSUME NEW a \in Arenas, NEW text \in Texts, NEW b, b = Put(a, text)
  PROVE  b \in Arenas /\ Extends(a, b) /\ Leads(b, Len(b.cells), text) /\ Len(b.cells) \in Nat
<1>1. a.cells \in Seq(Texts)
  BY DEF Arenas
<1>2. b.cells = Append(a.cells, text) /\ b \in Arenas
  <2> DEFINE longer == Append(a.cells, text)
  <2>1. longer \in Seq(Texts)
    BY <1>1
  <2>2. b = [a EXCEPT !.cells = longer]
    BY DEF Put
  <2> HIDE DEF longer
  <2>3. b.cells = longer /\ b \in Arenas
    BY <2>1, <2>2 DEF Arenas
  <2>4. QED
    BY <2>3 DEF longer
<1>3. /\ Len(b.cells) = Len(a.cells) + 1 /\ Len(a.cells) \in Nat
      /\ b.cells[Len(b.cells)] = text
      /\ \A i \in 1 .. Len(a.cells) : b.cells[i] = a.cells[i]
  BY <1>1, <1>2
<1>4. QED
  BY <1>2, <1>3 DEF Extends, Leads

(* The same when room had to be made. *)
LEMMA CopiedExtends ==
  ASSUME NEW a \in Arenas, NEW text \in Texts, NEW b \in Copied(a, text)
  PROVE  b \in Arenas /\ Extends(a, b) /\ Leads(b, Len(b.cells), text) /\ Len(b.cells) \in Nat
<1>1. PICK c \in Reserved(a) : b = Put(c, text)
  BY DEF Copied
<1>2. c \in Arenas /\ c.cells = a.cells
  BY <1>1, ReservedKeeps
<1>3. b \in Arenas /\ Extends(c, b) /\ Leads(b, Len(b.cells), text) /\ Len(b.cells) \in Nat
  BY <1>1, <1>2, PutExtends
<1>4. QED
  BY <1>2, <1>3 DEF Extends

(* Whatever a pointer into the arena reads, what was in it is not touched. *)
LEMMA CopiedFromExtends ==
  ASSUME NEW a \in Arenas, NEW base, NEW text \in Texts, NEW b \in CopiedFrom(a, base, text)
  PROVE  b \in Arenas /\ Extends(a, b) /\ Len(b.cells) \in Nat
<1>1. PICK c \in Reserved(a) :
        b \in {Put(c, t) : t \in IF c.base = base THEN {text} ELSE {text, Garbage}}
  BY DEF CopiedFrom
<1>2. PICK t \in {text, Garbage} : b = Put(c, t)
  BY <1>1
<1>3. t \in Texts
  BY <1>2 DEF Texts
<1>4. c \in Arenas /\ c.cells = a.cells
  BY <1>1, ReservedKeeps
<1>5. b \in Arenas /\ Extends(c, b) /\ Len(b.cells) \in Nat
  BY <1>2, <1>3, <1>4, PutExtends
<1>6. QED
  BY <1>4, <1>5 DEF Extends

(* An interned file is the file, whether it was in the table, was copied   *)
(* and remembered, or was copied for a table that is full.                 *)
LEMMA WithFileLeads ==
  ASSUME NEW a \in Arenas, NEW tab, DOMAIN tab \subseteq Files, TabLeads(a, tab),
         NEW file \in Files, NEW o \in WithFile(a, tab, file)
  PROVE  /\ o.arena \in Arenas /\ Extends(a, o.arena)
         /\ DOMAIN o.tab \subseteq Files /\ TabLeads(o.arena, o.tab)
         /\ Leads(o.arena, o.off, file) /\ o.off \in Nat
<1>1. CASE file \in DOMAIN tab
  <2>1. o.arena = a /\ o.tab = tab /\ o.off = tab[file]
    BY <1>1 DEF WithFile
  <2>2. Extends(a, a)
    BY DEF Extends, Leads
  <2>3. Leads(a, tab[file], file)
    BY <1>1 DEF TabLeads
  <2>4. tab[file] \in Nat
    BY <2>3 DEF Leads, Arenas
  <2>5. QED
    BY <2>1, <2>2, <2>3, <2>4
<1>2. CASE file \notin DOMAIN tab
  <2>1. PICK b \in Copied(a, file) :
          o = [arena |-> b, off |-> Len(b.cells),
               tab |-> IF Cardinality(DOMAIN tab) < MaxFile
                       THEN [f \in DOMAIN tab \cup {file} |->
                               IF f = file THEN Len(b.cells) ELSE tab[f]]
                       ELSE tab]
    BY <1>2 DEF WithFile
  <2>2. b \in Arenas /\ Extends(a, b) /\ Leads(b, Len(b.cells), file) /\ Len(b.cells) \in Nat
    BY <2>1, CopiedExtends DEF Texts
  <2>3. TabLeads(b, tab)
    BY <2>2, TabInExtension
  <2>4. CASE Cardinality(DOMAIN tab) < MaxFile
    <3>1. /\ DOMAIN o.tab = DOMAIN tab \cup {file}
          /\ \A f \in DOMAIN o.tab : o.tab[f] = IF f = file THEN Len(b.cells) ELSE tab[f]
      BY <2>1, <2>4
    <3>2. TabLeads(b, o.tab)
      BY <2>2, <2>3, <3>1 DEF TabLeads
    <3>3. QED
      BY <2>1, <2>2, <3>1, <3>2
  <2>5. CASE ~ (Cardinality(DOMAIN tab) < MaxFile)
    BY <2>1, <2>2, <2>3, <2>5
  <2>6. QED
    BY <2>4, <2>5
<1>3. QED
  BY <1>1, <1>2

(* A span opens on its file, and disturbs nothing. *)
LEMMA OpenedLeads ==
  ASSUME IInv, NEW file \in Files, NEW o \in Opened(file)
  PROVE  /\ o.arena \in Arenas /\ Extends(arena, o.arena)
         /\ DOMAIN o.tab \subseteq Files /\ TabLeads(o.arena, o.tab)
         /\ Leads(o.arena, o.off, file) /\ o.off \in Nat
<1>1. PICK b \in Copied(arena, "name") :
        o \in UNION {{[p EXCEPT !.arena = c] : c \in Copied(p.arena, "mysqli")} :
                       p \in WithFile(b, fileTab, file)}
  BY DEF Opened
<1>2. PICK p \in WithFile(b, fileTab, file) :
        o \in {[p EXCEPT !.arena = c] : c \in Copied(p.arena, "mysqli")}
  BY <1>1
<1>3. PICK c \in Copied(p.arena, "mysqli") : o = [p EXCEPT !.arena = c]
  BY <1>2
<1>4. "name" \in Texts /\ "mysqli" \in Texts
  BY DEF Texts, Labels
<1>5. b \in Arenas /\ Extends(arena, b)
  BY <1>1, <1>4, CopiedExtends DEF IInv, Typed
<1>6. TabLeads(b, fileTab) /\ DOMAIN fileTab \subseteq Files
  BY <1>5, TabInExtension DEF IInv, Typed, Offsets
<1>7. /\ p.arena \in Arenas /\ Extends(b, p.arena)
      /\ DOMAIN p.tab \subseteq Files /\ TabLeads(p.arena, p.tab)
      /\ Leads(p.arena, p.off, file) /\ p.off \in Nat
  BY <1>2, <1>5, <1>6, WithFileLeads
<1>8. c \in Arenas /\ Extends(p.arena, c)
  BY <1>3, <1>4, <1>7, CopiedExtends
<1>9. o.arena = c /\ o.tab = p.tab /\ o.off = p.off
  <2>1. p = [arena |-> p.arena, tab |-> p.tab, off |-> p.off]
    BY <1>2 DEF WithFile
  <2>2. QED
    BY <1>3, <2>1
<1>10. Extends(arena, c)
  BY <1>5, <1>7, <1>8, ExtendsTransitive
<1>11. TabLeads(c, p.tab) /\ Leads(c, p.off, file)
  BY <1>7, <1>8, TabInExtension, LeadsInExtension
<1>12. QED
  BY <1>7, <1>8, <1>9, <1>10, <1>11

-----------------------------------------------------------------------------
(* The invariant. *)

(* At the start of a worker nothing is remembered. *)
LEMMA InvInit == Init => IInv
<1> SUFFICES ASSUME Init
             PROVE  IInv
  OBVIOUS
<1>1. /\ arena = [cells |-> <<>>, cap |-> 0, base |-> 0] /\ fileTab = <<>> /\ spans = <<>>
      /\ stmtMap = [h \in Handles |-> None] /\ recorded = [h \in Handles |-> None]
  BY DEF Init
<1>2. <<>> \in Seq(Texts) /\ <<>> \in Seq(Spans) /\ Len(<<>>) = 0 /\ DOMAIN <<>> = {}
  OBVIOUS
<1>3. Typed
  BY <1>1, <1>2 DEF Typed, Arenas
<1>4. Offsets
  BY <1>1, <1>2 DEF Offsets, TabLeads
<1>5. QED
  BY <1>3, <1>4 DEF IInv

(* A span that is opened remembers its file, and the others keep theirs. *)
LEMMA NewSpanInv ==
  ASSUME IInv, NEW file \in Files, NEW o \in Opened(file), NEW a \in Arenas, Extends(o.arena, a),
         NEW stmt \in Nat, NEW meant \in Texts \cup {None},
         NewSpan(o, a, stmt, file, meant), UNCHANGED <<stmtMap, recorded>>
  PROVE  IInv'
<1>1. /\ o.arena \in Arenas /\ Extends(arena, o.arena)
      /\ DOMAIN o.tab \subseteq Files /\ TabLeads(o.arena, o.tab)
      /\ Leads(o.arena, o.off, file) /\ o.off \in Nat
  BY OpenedLeads
<1>2. Extends(arena, a) /\ TabLeads(a, o.tab) /\ Leads(a, o.off, file)
  BY <1>1, ExtendsTransitive, TabInExtension, LeadsInExtension
<1> DEFINE new == [file |-> o.off, of |-> file, stmt |-> stmt, meant |-> meant]
<1>3. arena' = a /\ fileTab' = o.tab /\ spans' = Append(spans, new)
  BY DEF NewSpan
<1>4. new \in Spans /\ new.file = o.off /\ new.of = file
  BY <1>1 DEF Spans
<1> HIDE DEF new
<1>5. /\ spans \in Seq(Spans) /\ spans' \in Seq(Spans) /\ Len(spans') = Len(spans) + 1
      /\ Len(spans) \in Nat /\ spans'[Len(spans) + 1] = new
      /\ \A i \in 1 .. Len(spans) : spans'[i] = spans[i]
  BY <1>3, <1>4 DEF IInv, Typed
<1>6. Typed'
  BY <1>1, <1>3, <1>5 DEF IInv, Typed
<1>7. \A h \in Handles : stmtMap'[h] # None => Leads(arena', stmtMap'[h], recorded'[h])
  BY <1>2, <1>3, LeadsInExtension DEF IInv, Offsets
<1>8. ASSUME NEW i \in 1 .. Len(spans')
      PROVE  Leads(arena', spans'[i].file, spans'[i].of)
  <2>1. CASE i = Len(spans) + 1
    BY <1>2, <1>3, <1>4, <1>5, <2>1
  <2>2. CASE i \in 1 .. Len(spans)
    BY <1>2, <1>3, <1>5, <2>2, LeadsInExtension DEF IInv, Offsets
  <2>3. QED
    BY <1>5, <2>1, <2>2
<1>9. QED
  BY <1>2, <1>3, <1>6, <1>7, <1>8 DEF IInv, Offsets
(* Every step of the worker keeps what the offsets promise. *)
LEMMA InvNext == IInv /\ [Next]_vars => IInv'
<1> SUFFICES ASSUME IInv, [Next]_vars
             PROVE  IInv'
  OBVIOUS
<1>0. /\ arena \in Arenas /\ DOMAIN fileTab \subseteq Files /\ spans \in Seq(Spans)
      /\ stmtMap \in [Handles -> Nat \cup {None}]
      /\ recorded \in [Handles -> Queries \cup {None}]
  BY DEF IInv, Typed
<1>1. CASE UNCHANGED <<arena, fileTab, stmtMap, spans, recorded>>
  BY <1>1 DEF IInv, Typed, Offsets, TabLeads, Leads
<1>2. ASSUME NEW h \in Handles, NEW q \in Queries, Prepare(h, q)
      PROVE  IInv'
  <2>1. PICK a \in Copied(arena, q) :
          arena' = a /\ stmtMap' = [stmtMap EXCEPT ![h] = Len(a.cells)]
    BY <1>2 DEF Prepare
  <2>2. recorded' = [recorded EXCEPT ![h] = q] /\ UNCHANGED <<fileTab, spans>>
    BY <1>2 DEF Prepare
  <2>3. a \in Arenas /\ Extends(arena, a) /\ Leads(a, Len(a.cells), q) /\ Len(a.cells) \in Nat
    BY <1>0, <2>1, CopiedExtends DEF Texts
  <2>4. Typed'
    BY <1>0, <2>1, <2>2, <2>3 DEF Typed
  <2>5. ASSUME NEW g \in Handles, stmtMap'[g] # None
        PROVE  Leads(arena', stmtMap'[g], recorded'[g])
    <3>1. CASE g = h
      <4>1. stmtMap'[g] = Len(a.cells) /\ recorded'[g] = q
        BY <1>0, <2>1, <2>2, <3>1
      <4>2. QED
        BY <2>1, <2>3, <4>1
    <3>2. CASE g # h
      <4>1. stmtMap'[g] = stmtMap[g] /\ recorded'[g] = recorded[g]
        BY <1>0, <2>1, <2>2, <3>2
      <4>2. Leads(arena, stmtMap[g], recorded[g])
        BY <2>5, <4>1 DEF IInv, Offsets
      <4>3. QED
        BY <2>1, <2>3, <4>1, <4>2, LeadsInExtension
    <3>3. QED
      BY <3>1, <3>2
  <2>6. TabLeads(arena', fileTab')
    BY <2>1, <2>2, <2>3, TabInExtension DEF IInv, Offsets
  <2>7. \A i \in 1 .. Len(spans') : Leads(arena', spans'[i].file, spans'[i].of)
    BY <2>1, <2>2, <2>3, LeadsInExtension DEF IInv, Offsets
  <2>8. QED
    BY <2>4, <2>5, <2>6, <2>7 DEF IInv, Offsets
<1>3. ASSUME NEW q \in Queries, NEW f \in Files, Query(q, f)
      PROVE  IInv'
  <2>1. UNCHANGED <<stmtMap, recorded>>
    BY <1>3 DEF Query
  <2>2. CASE Refused
    BY <1>1, <2>1, <2>2 DEF Refused
  <2>3. ASSUME NEW o \in Opened(f), NEW a \in Copied(o.arena, q),
               NewSpan(o, a, Len(a.cells), f, q)
        PROVE  IInv'
    <3>1. o.arena \in Arenas /\ q \in Texts
      BY OpenedLeads DEF Texts
    <3>2. a \in Arenas /\ Extends(o.arena, a) /\ Len(a.cells) \in Nat
      BY <3>1, CopiedExtends
    <3>3. QED
      BY <2>1, <2>3, <3>1, <3>2, NewSpanInv
  <2>4. QED
    BY <1>3, <2>2, <2>3 DEF Query
<1>4. ASSUME NEW h \in Handles, NEW f \in Files, Execute(h, f)
      PROVE  IInv'
  <2>1. UNCHANGED <<stmtMap, recorded>> /\ stmtMap[h] # None
    BY <1>4 DEF Execute
  <2>2. CASE Refused
    BY <1>1, <2>1, <2>2 DEF Refused
  <2> DEFINE text == arena.cells[stmtMap[h]]
  <2>3. text \in Texts
    <3>1. Leads(arena, stmtMap[h], recorded[h])
      BY <2>1 DEF IInv, Offsets
    <3>2. stmtMap[h] \in 1 .. Len(arena.cells) /\ arena.cells \in Seq(Texts)
      BY <1>0, <3>1 DEF Leads, Arenas
    <3>3. QED
      BY <3>2
  <2>4. ASSUME NEW o \in Opened(f), NEW a \in CopiedFrom(o.arena, arena.base, text),
               NewSpan(o, a, Len(a.cells), f, text)
        PROVE  IInv'
    <3> HIDE DEF text
    <3>1. o.arena \in Arenas
      BY OpenedLeads
    <3>2. a \in Arenas /\ Extends(o.arena, a) /\ Len(a.cells) \in Nat
      BY <2>3, <3>1, CopiedFromExtends
    <3>3. QED
      BY <2>1, <2>3, <2>4, <3>2, NewSpanInv
  <2>5. QED
    BY <1>4, <2>2, <2>4 DEF Execute
<1>5. ASSUME NEW h \in Handles, NEW f \in Files, ExecuteUnknown(h, f)
      PROVE  IInv'
  <2>1. UNCHANGED <<stmtMap, recorded>>
    BY <1>5 DEF ExecuteUnknown
  <2>2. CASE Refused
    BY <1>1, <2>1, <2>2 DEF Refused
  <2>3. ASSUME NEW o \in Opened(f), NewSpan(o, o.arena, 0, f, None)
        PROVE  IInv'
    <3>1. o.arena \in Arenas /\ Extends(o.arena, o.arena)
      BY OpenedLeads DEF Extends, Leads
    <3>2. 0 \in Nat /\ None \in Texts \cup {None}
      OBVIOUS
    <3>3. QED
      BY <2>1, <2>3, <3>1, <3>2, NewSpanInv
  <2>4. QED
    BY <1>5, <2>2, <2>3 DEF ExecuteUnknown
<1>6. CASE NextRequest
  <2>1. /\ arena' = [arena EXCEPT !.cells = <<>>] /\ spans' = <<>> /\ fileTab' = <<>>
        /\ stmtMap' = [h \in Handles |-> None]
        /\ recorded' = [h \in Handles |-> IF stmtMap'[h] = None THEN None ELSE recorded[h]]
    BY <1>6 DEF NextRequest, NoFiles, NoStatements
  <2>2. <<>> \in Seq(Texts) /\ <<>> \in Seq(Spans) /\ Len(<<>>) = 0 /\ DOMAIN <<>> = {}
    OBVIOUS
  <2>3. recorded' = [h \in Handles |-> None]
    BY <2>1
  <2>4. Typed'
    BY <1>0, <2>1, <2>2, <2>3 DEF Typed, Arenas
  <2>5. QED
    BY <2>1, <2>2, <2>4 DEF IInv, Offsets, TabLeads
<1>7. QED
  BY <1>1, <1>2, <1>3, <1>4, <1>5, <1>6 DEF Next, vars, PrepareUnseen, Free

(* The invariant holds in every reachable state. *)
LEMMA InvAlways == Spec => []IInv
<1>1. Init => IInv
  BY InvInit
<1>2. IInv /\ [Next]_vars => IInv'
  BY InvNext
<1>3. QED
  BY <1>1, <1>2, PTL DEF Spec

(* The entry orma_stmt_ricorda made for a mysqli_stmt leads to the         *)
(* statement it was prepared with, wherever orma_buf_reserve has moved the *)
(* arena since, and none outlives orma_hooks_reset.                        *)
THEOREM MapLeadsToStatements == Spec => []MapIsValid
<1>1. IInv => MapIsValid
  <2> SUFFICES ASSUME IInv, NEW h \in Handles, stmtMap[h] # None
               PROVE  At(stmtMap[h], recorded[h])
    BY DEF MapIsValid
  <2>1. Leads(arena, stmtMap[h], recorded[h])
    BY DEF IInv, Offsets
  <2>2. DOMAIN arena.cells = 1 .. Len(arena.cells)
    BY DEF IInv, Typed, Arenas
  <2>3. QED
    BY <2>1, <2>2 DEF Leads, At
<1>2. QED
  BY <1>1, InvAlways, PTL

(* What orma_arena_file interned in a request is read back from the offset *)
(* it gave, in its table and in the spans: orma_spans_reset empties the    *)
(* table with the arena it points into.                                    *)
THEOREM FilesAreReadBack == Spec => []FilesAreValid
<1>1. IInv => FilesAreValid
  <2> SUFFICES ASSUME IInv
               PROVE  FilesAreValid
    OBVIOUS
  <2>1. DOMAIN arena.cells = 1 .. Len(arena.cells) /\ DOMAIN spans = 1 .. Len(spans)
    BY DEF IInv, Typed, Arenas
  <2>2. \A off, text : Leads(arena, off, text) => At(off, text)
    BY <2>1 DEF Leads, At
  <2>3. QED
    BY <2>1, <2>2 DEF IInv, Offsets, TabLeads, FilesAreValid
<1>2. QED
  BY <1>1, InvAlways, PTL
=============================================================================
