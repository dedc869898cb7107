----------------------------- MODULE Statements -----------------------------
(***************************************************************************)
(* The strings of one PHP worker: the arena where names, files and         *)
(* statements are copied (ext/orma_span.c, orma_buf of ext/orma_proto.c),  *)
(* the table that interns the files, and the map from mysqli_stmt objects  *)
(* to the statement they were prepared with (ext/orma_hooks.c).            *)
(*                                                                         *)
(* The arena outlives the request: it is emptied, never freed, and moves   *)
(* in memory when it grows.  A string is one cell of it, an offset is the  *)
(* number of the cell, and a pointer is good as long as the base of the    *)
(* arena stays the one it was taken from.                                  *)
(***************************************************************************)
EXTENDS Integers, Sequences, FiniteSets

CONSTANTS
  Handles,   \* handles of PHP objects, reused when an object is freed
  Queries,   \* obfuscated statements
  Files,     \* files of the user code
  Garbage,   \* what is read from memory given back
  None,      \* no object, no entry
  FirstCap,  \* cells of the first allocation
  MaxFile,   \* ORMA_MAX_FILE
  MaxSpans,  \* ORMA_MAX_SPANS
  MaxCells   \* bound: cells of the arena in use

Labels == {"name", "mysqli"}
Texts == Labels \cup Queries \cup Files \cup {Garbage}

ASSUME ConstantsAssumption ==
  /\ FirstCap \in Nat \ {0}
  /\ {MaxFile, MaxSpans, MaxCells} \subseteq Nat
  /\ None \notin Texts \cup Nat
  /\ Garbage \notin Labels \cup Queries \cup Files

VARIABLES
  arena,     \* ORMA_G(arena): cells in use, capacity, base address
  fileTab,   \* ORMA_G(file_tab): offset of each interned file
  stmtMap,   \* ORMA_G(stmt_map): offset of the statement of a handle
  spans,     \* ORMA_G(spans): offset of file and statement, and what was meant
  objects,   \* PHP: the statement each live mysqli_stmt was prepared with
  recorded   \* the statement the extension was told for a handle

vars == <<arena, fileTab, stmtMap, spans, objects, recorded>>

-----------------------------------------------------------------------------
(* The arena. *)

Grown(a) ==
  {[a EXCEPT !.cap = IF a.cap = 0 THEN FirstCap ELSE 2 * a.cap, !.base = b] :
     b \in {a.base, a.base + 1}}

(* orma_buf_reserve: a full arena doubles, and realloc may move it.        *)
Reserved(a) == IF Len(a.cells) < a.cap THEN {a} ELSE Grown(a)

Put(a, text) == [a EXCEPT !.cells = Append(@, text)]

(* orma_arena_copy of a string that lives elsewhere.                       *)
Copied(a, text) == {Put(b, text) : b \in Reserved(a)}

(* The same of a string of the arena, by a pointer taken from base: the    *)
(* room is made before the bytes are read.                                 *)
CopiedFrom(a, base, text) ==
  UNION {{Put(b, t) : t \in IF b.base = base THEN {text} ELSE {text, Garbage}} : b \in Reserved(a)}

(* orma_arena_file: a file is copied once in a request, as long as the     *)
(* table has room to remember it.                                          *)
WithFile(a, tab, file) ==
  IF file \in DOMAIN tab
  THEN {[arena |-> a, tab |-> tab, off |-> tab[file]]}
  ELSE {[arena |-> b, off |-> Len(b.cells),
         tab |-> IF Cardinality(DOMAIN tab) < MaxFile
                 THEN [f \in DOMAIN tab \cup {file} |->
                         IF f = file THEN Len(b.cells) ELSE tab[f]]
                 ELSE tab] : b \in Copied(a, file)}

(* orma_span_open, with the file of the caller, and db.system: what a span *)
(* leaves in the arena before its statement.                               *)
Opened(file) ==
  UNION {UNION {{[o EXCEPT !.arena = c] : c \in Copied(o.arena, "mysqli")} :
                o \in WithFile(b, fileTab, file)} : b \in Copied(arena, "name")}

-----------------------------------------------------------------------------
Room == Len(arena.cells) + 4 <= MaxCells

Init ==
  /\ arena = [cells |-> <<>>, cap |-> 0, base |-> 0]
  /\ fileTab = <<>>
  /\ stmtMap = [h \in Handles |-> None]
  /\ spans = <<>>
  /\ objects = [h \in Handles |-> None]
  /\ recorded = [h \in Handles |-> None]

(* mysqli::prepare and mysqli_prepare: orma_stmt_ricorda copies the        *)
(* statement and remembers its offset under the handle.                    *)
Prepare(h, q) ==
  /\ objects[h] = None
  /\ Room
  /\ objects' = [objects EXCEPT ![h] = q]
  /\ \E a \in Copied(arena, q) :
       /\ arena' = a
       /\ stmtMap' = [stmtMap EXCEPT ![h] = Len(a.cells)]
  /\ recorded' = [recorded EXCEPT ![h] = q]
  /\ UNCHANGED <<fileTab, spans>>

(* A statement prepared by another way, that no hook sees.                 *)
PrepareUnseen(h, q) ==
  /\ objects[h] = None
  /\ objects' = [objects EXCEPT ![h] = q]
  /\ UNCHANGED <<arena, fileTab, stmtMap, spans, recorded>>

(* The object goes, its handle is free: the map is not told.               *)
Free(h) ==
  /\ objects[h] # None
  /\ objects' = [objects EXCEPT ![h] = None]
  /\ UNCHANGED <<arena, fileTab, stmtMap, spans, recorded>>

(* The span table is full: no span, nothing copied.                        *)
Refused == Len(spans) = MaxSpans /\ UNCHANGED <<arena, fileTab, spans>>

NewSpan(o, a, stmt, file, meant) ==
  /\ arena' = a
  /\ fileTab' = o.tab
  /\ spans' = Append(spans, [file |-> o.off, of |-> file, stmt |-> stmt, meant |-> meant])

(* orma_db_call: the obfuscated statement is in a buffer on the C stack.   *)
Query(q, file) ==
  /\ Room
  /\ \/ Refused
     \/ /\ Len(spans) < MaxSpans
        /\ \E o \in Opened(file) : \E a \in Copied(o.arena, q) :
             NewSpan(o, a, Len(a.cells), file, q)
  /\ UNCHANGED <<stmtMap, objects, recorded>>

(* orma_stmt_execute_call: the pointer to the statement is taken from the  *)
(* arena before the span is opened, and used after.                        *)
Execute(h, file) ==
  /\ objects[h] # None
  /\ stmtMap[h] # None
  /\ Room
  /\ \/ Refused
     \/ /\ Len(spans) < MaxSpans
        /\ \E o \in Opened(file) :
             \E a \in CopiedFrom(o.arena, arena.base, arena.cells[stmtMap[h]]) :
               NewSpan(o, a, Len(a.cells), file, arena.cells[stmtMap[h]])
  /\ UNCHANGED <<stmtMap, objects, recorded>>

(* The same without an entry: the span goes without a statement.           *)
ExecuteUnknown(h, file) ==
  /\ objects[h] # None
  /\ stmtMap[h] = None
  /\ Room
  /\ \/ Refused
     \/ /\ Len(spans) < MaxSpans
        /\ \E o \in Opened(file) : NewSpan(o, o.arena, 0, file, None)
  /\ UNCHANGED <<stmtMap, objects, recorded>>

FilesKept == fileTab

NoFiles == <<>>

MapKept == stmtMap

NoStatements == [h \in Handles |-> None]

(* The end of a request frees its objects; RINIT of the next one empties   *)
(* arena, span table, file table and map (orma_spans_reset,                *)
(* orma_hooks_reset).                                                      *)
NextRequest ==
  /\ arena' = [arena EXCEPT !.cells = <<>>]
  /\ spans' = <<>>
  /\ fileTab' = NoFiles
  /\ stmtMap' = NoStatements
  /\ objects' = [h \in Handles |-> None]
  /\ recorded' = [h \in Handles |-> IF stmtMap'[h] = None THEN None ELSE recorded[h]]

Next ==
  \/ \E h \in Handles, q \in Queries : Prepare(h, q) \/ PrepareUnseen(h, q)
  \/ \E h \in Handles : Free(h)
  \/ \E q \in Queries, f \in Files : Query(q, f)
  \/ \E h \in Handles, f \in Files : Execute(h, f) \/ ExecuteUnknown(h, f)
  \/ NextRequest

Spec == Init /\ [][Next]_vars

-----------------------------------------------------------------------------
(* Properties. *)

At(off, text) == off \in DOMAIN arena.cells /\ arena.cells[off] = text

(* Offsets survive growth and reset: an entry of the map leads to the      *)
(* statement that was prepared under its handle, wherever the arena went   *)
(* and whatever was copied behind it, and none outlives its request.       *)
MapIsValid ==
  \A h \in Handles : stmtMap[h] # None => At(stmtMap[h], recorded[h])

(* An interned file is the file: the table never outlives the arena it     *)
(* points into, and a span reads back the file it was opened in.           *)
FilesAreValid ==
  /\ \A f \in DOMAIN fileTab : At(fileTab[f], f)
  /\ \A i \in DOMAIN spans : At(spans[i].file, spans[i].of)

(* orma_hooks.c:183: "la mappa contiene numeri, non puntatori, e l'arena   *)
(* puo' essere rilocata senza invalidarla".  A span carries the statement  *)
(* the map held when it was opened.                                        *)
StatementsAreIntact ==
  \A i \in DOMAIN spans : spans[i].meant # None => At(spans[i].stmt, spans[i].meant)
=============================================================================
