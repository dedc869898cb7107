-------------------------------- MODULE Codec --------------------------------
(***************************************************************************)
(* The frame of a request, from the extension to the daemon: the encoder   *)
(* in C (ext/orma_proto.c), the check of its length (ingest/listener.go)   *)
(* and the decoder in Go (protocol/protocol.go), which were written apart  *)
(* and must agree.  A frame is a sequence of fields, each the number of    *)
(* its bytes and its value; a reader that takes other widths than the      *)
(* writer's reads garbage.  Delivery says how its bytes travel.            *)
(***************************************************************************)
EXTENDS Request

CONSTANTS
  App, Host,     \* orma.app_name, the name of the machine
  Size,          \* the bytes of each string
  MaxStrings,    \* ORMA_MAX_STRINGS
  MaxFrameSize,  \* MaxFrameSize of the listener
  Limits         \* maxStrings, maxSpans, maxAttrs, maxEvents, maxProfilo, maxPila

VARIABLES
  tab,     \* orma_strtab: its strings, and how many it had when it was written
  frame,   \* the fields of the frame, as the agent wrote them
  pos,     \* the fields the decoder has taken
  left,    \* the spans it has yet to take
  got      \* the transaction it has decoded so far

decoderVars == <<pos, left, got>>
codecVars == <<tab, frame, decoderVars>>

-----------------------------------------------------------------------------
(* The agent. *)

U8(v) == <<[w |-> 1, v |-> v]>>
U16(v) == <<[w |-> 2, v |-> v]>>
U32(v) == <<[w |-> 4, v |-> v]>>
U64(v) == <<[w |-> 8, v |-> v]>>
Bytes(n, v) == <<[w |-> n, v |-> v]>>

(* orma_intern: the empty string is index 0, and so is, when the table is  *)
(* full, any string it does not hold.                                      *)
Intern(table, s) ==
  IF s = "" \/ Contains(table, s) \/ Len(table) >= MaxStrings THEN table ELSE Append(table, s)

Index(table, s) == IF Contains(table, s) THEN SelectInSeq(table, LAMBDA e : e = s) - 1 ELSE 0

(* A mutant of Reserved: index 0 goes to the first string.                *)
NothingReserved == <<>>

(* Index 0 is taken by hand. *)
Reserved == <<"">>

AttrStrings(attr) == IF attr.type = 0 THEN <<attr.key, attr.v>> ELSE <<attr.key>>

SpanStrings(s) == <<s.name, s.def>> \o s.pila \o FlattenSeq([i \in DOMAIN s.attrs |-> AttrStrings(s.attrs[i])])

EventStrings(e) == <<e.class, e.message, e.file>>

Called(t) == SelectSeq([i \in DOMAIN Functions |-> i], LAMBDA i : t.profilo[i].chiamate > 0)

CustomPass == FlattenSeq([i \in DOMAIN txn.custom |-> AttrStrings(txn.custom[i])])
ChildrenPass == FlattenSeq([i \in DOMAIN spans |-> SpanStrings(spans[i])])
EventsPass == FlattenSeq([i \in DOMAIN txn.events |-> EventStrings(txn.events[i])])
ProfiloPass == [i \in DOMAIN Called(txn) |-> Functions[Called(txn)[i]]]

RootStrings ==
  <<IF App = "" THEN "default" ELSE App, Host, txn.name, "http.request.method", txn.method,
    "php.memory.peak_bytes">>

(* A mutant of Interned: the strings of the errors are forgotten.          *)
InternedWithoutEvents == RootStrings \o ChildrenPass \o CustomPass \o ProfiloPass

(* What orma_proto_encode interns before it writes the table ... *)
Interned ==
  RootStrings \o ChildrenPass \o EventsPass \o CustomPass \o ProfiloPass

(* ... and again while it writes the rest, the table already in the frame. *)
InternedAgain == CustomPass \o ChildrenPass \o EventsPass \o ProfiloPass

Ref(s) == U32(Index(tab.strings, s))

Posizione(file) == Ref(file) \o U32(IF file = "" THEN 0 ELSE 1)

EmitAttr(attr) ==
  Ref(attr.key) \o U8(attr.type) \o
    (CASE attr.type = 0 -> Ref(attr.v) [] attr.type = 3 -> U8(attr.v) [] OTHER -> U64(attr.v))

EmitSpan(s) ==
  Bytes(16, txn.trace_id) \o Bytes(8, s.id) \o Bytes(8, s.parent) \o Ref(s.name) \o U8(s.kind)
    \o U64(s.start) \o U64(s.dur) \o U8(s.status) \o U32(s.chiamate) \o U64(s.interne)
    \o Posizione(s.def) \o U8(Len(s.pila)) \o FlattenSeq([i \in DOMAIN s.pila |-> Posizione(s.pila[i])])
    \o U16(Len(s.attrs)) \o FlattenSeq([i \in DOMAIN s.attrs |-> EmitAttr(s.attrs[i])])

(* The request itself is the first span, and carries the attributes.       *)
RootSpan ==
  [id |-> 0, parent |-> txn.parent, name |-> txn.name,
   kind |-> IF txn.background THEN 0 ELSE 1, start |-> 0, dur |-> txn.duration,
   status |-> IF txn.errors > 0 THEN 1 ELSE 0, chiamate |-> txn.chiamate, interne |-> txn.profilo_nano,
   def |-> "", pila |-> <<>>,
   attrs |-> (IF txn.background THEN <<>>
              ELSE <<[key |-> "http.request.method", type |-> 0, v |-> txn.method]>>)
             \o <<[key |-> "php.memory.peak_bytes", type |-> 1, v |-> "peak"]>> \o txn.custom]

EmitEvent(e) ==
  Ref(e.class) \o Ref(e.message) \o Ref(e.file) \o U32(1) \o U8(e.severita) \o U64(0)

EmitProfilo(i) == Ref(Functions[i]) \o U32(txn.profilo[i].chiamate) \o U64(txn.profilo[i].nano)

EmitTable ==
  U32(tab.written) \o
    FlattenSeq([i \in 1..tab.written |->
              U16(Size[tab.strings[i]]) \o Bytes(Size[tab.strings[i]], tab.strings[i])])

(* The process, the status, the start, the memory, the processor times and *)
(* the losses of the sender (Delivery) are fixed here.                     *)
EmitTransaction ==
  Ref(RootStrings[1]) \o Ref(Host) \o Ref(txn.name) \o U32(77) \o U8(IF txn.background THEN 1 ELSE 0)
    \o U16(200) \o U64(0) \o U64(txn.duration) \o U64(11) \o U64(12) \o U64(13)
    \o U32(txn.errors) \o U32(txn.warnings) \o U32(txn.spans_dropped)
    \o U32(21) \o U32(22) \o U32(23) \o U64(txn.chiamate)

(* orma_proto_encode, without the length it puts in front.                 *)
EncodedFrame ==
  U8(6) \o U8(0) \o EmitTable \o EmitTransaction
    \o U32(1 + Len(spans)) \o EmitSpan(RootSpan) \o FlattenSeq([i \in DOMAIN spans |-> EmitSpan(spans[i])])
    \o U32(Len(txn.events)) \o FlattenSeq([i \in DOMAIN txn.events |-> EmitEvent(txn.events[i])])
    \o U32(Len(Called(txn))) \o FlattenSeq([i \in DOMAIN Called(txn) |-> EmitProfilo(Called(txn)[i])])

(* orma_post_deactivate: the request is encoded, first its strings, unless *)
(* the script said to ignore it.                                           *)
PostDeactivate ==
  /\ phase = "measured"
  /\ IF txn.ignored THEN phase' = "discarded" /\ UNCHANGED tab
     ELSE /\ phase' = "interned"
          /\ tab' = LET table == FoldLeft(Intern, Reserved, Interned)
                    IN  [strings |-> FoldLeft(Intern, table, InternedAgain), written |-> Len(table)]
  /\ UNCHANGED <<uri, txn, spans, frame, decoderVars>>

Encode ==
  /\ phase = "interned"
  /\ phase' = "encoded"
  /\ frame' = EncodedFrame
  /\ UNCHANGED <<uri, txn, spans, tab, decoderVars>>

-----------------------------------------------------------------------------
(* The daemon. *)

BytesOf(fields) ==
  LET upTo[n \in 0..Len(fields)] == IF n = 0 THEN 0 ELSE upTo[n - 1] + fields[n].w
  IN  upTo[Len(fields)]

(* handle: a frame longer than the listener's limit ends the connection.   *)
Oversized == BytesOf(frame) > MaxFrameSize

Value(at) == frame[pos + at].v

(* The reader's widths are those of the fields that come next.             *)
Fits(widths) ==
  /\ pos + Len(widths) <= Len(frame)
  /\ \A i \in DOMAIN widths : frame[pos + i].w = widths[i]

(* lookup, which fails for an index out of the table. *)
InTable(at) == Value(at) < Len(got.strings)
Lookup(at) == got.strings[Value(at) + 1]

(* A count is refused above its limit, or if that many items of at least   *)
(* so many bytes do not fit in what remains of the frame.                  *)
Plausible(at, limit, least) ==
  /\ Value(at) <= limit
  /\ Value(at) * least <= BytesOf(SubSeq(frame, pos + at + 1, Len(frame)))

Repeat(widths, n) == FlattenSeq([i \in 1..n |-> widths])

(* The reader moves on, or gives up on the frame. *)
Take(widths, indices, next, more) ==
  /\ IF Fits(widths) /\ \A at \in indices : InTable(at)
     THEN /\ pos' = pos + Len(widths)
          /\ phase' = next
          /\ got' = more
     ELSE /\ phase' = "refused"
          /\ UNCHANGED <<pos, got>>
  /\ UNCHANGED <<uri, txn, spans, tab, frame>>

Refuse == phase' = "refused" /\ UNCHANGED <<uri, txn, spans, codecVars>>

(* The length, the version, the flags and decodeStringTable. *)
ReadTable ==
  /\ phase = "encoded"
  /\ IF Oversized \/ Value(1) # 6 \/ ~Plausible(3, Limits.strings, 2) THEN Refuse
     ELSE /\ Take(<<1, 1, 4>> \o FlattenSeq([i \in 1..Value(3) |-> <<2, Value(2 * i + 2)>>]), {},
                  "transaction",
                  [got EXCEPT !.strings = [i \in 1..Value(3) |-> Value(2 * i + 3)]])
          /\ UNCHANGED left

HeaderWidths == <<4, 4, 4, 4, 1, 2, 8, 8, 8, 8, 8, 4, 4, 4, 4, 4, 4, 8>>

(* The fields of the transaction and the number of its spans.              *)
ReadTransaction ==
  /\ phase = "transaction"
  /\ IF Fits(HeaderWidths \o <<4>>) /\ ~Plausible(19, Limits.spans, 50) THEN Refuse
     ELSE /\ Take(HeaderWidths \o <<4>>, 1..3, "spans",
                  [got EXCEPT !.app = Lookup(1), !.host = Lookup(2), !.name = Lookup(3),
                              !.background = Value(5) = 1,
                              !.numbers = [i \in 6..18 |-> Value(i)]])
          /\ left' = Value(19)

SpanWidths == <<16, 8, 8, 4, 1, 8, 8, 1, 4, 8, 4, 4, 1>>

AttrWidth(type) == CASE type = 0 -> 4 [] type = 3 -> 1 [] OTHER -> 8

(* decodeSpan: its fields, its stack and its attributes, each as many as   *)
(* the field before them says.                                             *)
ReadSpan ==
  /\ phase = "spans" /\ left > 0
  /\ LET pila == Value(13)
         before == SpanWidths \o Repeat(<<4, 4>>, pila) \o <<2>>
         base == Len(before)
         Type(i) == Value(base + 3 * i - 1)
         attrs == 1..Value(base)
         strings == {i \in attrs : Type(i) = 0}
     IN IF ~Fits(SpanWidths) \/ pila > Limits.pila \/ ~Fits(before) \/ ~Plausible(base, Limits.attrs, 5)
        THEN Refuse
        ELSE /\ Take(before \o FlattenSeq([i \in attrs |-> <<4, 1, AttrWidth(Type(i))>>]),
                     {4, 11} \cup {12 + 2 * i : i \in 1..pila}
                       \cup {base + 3 * i - 2 : i \in attrs} \cup {base + 3 * i : i \in strings},
                     "spans",
                     [got EXCEPT !.spans = Append(@,
                        [trace |-> Value(1), id |-> Value(2), parent |-> Value(3), name |-> Lookup(4),
                         kind |-> Value(5), start |-> Value(6), dur |-> Value(7),
                         status |-> Value(8), chiamate |-> Value(9), interne |-> Value(10),
                         def |-> Lookup(11), pila |-> [i \in 1..pila |-> Lookup(12 + 2 * i)],
                         attrs |-> [i \in attrs |->
                           [key |-> Lookup(base + 3 * i - 2), type |-> Type(i),
                            v |-> IF i \in strings THEN Lookup(base + 3 * i)
                                  ELSE Value(base + 3 * i)]]])])
             /\ left' = left - 1

(* decodeEvents. *)
ReadEvents ==
  /\ phase = "spans" /\ left = 0
  /\ IF ~Plausible(1, Limits.events, 25) THEN Refuse
     ELSE /\ Take(<<4>> \o Repeat(<<4, 4, 4, 4, 1, 8>>, Value(1)),
                  {6 * i + k : i \in 0..Value(1) - 1, k \in 2..4}, "profilo",
                  [got EXCEPT !.events = [i \in 1..Value(1) |->
                     Event(Lookup(6 * i - 4), Lookup(6 * i - 3), Lookup(6 * i - 2), Value(6 * i))]])
          /\ UNCHANGED left

(* decodeProfilo: what follows it in the frame, if anything, is ignored.   *)
ReadProfilo ==
  /\ phase = "profilo"
  /\ IF ~Plausible(1, Limits.profilo, 16) THEN Refuse
     ELSE /\ Take(<<4>> \o Repeat(<<4, 4, 8>>, Value(1)),
                  {3 * i - 1 : i \in 1..Value(1)}, "decoded",
                  [got EXCEPT !.profilo = [i \in 1..Value(1) |->
                     [funzione |-> Lookup(3 * i - 1), chiamate |-> Value(3 * i),
                      nano |-> Value(3 * i + 1)]]])
          /\ UNCHANGED left

CodecInit ==
  /\ RequestInit
  /\ tab = [strings |-> <<"">>, written |-> 0]
  /\ frame = <<>> /\ pos = 0 /\ left = 0
  /\ got = [strings |-> <<>>, app |-> "", host |-> "", name |-> "", background |-> FALSE,
            numbers |-> <<>>, spans |-> <<>>, events |-> <<>>, profilo |-> <<>>]

-----------------------------------------------------------------------------
(* What the daemon must make of a frame, said without the table: a string  *)
(* arrives, or arrives empty if MaxStrings others came before it.          *)

Before(s) == {Interned[j] : j \in 1..(SelectInSeq(Interned, LAMBDA e : e = s) - 1)} \ {""}
Arrives(s) == IF s = "" \/ Cardinality(Before(s)) >= MaxStrings - 1 THEN "" ELSE s

ArrivedAttr(a) == [a EXCEPT !.key = Arrives(a.key), !.v = IF a.type = 0 THEN Arrives(a.v) ELSE a.v]

ArrivedSpan(s) ==
  [trace |-> txn.trace_id, id |-> s.id, parent |-> s.parent, name |-> Arrives(s.name), kind |-> s.kind,
   start |-> s.start, dur |-> s.dur, status |-> s.status, chiamate |-> s.chiamate,
   interne |-> s.interne, def |-> Arrives(s.def), pila |-> [i \in DOMAIN s.pila |-> Arrives(s.pila[i])],
   attrs |-> [i \in DOMAIN s.attrs |-> ArrivedAttr(s.attrs[i])]]

ArrivedEvent(e) == Event(Arrives(e.class), Arrives(e.message), Arrives(e.file), e.severita)

(* The daemon decodes every request as the agent recorded it: names, times, *)
(* counts, parents, positions, attributes, errors and profile are those of  *)
(* the request, but for the strings the table had no room for.              *)
RoundTrip ==
  phase = "decoded" =>
    /\ got.app = (IF App = "" THEN "default" ELSE App) /\ got.host = Host /\ got.name = txn.name
    /\ got.background = txn.background
    /\ got.numbers = [i \in 6..18 |-> <<200, 0, txn.duration, 11, 12, 13, txn.errors, txn.warnings,
                                       txn.spans_dropped, 21, 22, 23, txn.chiamate>>[i - 5]]
    /\ got.spans = [i \in 1..Len(spans) + 1 |-> ArrivedSpan(IF i = 1 THEN RootSpan ELSE spans[i - 1])]
    /\ got.events = [i \in DOMAIN txn.events |-> ArrivedEvent(txn.events[i])]
    /\ got.profilo = [i \in DOMAIN Called(txn) |->
                        [funzione |-> Arrives(Functions[Called(txn)[i]]),
                         chiamate |-> txn.profilo[Called(txn)[i]].chiamate,
                         nano |-> txn.profilo[Called(txn)[i]].nano]]

(* The decoder has limits of its own, and never refuses a frame of an agent *)
(* of its version for anything but its length.                              *)
OnlySizeRefuses == phase = "refused" => Oversized

=============================================================================
