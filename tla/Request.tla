------------------------------- MODULE Request -------------------------------
(***************************************************************************)
(* What the extension keeps of one PHP request until it encodes it: the    *)
(* transaction (ext/orma_txn.c), its errors (ext/orma_error.c), what the   *)
(* application adds through the API (ext/orma_api.c), the profile of the   *)
(* internal functions (ext/orma_hooks.c) and the table of spans            *)
(* (ext/orma_span.c).  Which calls become spans is the subject of Spans:   *)
(* here any of SpanBodies may, under parents that are recorded after them  *)
(* or, when the table is full, never.                                      *)
(***************************************************************************)
EXTENDS Integers, Sequences, FiniteSets, FiniteSetsExt, SequencesExt

CONSTANTS
  Uris,         \* REQUEST_URI: the sequence of its segments, or <<>> for none
  Names,        \* names the application gives its transactions
  Headers,      \* what HTTP_TRACEPARENT holds: "none", "valid", "malformed"
  SpanBodies,   \* spans without their identifiers
  Attributes,   \* attributes the application adds, [key, type, v]
  ErrorTypes,   \* PHP errors, E_ERROR among them
  Classes,      \* classes of exceptions
  Ignored,      \* orma.ignored_exceptions
  Functions,    \* the profiled functions, in the order of the table
  MaxSegments,  \* ORMA_MAX_SEGMENTS
  MaxCustom,    \* ORMA_MAX_CUSTOM_ATTRS
  MaxErrors,    \* ORMA_MAX_ERRORS
  MaxSpans,     \* ORMA_MAX_SPANS
  MaxItems,     \* bound: what the script does that the request records
  CallTimes,    \* durations of profiled calls
  Durations     \* durations of requests

VARIABLES
  phase,   \* "running", "measured" by RSHUTDOWN, "encoded", "discarded"
  uri,     \* the request's REQUEST_URI
  txn,     \* ORMA_G(txn)
  spans    \* ORMA_G(spans)

requestVars == <<phase, uri, txn, spans>>

Active == phase \in {"running", "measured"}

Fatal == {"E_ERROR", "E_PARSE", "E_CORE_ERROR", "E_COMPILE_ERROR", "E_USER_ERROR",
          "E_RECOVERABLE_ERROR"}

IsFunction(s) == s.def # ""

Profiled(t) == MapThenSumSet(LAMBDA i : t.profilo[i].chiamate, DOMAIN t.profilo)

(* A function that has a span is counted as a call.                        *)
Items == Cardinality({i \in DOMAIN spans : ~IsFunction(spans[i])}) + txn.chiamate + txn.spans_dropped
           + txn.errors + txn.warnings + Len(txn.custom) + Profiled(txn)
           + Cardinality({b \in {"name_locked", "background", "ignored"} : txn[b]})

-----------------------------------------------------------------------------
(* The name of a request. *)

(* A segment is one of a kind that identifies an object, or a word.        *)
Label(segment) ==
  CASE segment.kind = "digits" -> "{id}"
    [] segment.kind = "uuid" -> "{uuid}"
    [] segment.kind = "hash" -> "{hash}"
    [] OTHER -> segment.text

(* orma_normalize_path: the query string is dropped, identifiers become    *)
(* placeholders, and what is deeper than MaxSegments collapses.            *)
NormalizePath(segments) ==
  LET kept == SubSeq(segments, 1, Min({Len(segments), MaxSegments}))
      path == FoldLeft(LAMBDA name, segment : name \o "/" \o Label(segment), "", kept)
  IN  IF segments = <<>> THEN "/"
      ELSE IF Len(segments) > MaxSegments THEN path \o "/*" ELSE path

(* orma_txn_assign_name: a name the application chose is kept, and with it *)
(* the kind it had then.                                                   *)
AssignName(t) ==
  IF t.name_locked THEN t
  ELSE IF uri.absent
       THEN [t EXCEPT !.background = TRUE, !.name = "cli/script.php"]
       ELSE [t EXCEPT !.background = FALSE, !.name = NormalizePath(uri.segments)]

-----------------------------------------------------------------------------

(* A header of the right form with identifiers that are not all zero.      *)
AdoptTraceparent(t, header) ==
  IF header = "valid" THEN [t EXCEPT !.trace_id = "remote", !.parent = -2] ELSE t

(* RINIT: nothing of the request before survives. *)
Begin(header) ==
  AdoptTraceparent(
    [trace_id |-> "own", parent |-> -1, name |-> "", name_locked |-> FALSE,
     background |-> FALSE, ignored |-> FALSE, method |-> "", custom |-> <<>>, events |-> <<>>,
     errors |-> 0, warnings |-> 0, spans_dropped |-> 0, chiamate |-> 0, duration |-> 0,
     profilo |-> [i \in DOMAIN Functions |-> [chiamate |-> 0, nano |-> 0]],
     profilo_nano |-> 0],
    header)

RequestInit ==
  /\ phase = "running"
  /\ uri \in Uris
  /\ \E header \in Headers : txn = Begin(header)
  /\ spans = <<>>

Update(t) == txn' = t /\ UNCHANGED <<phase, uri, spans>>

(* orma_name_transaction and orma_background_transaction. *)
NameTransaction(name) ==
  /\ phase = "running" /\ Items < MaxItems
  /\ Update([txn EXCEPT !.name = name, !.name_locked = TRUE])

BackgroundTransaction(name) ==
  /\ phase = "running" /\ Items < MaxItems
  /\ Update([txn EXCEPT !.name = name, !.name_locked = TRUE, !.background = TRUE])

Ignore ==
  /\ phase = "running" /\ Items < MaxItems
  /\ Update([txn EXCEPT !.ignored = TRUE])

(* orma_add_attribute: beyond the cap it answers false and keeps nothing. *)
AddAttribute(attr) ==
  /\ phase = "running" /\ Items < MaxItems
  /\ Len(txn.custom) < MaxCustom
  /\ Update([txn EXCEPT !.custom = Append(@, attr)])

(* orma_txn_record_event: every event is counted, the first MaxErrors are  *)
(* kept.                                                                   *)
Counted(t, severita) ==
  IF severita = 1 THEN [t EXCEPT !.errors = @ + 1] ELSE [t EXCEPT !.warnings = @ + 1]

RecordEvent(t, event) ==
  IF Len(t.events) >= MaxErrors THEN Counted(t, event.severita)
  ELSE [Counted(t, event.severita) EXCEPT !.events = Append(@, event)]

Event(class, message, file, severita) ==
  [class |-> class, message |-> message, file |-> file, severita |-> severita]

(* orma_error_cb.  The engine and other modules may still raise errors     *)
(* after RSHUTDOWN has measured the request.                               *)
PhpError(type) ==
  /\ Active /\ Items < MaxItems
  /\ Update(RecordEvent(txn, Event(type, "message", "page.php",
                                   IF type \in Fatal THEN 1 ELSE 0)))

(* orma_throw_hook: an exception is a warning, it may yet be caught.       *)
Throw(class) ==
  /\ phase = "running" /\ Items < MaxItems
  /\ class \notin Ignored
  /\ Update(RecordEvent(txn, Event(class, "message", "page.php", 0)))

NoticeError(class) ==
  /\ phase = "running" /\ Items < MaxItems
  /\ Update(RecordEvent(txn, Event(class, "noticed", "", 1)))

(* orma_profilo_chiama: the calls made inside another profiled one return   *)
(* first.  All count for their function, only the outer one in the total.  *)
ProfiledOnce(profilo, call) ==
  [profilo EXCEPT ![call.f] = [chiamate |-> @.chiamate + 1, nano |-> @.nano + call.d]]

Profile(call, inner) ==
  /\ phase = "running" /\ Items + Len(inner) < MaxItems
  /\ \A i \in DOMAIN inner : inner[i].d <= call.d
  /\ Update([txn EXCEPT !.profilo = FoldLeft(ProfiledOnce, @, Append(inner, call)),
                        !.profilo_nano = @ + call.d])

(* orma_span_record and orma_span_open.  The identifier of a span is random *)
(* in the code and its number here; 0 is the root's.  Only functions have   *)
(* children: they are recorded when they end, after them, if they were slow *)
(* and there is room.                                                       *)
Children(id) == {i \in DOMAIN spans : spans[i].parent = id}

(* A span of the API may end after the function that started it. *)
IsApi(s) == ~IsFunction(s) /\ s.kind = 0

Covers(body, s) ==
  /\ body.start <= s.start
  /\ (IF IsApi(s) THEN s.start ELSE s.start + s.dur) <= body.start + body.dur

(* The calls inside a span: the fast ones, and those with spans below it.  *)
CallsInside(body, id) ==
  body.chiamate + MapThenSumSet(LAMBDA i : 1 + spans[i].chiamate,
                                {i \in Children(id) : IsFunction(spans[i])})

RecordSpan(body, parent) ==
  /\ phase = "running" /\ (Items < MaxItems \/ (Items = MaxSpans /\ Len(spans) = MaxSpans))
  /\ LET id == Len(spans) + 1
         calls == IF IsFunction(body) THEN txn.chiamate + 1 + body.chiamate ELSE txn.chiamate
     IN  /\ \A i \in Children(id) : IsFunction(body) /\ Covers(body, spans[i])
         /\ IF Len(spans) < MaxSpans
            THEN /\ spans' = Append(spans, [body EXCEPT !.id = id, !.parent = parent,
                                                      !.chiamate = CallsInside(body, id)])
                 /\ txn' = [txn EXCEPT !.chiamate = calls]
            ELSE /\ txn' = [txn EXCEPT !.chiamate = calls, !.spans_dropped = @ + 1]
                 /\ UNCHANGED spans
  /\ UNCHANGED <<phase, uri>>

(* A function of the application that gets no span is counted nonetheless. *)
Call ==
  /\ phase = "running" /\ Items < MaxItems
  /\ Update([txn EXCEPT !.chiamate = @ + 1])

(* RSHUTDOWN: orma_txn_end measures and names the transaction.             *)
EndRequest(duration) ==
  /\ phase = "running"
  /\ \A i \in DOMAIN spans : spans[i].start + spans[i].dur <= duration
  /\ phase' = "measured"
  /\ txn' = AssignName([txn EXCEPT !.duration = duration,
                                   !.method = IF uri.absent THEN "" ELSE "GET"])
  /\ UNCHANGED <<uri, spans>>

=============================================================================
