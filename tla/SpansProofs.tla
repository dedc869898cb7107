----------------------------- MODULE SpansProofs -----------------------------
(***************************************************************************)
(* Proofs about Spans, for any number of fibers, any depth, threshold,     *)
(* size of the table and length of the request.                            *)
(***************************************************************************)
EXTENDS Spans, FiniteSetTheorems, WellFoundedInduction, TLAPS

Ids == {"root", "call", "open"} \X Nat

Entries == [kind : {"user", "hook"}, n : Nat]

Frames == [frame : Contexts \X Nat, id : Ids, parent : Ids, start : Nat, chiamate_inizio : Nat]

Records == [id : Ids, parent : Ids, kind : {"function", "hook", "api"}, start : Nat, dur : Int,
            failed : BOOLEAN, open : BOOLEAN, inner : Int]

(* What each variable holds. *)
Typed ==
  /\ all \in BOOLEAN /\ fibers \in BOOLEAN
  /\ phase \in {"idle", "running", "unwinding", "measured"}
  /\ now \in Nat
  /\ php \in [Contexts -> Seq(Entries)] /\ running \in Contexts
  /\ chiamate \in Nat
  /\ stack \in Seq(Frames) /\ skipped \in Nat
  /\ spans \in Seq(Records) /\ dropped \in Nat

(* Between two requests there is no code of the script. *)
Resting == phase \in {"idle", "measured"} => \A c \in Contexts : php[c] = <<>>

(* The frames of the observer, whatever the fibers do to them: a chain of  *)
(* calls in the order they were made.                                      *)
Chain ==
  /\ \A i \in 1 .. Len(stack) :
       /\ stack[i].id = <<"call", stack[i].chiamate_inizio>>
       /\ stack[i].chiamate_inizio \in 1 .. chiamate
       /\ stack[i].start <= now
       /\ stack[i].parent = IF i = 1 THEN Root ELSE stack[i - 1].id
  /\ \A i, j \in 1 .. Len(stack) :
       i < j => /\ stack[i].chiamate_inizio < stack[j].chiamate_inizio
                /\ stack[i].start <= stack[j].start

Called(id, ch) == id = Root \/ \E k \in 1 .. ch : id = <<"call", k>>

Timely(r, ch, t) ==
  /\ Called(r.parent, ch)
  /\ r.start <= t
  /\ ~ r.open => r.start + r.dur <= t

(* A function is recorded when it ends, and then for good. *)
Over(r, ch, st, every) ==
  /\ ~ r.open
  /\ every \/ r.dur >= FunctionMs
  /\ \E k \in 1 .. ch : r.id = <<"call", k>>
  /\ \A j \in 1 .. Len(st) : st[j].id # r.id

Known(r, i, ch, st, every) ==
  /\ r.kind # "function" => r.id = <<"open", i>>
  /\ r.kind = "function" => Over(r, ch, st, every)

(* The table of spans: an open span is known by its place, a function by   *)
(* its call, which is over.                                                *)
Table ==
  /\ Len(spans) <= MaxSpans
  /\ dropped > 0 => Len(spans) = MaxSpans
  /\ \A i \in 1 .. Len(spans) :
       Timely(spans[i], chiamate, now) /\ Known(spans[i], i, chiamate, stack, all)
  /\ \A i, j \in 1 .. Len(spans) :
       spans[i].kind = "function" /\ spans[j].kind = "function" /\ spans[i].id = spans[j].id
         => i = j

AllClosed == phase = "measured" => \A i \in 1 .. Len(spans) : ~ spans[i].open

(* What is recorded under a frame started after it. *)
Under ==
  \A i \in 1 .. Len(spans), j \in 1 .. Len(stack) :
    stack[j].id = spans[i].parent => stack[j].start <= spans[i].start

(* The user functions among the calls of a stack, and those up to one.     *)
UserIn(calls) == {p \in DOMAIN calls : calls[p].kind = "user"}

UpTo(calls, p) == {q \in UserIn(calls) : q <= p}

(* f is the frame of the i-th user function of a stack. *)
FrameOf(f, i, calls) ==
  \E p \in UserIn(calls) :
    /\ f.frame = <<Main, p>>
    /\ Cardinality(UpTo(calls, p)) = i
    /\ f.id = <<"call", calls[p].n>>

(* Without fibers, the frames are those of the outermost calls. *)
Matched ==
  ~ fibers /\ phase # "idle" =>
    /\ running = Main
    /\ skipped > 0 => BeginSkips
    /\ Len(stack) + skipped = Cardinality(UserIn(php[Main]))
    /\ \A i \in 1 .. Len(stack) : FrameOf(stack[i], i, php[Main])

-----------------------------------------------------------------------------
(* Sequences. *)

(* A sequence that grows. *)
LEMMA Grows ==
  ASSUME NEW S, NEW s \in Seq(S), NEW e \in S
  PROVE  /\ Append(s, e) \in Seq(S) /\ Len(Append(s, e)) = Len(s) + 1 /\ Len(s) \in Nat
         /\ Append(s, e)[Len(s) + 1] = e
         /\ \A i \in 1 .. Len(s) : Append(s, e)[i] = s[i]
OBVIOUS

(* A sequence cut short. *)
LEMMA Cut ==
  ASSUME NEW S, NEW s \in Seq(S), NEW k \in 0 .. Len(s)
  PROVE  /\ SubSeq(s, 1, k) \in Seq(S) /\ Len(SubSeq(s, 1, k)) = k
         /\ \A i \in 1 .. k : SubSeq(s, 1, k)[i] = s[i]
<1>1. Len(s) \in Nat /\ \A i \in 1 .. k : s[i] \in S
  OBVIOUS
<1>2. QED
  BY <1>1

(* A finite set of places has a last one. *)
LEMMA LastPlace ==
  ASSUME NEW n \in Nat, NEW S, S \subseteq 1 .. n, S # {}
  PROVE  Max(S) \in S /\ \A i \in S : i <= Max(S)
<1> DEFINE T == {n - i : i \in S}
<1>1. T \subseteq Nat /\ T # {}
  <2>1. \A i \in S : n - i \in Nat
    OBVIOUS
  <2>2. QED
    BY <2>1
<1>2. \E x \in T : \A y \in T : ~ (<<y, x>> \in OpToRel(<, Nat))
  BY <1>1, WFMin, NatLessThanWellFounded
<1>3. PICK x \in T : \A y \in T : ~ (<<y, x>> \in OpToRel(<, Nat))
  BY <1>2
<1>4. \A y \in T : ~ (y < x)
  BY <1>1, <1>3 DEF OpToRel
<1>5. PICK m \in S : x = n - m
  BY <1>3
<1>6. \A i \in S : m >= i
  <2>1. ASSUME NEW i \in S
        PROVE  m >= i
    <3>1. i \in Nat /\ m \in Nat
      OBVIOUS
    <3>2. n - i \in T
      OBVIOUS
    <3> HIDE DEF T
    <3>3. ~ (n - i < n - m)
      BY <1>4, <1>5, <3>2
    <3>4. QED
      BY <3>1, <3>3
  <2>2. QED
    BY <2>1
<1>7. QED
  BY <1>5, <1>6 DEF Max
-----------------------------------------------------------------------------
(* What the steps do to the table of spans. *)

(* Some spans that were open are closed, and nothing else. *)
Closing ==
  /\ spans' \in Seq(Records) /\ Len(spans') = Len(spans) /\ UNCHANGED dropped
  /\ \A i \in 1 .. Len(spans) :
       \/ spans'[i] = spans[i]
       \/ spans[i].open /\ \E failed \in BOOLEAN : spans'[i] = Closed(spans[i], failed)

(* A closed span is a span, of the same call. *)
LEMMA ClosedRecord ==
  ASSUME Typed, NEW r \in Records, NEW failed \in BOOLEAN
  PROVE  /\ Closed(r, failed) \in Records
         /\ Closed(r, failed).id = r.id /\ Closed(r, failed).parent = r.parent
         /\ Closed(r, failed).kind = r.kind /\ Closed(r, failed).start = r.start
         /\ Closed(r, failed).dur = now - r.start
         /\ ~ Closed(r, failed).open /\ Closed(r, failed).failed = failed
<1>1. now - r.start \in Int
  BY DEF Typed, Records
<1> DEFINE d == now - r.start
<1>2. Closed(r, failed) = [r EXCEPT !.dur = d, !.failed = failed, !.open = FALSE]
  BY DEF Closed
<1> HIDE DEF d
<1>3. QED
  BY <1>1, <1>2 DEF Records, d

(* Closing a span leaves it what and where it was. *)
LEMMA ClosingKeeps ==
  ASSUME Typed, Closing, NEW i \in 1 .. Len(spans)
  PROVE  /\ spans'[i].id = spans[i].id /\ spans'[i].parent = spans[i].parent
         /\ spans'[i].kind = spans[i].kind /\ spans'[i].start = spans[i].start
<1>1. spans[i] \in Records
  BY DEF Typed
<1>2. CASE spans'[i] = spans[i]
  BY <1>2
<1>3. ASSUME NEW failed \in BOOLEAN, spans'[i] = Closed(spans[i], failed)
      PROVE  /\ spans'[i].id = spans[i].id /\ spans'[i].parent = spans[i].parent
             /\ spans'[i].kind = spans[i].kind /\ spans'[i].start = spans[i].start
  BY <1>1, <1>3, ClosedRecord
<1>4. QED
  BY <1>2, <1>3 DEF Closing

(* orma_span_close touches the span it is given, if it is open. *)
LEMMA CloseSpanCloses ==
  ASSUME Typed, NEW i, NEW failed \in BOOLEAN, CloseSpan(i, failed)
  PROVE  /\ Closing
         /\ \A k \in 1 .. Len(spans) :
              spans'[k] = spans[k] \/ (k = i /\ spans[k].open /\ spans'[k] = Closed(spans[k], failed))
<1>1. spans \in Seq(Records) /\ DOMAIN spans = 1 .. Len(spans) /\ Len(spans) \in Nat
  BY DEF Typed
<1>2. CASE i \in DOMAIN spans /\ spans[i].open
  <2>1. spans[i] \in Records
    BY <1>1, <1>2
  <2> DEFINE r == Closed(spans[i], failed)
  <2>2. r \in Records
    BY <2>1, ClosedRecord
  <2>3. spans' = [spans EXCEPT ![i] = r]
    BY <1>2 DEF CloseSpan
  <2> HIDE DEF r
  <2>4. /\ spans' \in Seq(Records) /\ Len(spans') = Len(spans)
        /\ \A k \in 1 .. Len(spans) : spans'[k] = IF k = i THEN r ELSE spans[k]
    BY <1>1, <1>2, <2>2, <2>3
  <2>5. QED
    BY <1>2, <2>4 DEF CloseSpan, Closing, r
<1>3. CASE ~ (i \in DOMAIN spans /\ spans[i].open)
  BY <1>1, <1>3 DEF CloseSpan, Closing
<1>4. QED
  BY <1>2, <1>3

(* orma_spans_close_open closes all, as failed. *)
LEMMA CloseOpenCloses ==
  ASSUME Typed, spans' = CloseOpen, UNCHANGED dropped
  PROVE  /\ Closing
         /\ \A k \in 1 .. Len(spans) :
              /\ ~ spans'[k].open
              /\ spans'[k] = spans[k] \/ (spans[k].open /\ spans'[k] = Closed(spans[k], TRUE))
<1>1. spans \in Seq(Records) /\ DOMAIN spans = 1 .. Len(spans) /\ Len(spans) \in Nat
  BY DEF Typed
<1> DEFINE r(k) == IF spans[k].open THEN Closed(spans[k], TRUE) ELSE spans[k]
<1>2. \A k \in 1 .. Len(spans) : spans[k] \in Records /\ Closed(spans[k], TRUE) \in Records
  <2>1. \A k \in 1 .. Len(spans) : spans[k] \in Records
    BY <1>1
  <2>2. \A x \in Records : Closed(x, TRUE) \in Records
    BY ClosedRecord
  <2>3. QED
    BY <2>1, <2>2
<1>3. \A k \in 1 .. Len(spans) : r(k) \in Records /\ ~ r(k).open
  <2>1. \A k \in 1 .. Len(spans) : ~ Closed(spans[k], TRUE).open
    BY <1>2, ClosedRecord
  <2>2. QED
    BY <1>2, <2>1
<1>4. spans' = [k \in 1 .. Len(spans) |-> r(k)]
  BY <1>1 DEF CloseOpen
<1>5. \A k \in 1 .. Len(spans) :
        r(k) = spans[k] \/ (spans[k].open /\ r(k) = Closed(spans[k], TRUE))
  OBVIOUS
<1> HIDE DEF r
<1>6. /\ spans' \in Seq(Records) /\ Len(spans') = Len(spans)
      /\ \A k \in 1 .. Len(spans) : spans'[k] = r(k)
  BY <1>1, <1>3, <1>4
<1>7. QED
  BY <1>3, <1>5, <1>6 DEF Closing

(* The parent of what is recorded now. *)
LEMMA ParentIsId ==
  ASSUME Typed
  PROVE  CurrentParent \in Ids /\ Root \in Ids
<1>1. Root \in Ids
  BY DEF Root, Ids
<1>2. stack # <<>> => Top(stack) \in Frames
  BY DEF Typed, Top
<1>3. QED
  BY <1>1, <1>2 DEF CurrentParent, Frames

(* orma_spans_room: a span is added, or counted as refused. *)
LEMMA AddSpanTyped ==
  ASSUME Typed, NEW r \in Records, AddSpan(r)
  PROVE  /\ spans' \in Seq(Records) /\ dropped' \in Nat
         /\ \/ /\ Len(spans) < MaxSpans /\ UNCHANGED dropped
               /\ spans' = Append(spans, r)
            \/ ~ (Len(spans) < MaxSpans) /\ dropped' = dropped + 1 /\ UNCHANGED spans
<1>1. spans \in Seq(Records) /\ dropped \in Nat
  BY DEF Typed
<1>2. Append(spans, r) \in Seq(Records)
  BY <1>1
<1>3. CASE Len(spans) < MaxSpans
  BY <1>1, <1>2, <1>3 DEF AddSpan
<1>4. CASE ~ (Len(spans) < MaxSpans)
  BY <1>1, <1>4 DEF AddSpan
<1>5. QED
  BY <1>3, <1>4

Opened(kind) ==
  [id |-> <<"open", Len(spans) + 1>>, parent |-> CurrentParent, kind |-> kind,
   start |-> now, dur |-> 0, failed |-> FALSE, open |-> TRUE, inner |-> 0]

(* A hook or the API opens a span. *)
LEMMA OpenSpanAdds ==
  ASSUME Typed, NEW kind \in {"hook", "api"}, OpenSpan(kind)
  PROVE  Opened(kind) \in Records /\ AddSpan(Opened(kind))
<1>1. <<"open", Len(spans) + 1>> \in Ids /\ now \in Nat
  BY DEF Typed, Ids
<1>2. CurrentParent \in Ids
  BY ParentIsId
<1>3. Opened(kind) \in Records
  BY <1>1, <1>2 DEF Opened, Records
<1>4. QED
  BY <1>3 DEF OpenSpan, Opened

Emitted(f) ==
  [id |-> f.id, parent |-> f.parent, kind |-> "function", start |-> f.start,
   dur |-> now - f.start, failed |-> FALSE, open |-> FALSE, inner |-> CallsInside(f)]

(* The observer records a function that was slow. *)
LEMMA EmitAdds ==
  ASSUME Typed, NEW f \in Frames, Emit(f)
  PROVE  /\ Emitted(f) \in Records
         /\ Slow(now - f.start) => AddSpan(Emitted(f))
         /\ ~ Slow(now - f.start) => UNCHANGED spanVars
<1>1. f.id \in Ids /\ f.parent \in Ids /\ f.start \in Nat /\ now - f.start \in Int
  BY DEF Typed, Frames
<1>2. CallsInside(f) \in Int
  BY DEF Typed, Frames, CallsInside
<1>3. Emitted(f) \in Records
  BY <1>1, <1>2 DEF Emitted, Records
<1>4. QED
  BY <1>3 DEF Emit, Emitted

-----------------------------------------------------------------------------
(* What the steps do to the stacks. *)

NewFrame ==
  [frame |-> <<running, Len(php[running]) + 1>>, id |-> <<"call", chiamate + 1>>,
   parent |-> CurrentParent, start |-> now, chiamate_inizio |-> chiamate + 1]

(* What the observer pushes is a frame. *)
LEMMA NewFrameTyped == Typed => NewFrame \in Frames
<1> SUFFICES ASSUME Typed
             PROVE  NewFrame \in Frames
  OBVIOUS
<1>1. running \in Contexts /\ Len(php[running]) + 1 \in Nat /\ chiamate + 1 \in Nat /\ now \in Nat
  BY DEF Typed
<1>2. <<running, Len(php[running]) + 1>> \in Contexts \X Nat /\ <<"call", chiamate + 1>> \in Ids
  BY <1>1 DEF Ids
<1>3. CurrentParent \in Ids
  BY ParentIsId
<1>4. QED
  BY <1>1, <1>2, <1>3 DEF NewFrame, Frames

(* A call goes on the stack of its context. *)
LEMMA PushTyped ==
  ASSUME Typed, NEW e \in Entries, Push(e)
  PROVE  php' \in [Contexts -> Seq(Entries)]
<1> DEFINE q == Append(php[running], e)
<1>1. q \in Seq(Entries)
  BY DEF Typed
<1>2. php' = [php EXCEPT ![running] = q]
  BY DEF Push
<1> HIDE DEF q
<1>3. QED
  BY <1>1, <1>2 DEF Typed

(* It returns from it. *)
LEMMA PopTyped ==
  ASSUME Typed, Pop, php[running] # <<>>
  PROVE  /\ php' \in [Contexts -> Seq(Entries)]
         /\ Len(php[running]) - 1 \in 0 .. Len(php[running])
<1> DEFINE s == php[running]
           q == Front(s)
<1>1. s \in Seq(Entries) /\ s # <<>>
  BY DEF Typed
<1>2. Len(s) - 1 \in 0 .. Len(s)
  BY <1>1
<1>3. q = SubSeq(s, 1, Len(s) - 1)
  BY DEF Front
<1>4. q \in Seq(Entries)
  BY <1>1, <1>2, <1>3, Cut
<1>5. php' = [php EXCEPT ![running] = q]
  BY DEF Pop
<1> HIDE DEF q
<1>6. QED
  BY <1>2, <1>4, <1>5 DEF Typed

(* What orma_observer_end finds and leaves. *)
LEMMA Unrolls ==
  ASSUME Typed, NEW frame, Place(frame) # {}
  PROVE  LET i == Max(Place(frame)) IN
         /\ i \in 1 .. Len(stack) /\ stack[i] \in Frames /\ stack[i].frame = frame
         /\ \A j \in Place(frame) : j <= i
         /\ Unrolled(i) \in Seq(Frames) /\ Len(Unrolled(i)) = i - 1
         /\ \A j \in 1 .. i - 1 : Unrolled(i)[j] = stack[j]
<1> DEFINE i == Max(Place(frame))
<1>1. stack \in Seq(Frames) /\ Len(stack) \in Nat /\ DOMAIN stack = 1 .. Len(stack)
  BY DEF Typed
<1>2. Place(frame) \subseteq 1 .. Len(stack)
  BY <1>1 DEF Place
<1>3. i \in Place(frame) /\ \A j \in Place(frame) : j <= i
  BY <1>1, <1>2, LastPlace
<1> HIDE DEF i
<1>4. i \in 1 .. Len(stack) /\ stack[i].frame = frame /\ stack[i] \in Frames
  BY <1>1, <1>2, <1>3 DEF Place
<1>5. i - 1 \in 0 .. Len(stack)
  BY <1>1, <1>4
<1>6. /\ SubSeq(stack, 1, i - 1) \in Seq(Frames) /\ Len(SubSeq(stack, 1, i - 1)) = i - 1
      /\ \A j \in 1 .. i - 1 : SubSeq(stack, 1, i - 1)[j] = stack[j]
  BY <1>1, <1>5, Cut
<1>7. QED
  BY <1>3, <1>4, <1>6 DEF Unrolled, i
-----------------------------------------------------------------------------
(* Types. *)

(* A worker starts with nothing. *)
LEMMA TypedInit == Init => Typed
<1> SUFFICES ASSUME Init
             PROVE  Typed
  OBVIOUS
<1>1. <<>> \in Seq(Entries) /\ <<>> \in Seq(Frames) /\ <<>> \in Seq(Records)
  OBVIOUS
<1>2. QED
  BY <1>1, ConstantsAssumption DEF Init, Typed

(* Every step keeps the types. *)
LEMMA TypedNext == Typed /\ [Next]_vars => Typed'
<1> SUFFICES ASSUME Typed, [Next]_vars
             PROVE  Typed'
  OBVIOUS
<1> USE DEF modeVars, phpVars, observerVars, spanVars
<1>1. CASE Call
  <2>1. [kind |-> "user", n |-> chiamate + 1] \in Entries
    BY DEF Typed, Entries
  <2>2. php' \in [Contexts -> Seq(Entries)]
    BY <1>1, <2>1, PushTyped DEF Call
  <2>3. stack' \in Seq(Frames) /\ skipped' \in Nat
    <3>1. CASE BeginSkips
      BY <1>1, <3>1 DEF Call, Typed
    <3>2. CASE ~ BeginSkips
      <4>1. stack' = Append(stack, NewFrame) /\ UNCHANGED skipped
        BY <1>1, <3>2 DEF Call, NewFrame
      <4>2. NewFrame \in Frames /\ stack \in Seq(Frames)
        BY NewFrameTyped DEF Typed
      <4>3. QED
        BY <4>1, <4>2, Grows DEF Typed
    <3>3. QED
      BY <3>1, <3>2
  <2>4. chiamate' \in Nat /\ UNCHANGED <<all, fibers, phase, now, running, spans, dropped>>
    BY <1>1 DEF Call, Typed
  <2>5. QED
    BY <2>2, <2>3, <2>4 DEF Typed
<1>2. CASE Return
  <2> DEFINE frame == <<running, Len(php[running])>>
             i == Max(Place(frame))
  <2>1. php' \in [Contexts -> Seq(Entries)]
    BY <1>2, PopTyped DEF Return, TopIs
  <2>2. stack' \in Seq(Frames) /\ skipped' \in Nat /\ spans' \in Seq(Records) /\ dropped' \in Nat
    <3>1. CASE EndSkips
      BY <1>2, <3>1 DEF Return, Typed, EndSkips
    <3>2. CASE ~ EndSkips /\ Place(frame) = {}
      BY <1>2, <3>2 DEF Return, Typed
    <3>3. CASE ~ EndSkips /\ Place(frame) # {}
      <4>1. stack' = Unrolled(i) /\ Emit(stack[i]) /\ UNCHANGED skipped
        BY <1>2, <3>3 DEF Return
      <4>2. stack[i] \in Frames /\ Unrolled(i) \in Seq(Frames)
        BY <3>3, Unrolls
      <4> HIDE DEF i
      <4>3. spans' \in Seq(Records) /\ dropped' \in Nat
        BY <4>1, <4>2, EmitAdds, AddSpanTyped DEF Typed
      <4>4. QED
        BY <4>1, <4>2, <4>3 DEF Typed
    <3>4. QED
      BY <3>1, <3>2, <3>3
  <2>3. UNCHANGED <<all, fibers, phase, now, running, chiamate>>
    BY <1>2 DEF Return
  <2>4. QED
    BY <2>1, <2>2, <2>3 DEF Typed
<1>3. CASE EnterHook
  <2> DEFINE e == [kind |-> "hook", n |-> IF Len(spans) < MaxSpans THEN Len(spans) + 1 ELSE 0]
  <2>1. e \in Entries
    <3>1. Len(spans) \in Nat
      BY DEF Typed
    <3>2. QED
      BY <3>1 DEF Entries
  <2>2. Push(e) /\ OpenSpan("hook")
    BY <1>3 DEF EnterHook
  <2> HIDE DEF e
  <2>3. php' \in [Contexts -> Seq(Entries)]
    BY <2>1, <2>2, PushTyped
  <2>4. spans' \in Seq(Records) /\ dropped' \in Nat
    BY <2>2, OpenSpanAdds, AddSpanTyped
  <2>5. QED
    BY <1>3, <2>3, <2>4 DEF EnterHook, Typed
<1>4. ASSUME NEW failed \in BOOLEAN, LeaveHook(failed)
      PROVE  Typed'
  <2>1. php' \in [Contexts -> Seq(Entries)]
    BY <1>4, PopTyped DEF LeaveHook, TopIs
  <2>2. Closing
    BY <1>4, CloseSpanCloses DEF LeaveHook
  <2>3. QED
    BY <1>4, <2>1, <2>2 DEF LeaveHook, Closing, Typed
<1>5. CASE StartSpan
  <2>1. spans' \in Seq(Records) /\ dropped' \in Nat
    BY <1>5, OpenSpanAdds, AddSpanTyped DEF StartSpan
  <2>2. QED
    BY <1>5, <2>1 DEF StartSpan, Typed
<1>6. ASSUME NEW i \in 1 .. MaxSpans, EndSpan(i)
      PROVE  Typed'
  <2>1. Closing
    BY <1>6, CloseSpanCloses DEF EndSpan
  <2>2. QED
    BY <1>6, <2>1 DEF EndSpan, Closing, Typed
<1>7. CASE Tick
  BY <1>7 DEF Tick, Typed
<1>8. ASSUME NEW c \in Contexts, Switch(c)
      PROVE  Typed'
  BY <1>8 DEF Switch, Typed
<1>9. CASE Bailout
  BY <1>9 DEF Bailout, Typed
<1>10. CASE AbandonHook
  <2>1. php' \in [Contexts -> Seq(Entries)]
    BY <1>10, PopTyped DEF AbandonHook, TopIs
  <2>2. QED
    BY <1>10, <2>1 DEF AbandonHook, Typed
<1>11. CASE Unwound
  BY <1>11 DEF Unwound, Typed
<1>12. CASE RequestStart
  <2>1. <<>> \in Seq(Frames) /\ <<>> \in Seq(Records)
    OBVIOUS
  <2>2. QED
    BY <1>12, <2>1, ConstantsAssumption DEF RequestStart, Typed
<1>13. CASE RequestShutdown
  <2>1. Closing
    BY <1>13, CloseOpenCloses DEF RequestShutdown
  <2>2. QED
    BY <1>13, <2>1 DEF RequestShutdown, Closing, Typed
<1>14. CASE PostDeactivate
  BY <1>14 DEF PostDeactivate, Typed
<1>15. CASE UNCHANGED vars
  BY <1>15 DEF vars, Typed
<1>16. QED
  BY <1>1, <1>2, <1>3, <1>4, <1>5, <1>6, <1>7, <1>8, <1>9, <1>10, <1>11, <1>12, <1>13, <1>14,
     <1>15
     DEF Next
-----------------------------------------------------------------------------
(* The kinds of steps, for the observer and the table of spans. *)

Quiet == UNCHANGED <<stack, chiamate, spans, dropped>> /\ now <= now'

Begins ==
  /\ UNCHANGED <<spans, dropped, now>>
  /\ chiamate' = chiamate + 1
  /\ stack' = stack \/ stack' = Append(stack, NewFrame)

Ends(i) ==
  /\ UNCHANGED <<chiamate, now>>
  /\ Len(stack') = i - 1
  /\ \A j \in 1 .. i - 1 : stack'[j] = stack[j]
  /\ Emit(stack[i])

Opens == UNCHANGED <<stack, chiamate, now>> /\ \E kind \in {"hook", "api"} : OpenSpan(kind)

Closes == UNCHANGED <<stack, chiamate, now>> /\ Closing

Starts ==
  /\ phase = "idle"
  /\ stack' = <<>> /\ spans' = <<>> /\ dropped' = 0 /\ chiamate' = 0 /\ now' = 0

(* Every step is of one of these kinds. *)
LEMMA Kinds ==
  ASSUME Typed, [Next]_vars
  PROVE  /\ all' = all
         /\ Quiet \/ Begins \/ (\E i \in 1 .. Len(stack) : Ends(i)) \/ Opens \/ Closes \/ Starts
<1> USE DEF modeVars, phpVars, observerVars, spanVars
<1>a. all' = all
  BY DEF Next, vars, Call, Return, EnterHook, LeaveHook, StartSpan, EndSpan, Tick, Switch,
         Bailout, AbandonHook, Unwound, RequestStart, RequestShutdown, PostDeactivate
<1>b. SUFFICES Quiet \/ Begins \/ (\E i \in 1 .. Len(stack) : Ends(i)) \/ Opens \/ Closes \/ Starts
  BY <1>a
<1>0. now <= now
  BY DEF Typed
<1>1. CASE Call
  BY <1>1 DEF Call, Begins, NewFrame
<1>2. CASE Return
  <2> DEFINE frame == <<running, Len(php[running])>>
             i == Max(Place(frame))
  <2>1. CASE EndSkips \/ Place(frame) = {}
    BY <1>0, <1>2, <2>1 DEF Return, Quiet
  <2>2. CASE ~ EndSkips /\ Place(frame) # {}
    <3>1. stack' = Unrolled(i) /\ Emit(stack[i]) /\ UNCHANGED <<chiamate, now>>
      BY <1>2, <2>2 DEF Return
    <3>2. /\ i \in 1 .. Len(stack) /\ Len(Unrolled(i)) = i - 1
          /\ \A j \in 1 .. i - 1 : Unrolled(i)[j] = stack[j]
      BY <2>2, Unrolls
    <3> HIDE DEF i
    <3>3. QED
      BY <3>1, <3>2 DEF Ends
  <2>3. QED
    BY <2>1, <2>2
<1>3. CASE EnterHook \/ StartSpan
  BY <1>3 DEF EnterHook, StartSpan, Opens
<1>4. ASSUME NEW failed \in BOOLEAN, LeaveHook(failed)
      PROVE  Closes
  BY <1>4, CloseSpanCloses DEF LeaveHook, Closes
<1>5. ASSUME NEW i \in 1 .. MaxSpans, EndSpan(i)
      PROVE  Closes
  BY <1>5, CloseSpanCloses DEF EndSpan, Closes
<1>6. CASE Tick
  <2>1. now <= now + 1
    BY DEF Typed
  <2>2. QED
    BY <1>6, <2>1 DEF Tick, Quiet
<1>7. CASE RequestStart
  BY <1>7 DEF RequestStart, Starts
<1>8. CASE RequestShutdown
  BY <1>8, CloseOpenCloses DEF RequestShutdown, Closes
<1>9. CASE (\E c \in Contexts : Switch(c)) \/ Bailout \/ AbandonHook \/ Unwound \/ PostDeactivate
  BY <1>0, <1>9 DEF Switch, Bailout, AbandonHook, Unwound, PostDeactivate, Quiet
<1>10. CASE UNCHANGED vars
  BY <1>0, <1>10 DEF vars, Quiet
<1>11. QED
  BY <1>1, <1>2, <1>3, <1>4, <1>5, <1>6, <1>7, <1>8, <1>9, <1>10 DEF Next

-----------------------------------------------------------------------------
(* The observer and the table of spans, with or without fibers. *)

(* What the elements of the two sequences are. *)
LEMMA Elements ==
  ASSUME Typed
  PROVE  /\ Len(stack) \in Nat /\ DOMAIN stack = 1 .. Len(stack)
         /\ \A i \in 1 .. Len(stack) :
              /\ stack[i] \in Frames /\ stack[i].id \in Ids /\ stack[i].parent \in Ids
              /\ stack[i].start \in Nat /\ stack[i].chiamate_inizio \in Nat
         /\ Len(spans) \in Nat /\ DOMAIN spans = 1 .. Len(spans)
         /\ \A i \in 1 .. Len(spans) :
              /\ spans[i] \in Records /\ spans[i].start \in Nat /\ spans[i].dur \in Int
         /\ now \in Nat /\ chiamate \in Nat /\ dropped \in Nat
<1>1. stack \in Seq(Frames) /\ spans \in Seq(Records)
  BY DEF Typed
<1>2. \A f \in Frames : f.id \in Ids /\ f.parent \in Ids /\ f.start \in Nat /\ f.chiamate_inizio \in Nat
  BY DEF Frames
<1>3. \A r \in Records : r.start \in Nat /\ r.dur \in Int
  BY DEF Records
<1>4. (\A i \in 1 .. Len(stack) : stack[i] \in Frames) /\ (\A i \in 1 .. Len(spans) : spans[i] \in Records)
  BY <1>1
<1>5. QED
  BY <1>1, <1>2, <1>3, <1>4 DEF Typed

(* The observer stacks its calls in the order they are made. *)
LEMMA ChainNext ==
  ASSUME Typed, Chain, [Next]_vars
  PROVE  Chain'
<1>0. /\ Len(stack) \in Nat /\ now \in Nat /\ chiamate \in Nat
      /\ \A i \in 1 .. Len(stack) : stack[i].start \in Nat /\ stack[i].chiamate_inizio \in Nat
  BY Elements
<1>1. CASE (Quiet \/ Opens \/ Closes) /\ now' \in Nat
  <2>1. UNCHANGED <<stack, chiamate>> /\ now <= now' /\ now' \in Nat
    BY <1>0, <1>1 DEF Quiet, Opens, Closes
  <2>2. \A i \in 1 .. Len(stack) : stack[i].start <= now'
    BY <1>0, <2>1 DEF Chain
  <2>3. QED
    BY <2>1, <2>2 DEF Chain
<1>2. CASE Begins
  <2>1. CASE stack' = stack
    BY <1>0, <1>2, <2>1 DEF Begins, Chain
  <2>2. CASE stack' = Append(stack, NewFrame)
    <3> DEFINE n == Len(stack) + 1
    <3>1. /\ Len(stack') = n /\ stack'[n] = NewFrame
          /\ \A i \in 1 .. Len(stack) : stack'[i] = stack[i]
      BY <2>2, NewFrameTyped, Grows DEF Typed
    <3>2. /\ NewFrame.id = <<"call", chiamate + 1>> /\ NewFrame.chiamate_inizio = chiamate + 1
          /\ NewFrame.start = now /\ NewFrame.parent = CurrentParent
      BY DEF NewFrame
    <3>3. CurrentParent = IF n = 1 THEN Root ELSE stack[n - 1].id
      <4>1. stack = <<>> <=> Len(stack) = 0
        BY DEF Typed
      <4>2. QED
        BY <1>0, <4>1 DEF CurrentParent, Top
    <3>4. chiamate' = chiamate + 1 /\ now' = now
      BY <1>2 DEF Begins
    <3>5. ASSUME NEW i \in 1 .. n
          PROVE  /\ stack'[i].id = <<"call", stack'[i].chiamate_inizio>>
                 /\ stack'[i].chiamate_inizio \in 1 .. chiamate'
                 /\ stack'[i].start <= now'
                 /\ stack'[i].parent = IF i = 1 THEN Root ELSE stack'[i - 1].id
      <4>1. CASE i = n
        <5>1. n # 1 => stack'[n - 1] = stack[n - 1]
          BY <1>0, <3>1
        <5>2. QED
          BY <1>0, <3>1, <3>2, <3>3, <3>4, <4>1, <5>1
      <4>2. CASE i # n
        <5>1. i \in 1 .. Len(stack) /\ (i # 1 => i - 1 \in 1 .. Len(stack))
          BY <1>0, <4>2
        <5>2. stack'[i] = stack[i] /\ (i # 1 => stack'[i - 1] = stack[i - 1])
          BY <3>1, <5>1
        <5>3. /\ stack[i].id = <<"call", stack[i].chiamate_inizio>>
              /\ stack[i].chiamate_inizio \in 1 .. chiamate
              /\ stack[i].start <= now
              /\ stack[i].parent = IF i = 1 THEN Root ELSE stack[i - 1].id
          BY <5>1 DEF Chain
        <5>4. stack[i].chiamate_inizio \in 1 .. chiamate'
          BY <1>0, <3>4, <5>3
        <5>5. QED
          BY <3>4, <5>2, <5>3, <5>4
      <4>3. QED
        BY <4>1, <4>2
    <3>6. ASSUME NEW i \in 1 .. n, NEW j \in 1 .. n, i < j
          PROVE  /\ stack'[i].chiamate_inizio < stack'[j].chiamate_inizio
                 /\ stack'[i].start <= stack'[j].start
      <4>1. i \in 1 .. Len(stack)
        BY <1>0, <3>6
      <4>2. CASE j = n
        BY <1>0, <3>1, <3>2, <4>1, <4>2 DEF Chain
      <4>3. CASE j # n
        <5>1. j \in 1 .. Len(stack)
          BY <1>0, <4>3
        <5>2. QED
          BY <3>1, <3>6, <4>1, <5>1 DEF Chain
      <4>4. QED
        BY <4>2, <4>3
    <3>7. QED
      BY <3>1, <3>5, <3>6 DEF Chain
  <2>3. QED
    BY <1>2, <2>1, <2>2 DEF Begins
<1>3. ASSUME NEW k \in 1 .. Len(stack), Ends(k)
      PROVE  Chain'
  <2>1. /\ Len(stack') = k - 1 /\ \A j \in 1 .. k - 1 : j \in 1 .. Len(stack) /\ stack'[j] = stack[j]
        /\ UNCHANGED <<chiamate, now>>
    BY <1>0, <1>3 DEF Ends
  <2>2. \A i \in 1 .. k - 1 : i # 1 => i - 1 \in 1 .. k - 1
    BY <1>0
  <2>3. QED
    BY <1>0, <2>1, <2>2 DEF Chain
<1>4. CASE Starts
  <2>1. Len(stack') = 0
    BY <1>4 DEF Starts
  <2>2. QED
    BY <2>1 DEF Chain
<1>5. QED
  BY <1>1, <1>2, <1>3, <1>4, Kinds, TypedNext DEF Typed

(* The parent of what is recorded now is a call, or the root. *)
LEMMA ParentCalled ==
  ASSUME Typed, Chain
  PROVE  /\ Called(CurrentParent, chiamate)
         /\ \A i \in 1 .. Len(stack) : Called(stack[i].parent, chiamate)
<1>1. Len(stack) \in Nat /\ (stack = <<>> <=> Len(stack) = 0)
  BY DEF Typed
<1>2. \A i \in 1 .. Len(stack) : Called(stack[i].id, chiamate)
  BY DEF Chain, Called
<1>3. Called(CurrentParent, chiamate)
  <2>1. CASE stack = <<>>
    BY <2>1 DEF CurrentParent, Called
  <2>2. CASE stack # <<>>
    BY <1>1, <1>2, <2>2 DEF CurrentParent, Top
  <2>3. QED
    BY <2>1, <2>2
<1>4. ASSUME NEW i \in 1 .. Len(stack)
      PROVE  Called(stack[i].parent, chiamate)
  <2>1. stack[i].parent = IF i = 1 THEN Root ELSE stack[i - 1].id
    BY DEF Chain
  <2>2. i # 1 => i - 1 \in 1 .. Len(stack)
    BY <1>1
  <2>3. QED
    BY <1>2, <2>1, <2>2 DEF Called
<1>5. QED
  BY <1>3, <1>4

(* Time and calls go on, and a frame that is left does not come back. *)
LEMMA StillGood ==
  ASSUME NEW r \in Records, NEW i, NEW ch \in Nat, NEW dh \in Nat, ch <= dh,
         NEW t \in Nat, NEW u \in Nat, t <= u, NEW st, NEW su, NEW every,
         \A k \in 1 .. Len(su) :
           (\E j \in 1 .. Len(st) : su[k].id = st[j].id) \/ su[k].id = <<"call", ch + 1>>,
         Timely(r, ch, t), Known(r, i, ch, st, every)
  PROVE  Timely(r, dh, u) /\ Known(r, i, dh, su, every)
<1>1. r.start \in Nat /\ r.dur \in Int
  BY DEF Records
<1>2. Called(r.parent, dh)
  BY DEF Timely, Called
<1>3. r.start <= u /\ (~ r.open => r.start + r.dur <= u)
  BY <1>1 DEF Timely
<1>4. ASSUME r.kind = "function"
      PROVE  Over(r, dh, su, every)
  <2>1. PICK k \in 1 .. ch : r.id = <<"call", k>>
    BY <1>4 DEF Known, Over
  <2>2. k \in 1 .. dh /\ k # ch + 1
    OBVIOUS
  <2>3. ASSUME NEW j \in 1 .. Len(su)
        PROVE  su[j].id # r.id
    <3>1. \A q \in 1 .. Len(st) : st[q].id # r.id
      BY <1>4 DEF Known, Over
    <3>2. r.id # <<"call", ch + 1>>
      BY <2>1, <2>2
    <3>3. QED
      BY <3>1, <3>2
  <2>4. ~ r.open /\ (every \/ r.dur >= FunctionMs)
    BY <1>4 DEF Known, Over
  <2>5. QED
    BY <2>1, <2>2, <2>3, <2>4 DEF Over
<1>5. QED
  BY <1>2, <1>3, <1>4 DEF Timely, Known

(* A table whose spans are as they were, or closed, is still good. *)
LEMMA TableKept ==
  ASSUME Typed, Typed', Table, all' = all,
         Len(spans') = Len(spans), UNCHANGED dropped,
         now <= now', chiamate <= chiamate',
         \A k \in 1 .. Len(stack') :
           \/ \E j \in 1 .. Len(stack) : stack'[k].id = stack[j].id
           \/ stack'[k].id = <<"call", chiamate + 1>>,
         \A i \in 1 .. Len(spans) :
           \/ spans'[i] = spans[i]
           \/ /\ spans[i].open /\ now' = now
              /\ \E failed \in BOOLEAN : spans'[i] = Closed(spans[i], failed)
  PROVE  Table'
<1>0. /\ Len(spans) \in Nat /\ now \in Nat /\ now' \in Nat /\ chiamate \in Nat /\ chiamate' \in Nat
      /\ \A i \in 1 .. Len(spans) :
           spans[i] \in Records /\ spans[i].start \in Nat /\ spans[i].dur \in Int
  BY Elements DEF Typed
<1>1. ASSUME NEW i \in 1 .. Len(spans)
      PROVE  /\ spans'[i].id = spans[i].id /\ spans'[i].kind = spans[i].kind
             /\ Timely(spans'[i], chiamate', now')
             /\ Known(spans'[i], i, chiamate', stack', all)
  <2>1. Timely(spans[i], chiamate, now) /\ Known(spans[i], i, chiamate, stack, all)
    BY DEF Table
  <2>2. /\ Timely(spans[i], chiamate', now')
        /\ Known(spans[i], i, chiamate', stack', all)
    BY <1>0, <2>1, StillGood
  <2>3. CASE spans'[i] = spans[i]
    BY <2>2, <2>3
  <2>4. CASE /\ spans[i].open /\ now' = now
             /\ \E failed \in BOOLEAN : spans'[i] = Closed(spans[i], failed)
    <3>1. PICK failed \in BOOLEAN : spans'[i] = Closed(spans[i], failed)
      BY <2>4
    <3> DEFINE r == spans'[i]
    <3>2. /\ r.id = spans[i].id /\ r.parent = spans[i].parent /\ r.kind = spans[i].kind
          /\ r.start = spans[i].start /\ r.dur = now - spans[i].start /\ ~ r.open
      BY <1>0, <3>1, ClosedRecord
    <3>3. spans[i].kind # "function"
      BY <2>1, <2>4 DEF Known, Over
    <3>4. r.start + r.dur <= now' /\ r.start <= now'
      BY <1>0, <2>1, <2>4, <3>2 DEF Timely
    <3> HIDE DEF r
    <3>5. Timely(r, chiamate', now')
      BY <2>2, <3>2, <3>4 DEF Timely
    <3>6. Known(r, i, chiamate', stack', all)
      BY <2>1, <3>2, <3>3 DEF Known
    <3>7. QED
      BY <3>2, <3>5, <3>6 DEF r
  <2>5. QED
    BY <2>3, <2>4
<1>2. \A i, j \in 1 .. Len(spans') :
        spans'[i].kind = "function" /\ spans'[j].kind = "function" /\ spans'[i].id = spans'[j].id
          => i = j
  BY <1>1 DEF Table
<1>3. Len(spans') <= MaxSpans /\ (dropped' > 0 => Len(spans') = MaxSpans)
  BY DEF Table
<1>4. QED
  BY <1>1, <1>2, <1>3 DEF Table

(* A span that is recorded, or refused, leaves a good table. *)
LEMMA TableAdds ==
  ASSUME Typed, Table, UNCHANGED <<now, chiamate, all>>, NEW r \in Records, AddSpan(r),
         \A k \in 1 .. Len(stack') : \E j \in 1 .. Len(stack) : stack'[k].id = stack[j].id,
         Timely(r, chiamate, now), Known(r, Len(spans) + 1, chiamate, stack', all),
         r.kind = "function" =>
           \A i \in 1 .. Len(spans) : spans[i].kind = "function" => spans[i].id # r.id
  PROVE  Table'
<1>0. Len(spans) \in Nat /\ dropped \in Nat /\ spans \in Seq(Records) /\ MaxSpans \in Nat
      /\ now \in Nat /\ chiamate \in Nat /\ now <= now /\ chiamate <= chiamate
  BY ConstantsAssumption DEF Typed
<1>1. ASSUME NEW i \in 1 .. Len(spans)
      PROVE  Timely(spans[i], chiamate, now) /\ Known(spans[i], i, chiamate, stack', all)
  <2>1. spans[i] \in Records
    BY <1>0
  <2>2. Timely(spans[i], chiamate, now) /\ Known(spans[i], i, chiamate, stack, all)
    BY DEF Table
  <2>3. QED
    BY <1>0, <2>1, <2>2, StillGood
<1>2. CASE ~ (Len(spans) < MaxSpans) /\ dropped' = dropped + 1 /\ UNCHANGED spans
  <2>1. Len(spans') <= MaxSpans /\ (dropped' > 0 => Len(spans') = MaxSpans)
    BY <1>0, <1>2 DEF Table
  <2>2. \A i, j \in 1 .. Len(spans') :
          spans'[i].kind = "function" /\ spans'[j].kind = "function" /\ spans'[i].id = spans'[j].id
            => i = j
    BY <1>2 DEF Table
  <2>3. QED
    BY <1>1, <1>2, <2>1, <2>2 DEF Table
<1>3. CASE Len(spans) < MaxSpans /\ UNCHANGED dropped /\ spans' = Append(spans, r)
  <2> DEFINE n == Len(spans) + 1
  <2>1. Len(spans') = n /\ spans'[n] = r /\ \A i \in 1 .. Len(spans) : spans'[i] = spans[i]
    BY <1>0, <1>3, Grows
  <2>2. Len(spans') <= MaxSpans /\ (dropped' > 0 => Len(spans') = MaxSpans)
    <3>1. n <= MaxSpans /\ ~ (dropped > 0)
      BY <1>0, <1>3 DEF Table
    <3>2. QED
      BY <1>3, <2>1, <3>1
  <2>3. \A k \in 1 .. n : k # n => k \in 1 .. Len(spans)
    BY <1>0
  <2>4. ASSUME NEW i \in 1 .. n
        PROVE  Timely(spans'[i], chiamate, now) /\ Known(spans'[i], i, chiamate, stack', all)
    BY <1>1, <2>1, <2>3
  <2>5. ASSUME NEW i \in 1 .. n, NEW j \in 1 .. n, spans'[i].kind = "function",
               spans'[j].kind = "function", spans'[i].id = spans'[j].id
        PROVE  i = j
    <3>1. CASE i = n \/ j = n
      BY <2>1, <2>3, <2>5, <3>1
    <3>2. CASE i # n /\ j # n
      <4>1. i \in 1 .. Len(spans) /\ j \in 1 .. Len(spans)
        BY <2>3, <3>2
      <4>2. QED
        BY <2>1, <2>5, <4>1 DEF Table
    <3>3. QED
      BY <3>1, <3>2
  <2> HIDE DEF n
  <2>6. QED
    BY <2>1, <2>2, <2>4, <2>5 DEF Table
<1>4. QED
  BY <1>2, <1>3, AddSpanTyped

(* No call is recorded twice, and no span is refused while there is room.  *)
LEMMA TableNext ==
  ASSUME Typed, Chain, Table, [Next]_vars
  PROVE  Table'
<1>0. /\ Typed' /\ Len(stack) \in Nat /\ now \in Nat /\ chiamate \in Nat /\ Len(spans) \in Nat
      /\ now <= now /\ chiamate <= chiamate /\ chiamate <= chiamate + 1 /\ all' = all
      /\ \A i \in 1 .. Len(stack) :
           stack[i] \in Frames /\ stack[i].start \in Nat /\ stack[i].chiamate_inizio \in Nat
  BY TypedNext, Elements, Kinds
<1>1. CASE Quiet
  BY <1>0, <1>1, TableKept DEF Quiet
<1>2. CASE Closes
  BY <1>0, <1>2, TableKept DEF Closes, Closing
<1>3. CASE Begins
  <2>1. ASSUME NEW k \in 1 .. Len(stack')
        PROVE  \/ \E j \in 1 .. Len(stack) : stack'[k].id = stack[j].id
               \/ stack'[k].id = <<"call", chiamate + 1>>
    <3>1. CASE stack' = stack
      BY <3>1
    <3>2. CASE stack' = Append(stack, NewFrame)
      <4>1. /\ Len(stack') = Len(stack) + 1 /\ stack'[Len(stack) + 1] = NewFrame
            /\ \A i \in 1 .. Len(stack) : stack'[i] = stack[i]
        BY <3>2, NewFrameTyped, Grows DEF Typed
      <4>2. NewFrame.id = <<"call", chiamate + 1>>
        BY DEF NewFrame
      <4>3. k = Len(stack) + 1 \/ k \in 1 .. Len(stack)
        BY <1>0, <4>1
      <4>4. QED
        BY <4>1, <4>2, <4>3
    <3>3. QED
      BY <1>3, <3>1, <3>2 DEF Begins
  <2>2. /\ spans' = spans /\ UNCHANGED dropped /\ now <= now' /\ chiamate <= chiamate'
    BY <1>0, <1>3 DEF Begins
  <2>3. QED
    BY <1>0, <2>1, <2>2, TableKept
<1>4. ASSUME NEW k \in 1 .. Len(stack), Ends(k)
      PROVE  Table'
  <2> DEFINE f == stack[k]
  <2>1. /\ UNCHANGED <<chiamate, now>> /\ Emit(f) /\ Len(stack') = k - 1 /\ f \in Frames
        /\ \A j \in 1 .. k - 1 : j \in 1 .. Len(stack) /\ j < k /\ stack'[j] = stack[j]
    BY <1>0, <1>4 DEF Ends
  <2>2. \A i \in 1 .. Len(stack') : \E j \in 1 .. Len(stack) : stack'[i].id = stack[j].id
    BY <2>1
  <2>3. CASE ~ Slow(now - f.start)
    <3>1. UNCHANGED spanVars
      BY <2>1, <2>3, EmitAdds
    <3>2. QED
      BY <1>0, <2>1, <2>2, <3>1, TableKept DEF spanVars
  <2>4. CASE Slow(now - f.start)
    <3> DEFINE r == Emitted(f)
    <3>1. r \in Records /\ AddSpan(r)
      BY <2>1, <2>4, EmitAdds
    <3>2. /\ r.id = f.id /\ r.parent = f.parent /\ r.kind = "function" /\ r.start = f.start
          /\ r.dur = now - f.start /\ ~ r.open
      BY DEF Emitted
    <3>3. /\ f.id = <<"call", f.chiamate_inizio>> /\ f.chiamate_inizio \in 1 .. chiamate
          /\ f.start <= now
      BY DEF Chain
    <3>4. Called(f.parent, chiamate)
      BY ParentCalled
    <3>5. f.start + (now - f.start) = now
      BY <1>0
    <3>6. all \/ now - f.start >= FunctionMs
      BY <2>4 DEF Slow
    <3>7. \A j \in 1 .. Len(stack') : stack'[j].id # f.id
      <4>1. ASSUME NEW j \in 1 .. k - 1
            PROVE  stack[j].id # f.id
        <5>1. stack[j].chiamate_inizio < f.chiamate_inizio
          BY <2>1 DEF Chain
        <5>2. stack[j].id = <<"call", stack[j].chiamate_inizio>>
          BY <2>1 DEF Chain
        <5>3. stack[j].chiamate_inizio # f.chiamate_inizio
          BY <1>0, <2>1, <5>1
        <5>4. QED
          BY <3>3, <5>2, <5>3
      <4>2. QED
        BY <2>1, <4>1
    <3>8. \A i \in 1 .. Len(spans) : spans[i].kind = "function" => spans[i].id # f.id
      BY DEF Table, Known, Over
    <3> HIDE DEF r, f
    <3>9. Timely(r, chiamate, now)
      BY <1>0, <3>2, <3>3, <3>4, <3>5 DEF Timely
    <3>10. Known(r, Len(spans) + 1, chiamate, stack', all)
      <4>1. Over(r, chiamate, stack', all)
        BY <3>2, <3>3, <3>6, <3>7 DEF Over
      <4>2. QED
        BY <3>2, <4>1 DEF Known
    <3>11. QED
      BY <1>0, <2>1, <2>2, <3>1, <3>2, <3>8, <3>9, <3>10, TableAdds
  <2>5. QED
    BY <2>3, <2>4
<1>5. CASE Opens
  <2>1. PICK kind \in {"hook", "api"} : OpenSpan(kind)
    BY <1>5 DEF Opens
  <2> DEFINE r == Opened(kind)
  <2>2. r \in Records /\ AddSpan(r)
    BY <2>1, OpenSpanAdds
  <2>3. /\ r.id = <<"open", Len(spans) + 1>> /\ r.parent = CurrentParent /\ r.kind # "function"
        /\ r.start = now /\ r.open
    BY DEF Opened
  <2> HIDE DEF r
  <2>4. Timely(r, chiamate, now)
    BY <1>0, <2>3, ParentCalled DEF Timely
  <2>5. Known(r, Len(spans) + 1, chiamate, stack', all)
    BY <2>3 DEF Known
  <2>6. QED
    BY <1>0, <1>5, <2>2, <2>3, <2>4, <2>5, TableAdds DEF Opens
<1>6. CASE Starts
  <2>1. Len(spans') = 0 /\ MaxSpans \in Nat
    BY <1>6, ConstantsAssumption DEF Starts
  <2>2. QED
    BY <1>6, <2>1 DEF Starts, Table
<1>7. QED
  BY <1>1, <1>2, <1>3, <1>4, <1>5, <1>6, Kinds

(* What is recorded under a frame started after it. *)
LEMMA UnderNext ==
  ASSUME Typed, Chain, Table, Under, [Next]_vars
  PROVE  Under'
<1>0. /\ Len(stack) \in Nat /\ now \in Nat /\ chiamate \in Nat /\ Len(spans) \in Nat
      /\ spans \in Seq(Records)
      /\ \A i \in 1 .. Len(stack) : stack[i] \in Frames /\ stack[i].start \in Nat
      /\ \A i \in 1 .. Len(spans) : spans[i] \in Records /\ spans[i].start \in Nat
  BY Elements DEF Typed
<1>1. CASE Quiet
  BY <1>1 DEF Quiet, Under
<1>2. CASE Closes
  <2>1. \A i \in 1 .. Len(spans) :
          spans'[i].parent = spans[i].parent /\ spans'[i].start = spans[i].start
    BY <1>2, ClosingKeeps DEF Closes
  <2>2. QED
    BY <1>2, <2>1 DEF Closes, Closing, Under
<1>3. CASE Begins
  <2>1. UNCHANGED <<spans, now>>
    BY <1>3 DEF Begins
  <2>2. CASE stack' = stack
    BY <2>1, <2>2 DEF Under
  <2>3. CASE stack' = Append(stack, NewFrame)
    <3>1. /\ Len(stack') = Len(stack) + 1 /\ stack'[Len(stack) + 1] = NewFrame
          /\ \A i \in 1 .. Len(stack) : stack'[i] = stack[i]
      BY <2>3, NewFrameTyped, Grows DEF Typed
    <3>2. NewFrame.id = <<"call", chiamate + 1>>
      BY DEF NewFrame
    <3>3. ASSUME NEW i \in 1 .. Len(spans)
          PROVE  spans[i].parent # NewFrame.id
      <4>1. Called(spans[i].parent, chiamate)
        BY DEF Table, Timely
      <4>2. \A k \in 1 .. chiamate : k # chiamate + 1
        BY <1>0
      <4>3. QED
        BY <3>2, <4>1, <4>2 DEF Called, Root
    <3>4. \A j \in 1 .. Len(stack') : j = Len(stack) + 1 \/ j \in 1 .. Len(stack)
      BY <1>0, <3>1
    <3>5. QED
      BY <2>1, <3>1, <3>3, <3>4 DEF Under
  <2>4. QED
    BY <1>3, <2>2, <2>3 DEF Begins
<1>4. ASSUME NEW k \in 1 .. Len(stack), Ends(k)
      PROVE  Under'
  <2> DEFINE f == stack[k]
             r == Emitted(f)
  <2>1. /\ Emit(f) /\ Len(stack') = k - 1 /\ f \in Frames
        /\ \A j \in 1 .. k - 1 : j \in 1 .. Len(stack) /\ j < k /\ stack'[j] = stack[j]
    BY <1>0, <1>4 DEF Ends
  <2>2. \A j \in 1 .. k - 1 : stack[j].start <= f.start
    BY <2>1 DEF Chain
  <2>3. r.parent = f.parent /\ r.start = f.start
    BY DEF Emitted
  <2>4. CASE UNCHANGED spans
    BY <2>1, <2>4 DEF Under
  <2>5. CASE spans' = Append(spans, r) /\ r \in Records
    <3> HIDE DEF r, f
    <3>1. /\ Len(spans') = Len(spans) + 1 /\ spans'[Len(spans) + 1] = r
          /\ \A i \in 1 .. Len(spans) : spans'[i] = spans[i]
      BY <1>0, <2>5, Grows
    <3>2. \A i \in 1 .. Len(spans') : i = Len(spans) + 1 \/ i \in 1 .. Len(spans)
      BY <1>0, <3>1
    <3>3. QED
      BY <2>1, <2>2, <2>3, <3>1, <3>2 DEF Under
  <2>6. QED
    BY <2>1, <2>4, <2>5, EmitAdds, AddSpanTyped DEF spanVars
<1>5. CASE Opens
  <2>1. PICK kind \in {"hook", "api"} : OpenSpan(kind)
    BY <1>5 DEF Opens
  <2> DEFINE r == Opened(kind)
  <2>2. r \in Records /\ AddSpan(r) /\ r.start = now
    BY <2>1, OpenSpanAdds DEF Opened
  <2> HIDE DEF r
  <2>3. UNCHANGED stack /\ \A j \in 1 .. Len(stack) : stack[j].start <= now
    BY <1>5 DEF Opens, Chain
  <2>4. CASE UNCHANGED spans
    BY <2>3, <2>4 DEF Under
  <2>5. CASE spans' = Append(spans, r)
    <3>1. /\ Len(spans') = Len(spans) + 1 /\ spans'[Len(spans) + 1] = r
          /\ \A i \in 1 .. Len(spans) : spans'[i] = spans[i]
      BY <1>0, <2>2, <2>5, Grows
    <3>2. \A i \in 1 .. Len(spans') : i = Len(spans) + 1 \/ i \in 1 .. Len(spans)
      BY <1>0, <3>1
    <3>3. QED
      BY <2>2, <2>3, <3>1, <3>2 DEF Under
  <2>6. QED
    BY <2>2, <2>4, <2>5, AddSpanTyped
<1>6. CASE Starts
  <2>1. Len(spans') = 0
    BY <1>6 DEF Starts
  <2>2. QED
    BY <2>1 DEF Under
<1>7. QED
  BY <1>1, <1>2, <1>3, <1>4, <1>5, <1>6, Kinds

(* Between two requests no code of the script runs. *)
LEMMA RestingNext ==
  ASSUME Typed, Resting, [Next]_vars
  PROVE  Resting'
BY DEF Resting, Next, vars, phpVars, modeVars, Call, Return, EnterHook, LeaveHook, StartSpan,
       EndSpan, Tick, Switch, Bailout, AbandonHook, Unwound, RequestStart, RequestShutdown,
       PostDeactivate

(* RSHUTDOWN leaves no span open, and nothing opens one after it. *)
LEMMA AllClosedNext ==
  ASSUME Typed, AllClosed, [Next]_vars
  PROVE  AllClosed'
<1>1. CASE RequestShutdown
  <2>1. Len(spans') = Len(spans) /\ \A k \in 1 .. Len(spans) : ~ spans'[k].open
    BY <1>1, CloseOpenCloses DEF RequestShutdown, Closing
  <2>2. QED
    BY <2>1 DEF AllClosed
<1>2. CASE phase' # "measured"
  BY <1>2 DEF AllClosed
<1>3. CASE UNCHANGED <<phase, spans>>
  BY <1>3 DEF AllClosed
<1>4. QED
  BY <1>1, <1>2, <1>3
     DEF Next, vars, spanVars, Call, Return, EnterHook, LeaveHook, StartSpan, EndSpan, Tick,
         Switch, Bailout, AbandonHook, Unwound, RequestStart, PostDeactivate

Base == Typed /\ Resting /\ Chain /\ Table /\ AllClosed /\ Under

(* A worker starts with an empty stack and an empty table. *)
LEMMA BaseInit == Init => Base
<1> SUFFICES ASSUME Init
             PROVE  Base
  OBVIOUS
<1>1. Len(stack) = 0 /\ Len(spans) = 0 /\ dropped = 0 /\ phase = "idle"
      /\ \A c \in Contexts : php[c] = <<>>
  BY DEF Init
<1>2. MaxSpans \in Nat
  BY ConstantsAssumption
<1>3. QED
  BY <1>1, <1>2, TypedInit DEF Base, Resting, Chain, Table, AllClosed, Under

(* Every step keeps them in order. *)
LEMMA BaseNext == Base /\ [Next]_vars => Base'
BY TypedNext, RestingNext, ChainNext, TableNext, AllClosedNext, UnderNext DEF Base

(* The observer and the table are in order in every reachable state. *)
LEMMA BaseAlways == Spec => []Base
<1>1. Init => Base
  BY BaseInit
<1>2. Base /\ [Next]_vars => Base'
  BY BaseNext
<1>3. QED
  BY <1>1, <1>2, PTL DEF Spec

(* What post_deactivate sends has no open span, spans are refused by       *)
(* orma_spans_room only when the table is full, and no two spans have the  *)
(* same identifier: orma_observer_end emits a call once, even when fibers  *)
(* leave on its stack frames whose address a later call takes again.       *)
THEOREM DeliveredInOrder == Spec => []Delivered
<1>1. Base => Delivered
  <2> SUFFICES ASSUME Base
               PROVE  Delivered
    OBVIOUS
  <2>1. DOMAIN spans = 1 .. Len(spans)
    BY Elements DEF Base
  <2>2. phase = "measured" => \A s \in ToSet(spans) : ~ s.open
    BY <2>1 DEF Base, AllClosed, ToSet
  <2>3. dropped > 0 => Len(spans) = MaxSpans
    BY DEF Base, Table
  <2>4. ASSUME NEW i \in DOMAIN spans, NEW j \in DOMAIN spans, spans[i].id = spans[j].id
        PROVE  i = j
    <3>1. /\ Known(spans[i], i, chiamate, stack, all) /\ Known(spans[j], j, chiamate, stack, all)
      BY <2>1 DEF Base, Table
    <3>2. CASE spans[i].kind = "function" /\ spans[j].kind = "function"
      BY <2>1, <2>4, <3>2 DEF Base, Table
    <3>3. CASE spans[i].kind # "function" /\ spans[j].kind # "function"
      BY <2>4, <3>1, <3>3 DEF Known
    <3>4. CASE (spans[i].kind = "function") # (spans[j].kind = "function")
      <4>1. \A k, n : <<"call", k>> # <<"open", n>>
        OBVIOUS
      <4>2. QED
        BY <2>4, <3>1, <3>4, <4>1 DEF Known, Over
    <3>5. QED
      BY <3>2, <3>3, <3>4
  <2>5. QED
    BY <2>2, <2>3, <2>4 DEF Delivered
<1>2. QED
  BY <1>1, BaseAlways, PTL

(* A closed span is final until the next request: orma_span_close answers  *)
(* only the first time, and orma_spans_close_open touches the open ones.   *)
THEOREM ClosedSpansAreFinal == Spec => ClosedIsFinal
<1>1. Typed /\ [Next]_vars
        => [phase # "idle" =>
              \A i \in DOMAIN spans : ~ spans[i].open => i \in DOMAIN spans' /\ spans'[i] = spans[i]]_vars
  <2> SUFFICES ASSUME Typed, [Next]_vars, phase # "idle",
                      NEW i \in DOMAIN spans, ~ spans[i].open
               PROVE  i \in DOMAIN spans' /\ spans'[i] = spans[i]
    OBVIOUS
  <2>1. /\ Len(spans) \in Nat /\ DOMAIN spans = 1 .. Len(spans) /\ spans \in Seq(Records)
        /\ \A k \in 1 .. Len(stack) : stack[k] \in Frames
    BY Elements DEF Typed
  <2>2. CASE UNCHANGED spans
    BY <2>2
  <2>3. ASSUME NEW r \in Records, AddSpan(r)
        PROVE  i \in DOMAIN spans' /\ spans'[i] = spans[i]
    <3>1. CASE spans' = Append(spans, r)
      <4>1. Append(spans, r) \in Seq(Records) /\ Append(spans, r)[i] = spans[i]
            /\ Len(Append(spans, r)) = Len(spans) + 1
        BY <2>1, Grows
      <4>2. DOMAIN Append(spans, r) = 1 .. Len(spans) + 1
        BY <4>1
      <4>3. i \in 1 .. Len(spans) + 1
        BY <2>1
      <4>4. QED
        BY <3>1, <4>1, <4>2, <4>3
    <3>2. QED
      BY <2>3, <3>1, AddSpanTyped
  <2>4. CASE Closes
    <3>1. spans' \in Seq(Records) /\ Len(spans') = Len(spans) /\ spans'[i] = spans[i]
      BY <2>1, <2>4 DEF Closes, Closing
    <3>2. QED
      BY <2>1, <3>1
  <2>5. CASE Opens
    BY <2>3, <2>5, OpenSpanAdds DEF Opens
  <2>6. ASSUME NEW k \in 1 .. Len(stack), Ends(k)
        PROVE  i \in DOMAIN spans' /\ spans'[i] = spans[i]
    BY <2>1, <2>2, <2>3, <2>6, EmitAdds DEF Ends, spanVars
  <2>7. QED
    BY <2>2, <2>4, <2>5, <2>6, Kinds DEF Quiet, Begins, Starts
<1>2. QED
  BY <1>1, BaseAlways, PTL DEF Spec, Base, ClosedIsFinal
-----------------------------------------------------------------------------
(* The user functions of a stack. *)

(* They are finitely many. *)
LEMMA UserFinite ==
  ASSUME NEW s \in Seq(Entries)
  PROVE  /\ DOMAIN s = 1 .. Len(s) /\ Len(s) \in Nat
         /\ UserIn(s) \subseteq 1 .. Len(s)
         /\ IsFiniteSet(UserIn(s)) /\ Cardinality(UserIn(s)) \in Nat
<1>1. DOMAIN s = 1 .. Len(s) /\ Len(s) \in Nat
  OBVIOUS
<1>2. UserIn(s) \subseteq 1 .. Len(s)
  BY <1>1 DEF UserIn
<1>3. IsFiniteSet(1 .. Len(s))
  BY <1>1, FS_Interval
<1>4. QED
  BY <1>1, <1>2, <1>3, FS_Subset, FS_CardinalityType

(* One more call. *)
LEMMA PushedUsers ==
  ASSUME NEW s \in Seq(Entries), NEW e \in Entries, NEW t, t = Append(s, e)
  PROVE  /\ t \in Seq(Entries) /\ Len(t) = Len(s) + 1
         /\ e.kind = "hook" => UserIn(t) = UserIn(s)
         /\ e.kind = "user" =>
              /\ Cardinality(UserIn(t)) = Cardinality(UserIn(s)) + 1
              /\ Len(t) \in UserIn(t) /\ t[Len(t)] = e /\ UpTo(t, Len(t)) = UserIn(t)
         /\ \A f, i : FrameOf(f, i, s) => FrameOf(f, i, t)
<1> DEFINE n == Len(s) + 1
<1>1. /\ t \in Seq(Entries) /\ Len(t) = n /\ t[n] = e /\ Len(s) \in Nat
      /\ \A i \in 1 .. Len(s) : t[i] = s[i]
  BY Grows
<1>2. DOMAIN t = 1 .. n /\ DOMAIN s = 1 .. Len(s) /\ UserIn(s) \subseteq 1 .. Len(s)
  BY <1>1, UserFinite
<1>3. \A p \in 1 .. n : p = n \/ p \in 1 .. Len(s)
  BY <1>1
<1>4. \A p \in 1 .. Len(s) : p \in UserIn(t) <=> p \in UserIn(s)
  BY <1>1, <1>2 DEF UserIn
<1>5. n \in UserIn(t) <=> e.kind = "user"
  BY <1>1, <1>2 DEF UserIn
<1>6. UserIn(t) \subseteq 1 .. n /\ n \notin 1 .. Len(s)
  BY <1>1, <1>2 DEF UserIn
<1>7. e.kind = "hook" => UserIn(t) = UserIn(s)
  BY <1>2, <1>3, <1>4, <1>5, <1>6
<1>8. ASSUME e.kind = "user"
      PROVE  /\ Cardinality(UserIn(t)) = Cardinality(UserIn(s)) + 1
             /\ n \in UserIn(t) /\ UpTo(t, n) = UserIn(t)
  <2>1. UserIn(t) = UserIn(s) \cup {n}
    BY <1>2, <1>3, <1>4, <1>5, <1>6, <1>8
  <2>2. n \notin UserIn(s)
    BY <1>2, <1>6
  <2>3. Cardinality(UserIn(t)) = Cardinality(UserIn(s)) + 1
    BY <2>1, <2>2, UserFinite, FS_AddElement
  <2>4. \A p \in UserIn(t) : p <= n
    BY <1>1, <1>6
  <2>5. QED
    BY <1>5, <1>8, <2>3, <2>4 DEF UpTo
<1>9. ASSUME NEW f, NEW i, FrameOf(f, i, s)
      PROVE  FrameOf(f, i, t)
  <2>1. PICK p \in UserIn(s) :
          f.frame = <<Main, p>> /\ Cardinality(UpTo(s, p)) = i /\ f.id = <<"call", s[p].n>>
    BY <1>9 DEF FrameOf
  <2>2. p \in UserIn(t) /\ t[p] = s[p] /\ p \in 1 .. Len(s)
    BY <1>1, <1>2, <1>4
  <2>3. \A q \in 1 .. n : q <= p => q \in 1 .. Len(s)
    BY <1>1, <2>2
  <2>4. UpTo(t, p) = UpTo(s, p)
    BY <1>2, <1>4, <1>6, <2>3 DEF UpTo
  <2>5. QED
    BY <2>1, <2>2, <2>4 DEF FrameOf
<1>10. QED
  BY <1>1, <1>7, <1>8, <1>9

(* One less. *)
LEMMA PoppedUsers ==
  ASSUME NEW s \in Seq(Entries), s # <<>>, NEW t, t = Front(s)
  PROVE  /\ t \in Seq(Entries) /\ Len(t) = Len(s) - 1 /\ Len(s) \in Nat \ {0}
         /\ Top(s).kind = "hook" => UserIn(t) = UserIn(s)
         /\ Top(s).kind = "user" =>
              /\ Len(s) \in UserIn(s) /\ UpTo(s, Len(s)) = UserIn(s)
              /\ Cardinality(UserIn(s)) = Cardinality(UserIn(t)) + 1
         /\ \A f, i : FrameOf(f, i, s) /\ f.frame # <<Main, Len(s)>> => FrameOf(f, i, t)
<1> DEFINE n == Len(s)
<1>1. n \in Nat \ {0} /\ n - 1 \in 0 .. n
  OBVIOUS
<1>2. t = SubSeq(s, 1, n - 1)
  BY DEF Front
<1>3. t \in Seq(Entries) /\ Len(t) = n - 1 /\ \A i \in 1 .. n - 1 : t[i] = s[i]
  <2>1. \A k \in 0 .. n :
          /\ SubSeq(s, 1, k) \in Seq(Entries) /\ Len(SubSeq(s, 1, k)) = k
          /\ \A i \in 1 .. k : SubSeq(s, 1, k)[i] = s[i]
    BY Cut
  <2> HIDE DEF n
  <2>2. QED
    BY <1>1, <1>2, <2>1
<1>4. /\ DOMAIN t = 1 .. n - 1 /\ DOMAIN s = 1 .. n
      /\ UserIn(t) \subseteq 1 .. n - 1 /\ UserIn(s) \subseteq 1 .. n
  BY <1>3, UserFinite
<1>5. \A p \in 1 .. n : p = n \/ p \in 1 .. n - 1
  BY <1>1
<1>6. n \notin 1 .. n - 1 /\ n \in 1 .. n /\ 1 .. n - 1 \subseteq 1 .. n
  BY <1>1
<1>7. \A p \in 1 .. n - 1 : p \in UserIn(t) <=> p \in UserIn(s)
  BY <1>3, <1>4, <1>6 DEF UserIn
<1>8. n \in UserIn(s) <=> Top(s).kind = "user"
  BY <1>4, <1>6 DEF UserIn, Top
<1>9. Top(s).kind = "hook" => UserIn(t) = UserIn(s)
  BY <1>4, <1>5, <1>7, <1>8
<1>10. ASSUME Top(s).kind = "user"
       PROVE  /\ n \in UserIn(s) /\ UpTo(s, n) = UserIn(s)
              /\ Cardinality(UserIn(s)) = Cardinality(UserIn(t)) + 1
  <2>1. UserIn(s) = UserIn(t) \cup {n}
    BY <1>4, <1>5, <1>6, <1>7, <1>8, <1>10
  <2>2. n \notin UserIn(t)
    BY <1>4, <1>6
  <2>3. Cardinality(UserIn(s)) = Cardinality(UserIn(t)) + 1
    <3>1. IsFiniteSet(UserIn(t))
      BY <1>3, UserFinite
    <3>2. QED
      BY <2>1, <2>2, <3>1, FS_AddElement
  <2>4. \A p \in UserIn(s) : p <= n
    BY <1>1, <1>4
  <2>5. QED
    BY <1>8, <1>10, <2>3, <2>4 DEF UpTo
<1>11. ASSUME NEW f, NEW i, FrameOf(f, i, s), f.frame # <<Main, n>>
       PROVE  FrameOf(f, i, t)
  <2>1. PICK p \in UserIn(s) :
          f.frame = <<Main, p>> /\ Cardinality(UpTo(s, p)) = i /\ f.id = <<"call", s[p].n>>
    BY <1>11 DEF FrameOf
  <2>2. p \in 1 .. n - 1
    BY <1>4, <1>5, <1>11, <2>1
  <2>3. p \in UserIn(t) /\ t[p] = s[p]
    BY <1>3, <1>7, <2>2
  <2>4. \A q \in 1 .. n : q <= p => q \in 1 .. n - 1
    BY <1>1, <2>2
  <2>5. UpTo(t, p) = UpTo(s, p)
    BY <1>4, <1>6, <1>7, <2>4 DEF UpTo
  <2>6. QED
    BY <2>1, <2>3, <2>5 DEF FrameOf
<1>12. QED
  BY <1>1, <1>3, <1>9, <1>10, <1>11

(* The frame of the last user function is that of all of them. *)
LEMMA LastFrame ==
  ASSUME NEW s \in Seq(Entries), s # <<>>, Top(s).kind = "user", NEW f, NEW i,
         FrameOf(f, i, s)
  PROVE  /\ f.frame = <<Main, Len(s)>> <=> i = Cardinality(UserIn(s))
         /\ i \in Nat
<1>1. /\ UserIn(s) \subseteq 1 .. Len(s) /\ IsFiniteSet(UserIn(s)) /\ Len(s) \in Nat
      /\ Len(s) \in UserIn(s) /\ UpTo(s, Len(s)) = UserIn(s)
  BY UserFinite, PoppedUsers
<1>2. PICK p \in UserIn(s) : f.frame = <<Main, p>> /\ Cardinality(UpTo(s, p)) = i
  BY DEF FrameOf
<1>3. UpTo(s, p) \subseteq UserIn(s)
  BY DEF UpTo
<1>4. IsFiniteSet(UpTo(s, p)) /\ i \in Nat
  BY <1>1, <1>2, <1>3, FS_Subset, FS_CardinalityType
<1>5. CASE p = Len(s)
  BY <1>1, <1>2, <1>4, <1>5
<1>6. CASE p # Len(s)
  <2>1. ~ (Len(s) <= p)
    BY <1>1, <1>6
  <2>2. UpTo(s, p) # UserIn(s)
    BY <1>1, <2>1 DEF UpTo
  <2>3. Cardinality(UpTo(s, p)) # Cardinality(UserIn(s))
    BY <1>1, <1>3, <2>2, FS_Subset
  <2>4. QED
    BY <1>2, <1>4, <1>6, <2>3
<1>7. QED
  BY <1>5, <1>6
-----------------------------------------------------------------------------
(* Without fibers, begin and end stay in step. *)

(* The stack of the script, after a call and after a return. *)
LEMMA MainStack ==
  ASSUME Typed, running = Main
  PROVE  /\ php[Main] \in Seq(Entries)
         /\ \A e \in Entries : Push(e) => php'[Main] = Append(php[Main], e)
         /\ Pop => php'[Main] = Front(php[Main])
<1>1. php \in [Contexts -> Seq(Entries)] /\ Main \in Contexts
  BY ConstantsAssumption DEF Typed
<1> DEFINE s == php[Main]
<1>2. ASSUME NEW e \in Entries, Push(e)
      PROVE  php'[Main] = Append(s, e)
  <2> DEFINE q == Append(s, e)
  <2>1. php' = [php EXCEPT ![Main] = q]
    BY <1>2 DEF Push
  <2> HIDE DEF q
  <2>2. php'[Main] = q
    BY <1>1, <2>1
  <2>3. QED
    BY <2>2 DEF q
<1>3. ASSUME Pop
      PROVE  php'[Main] = Front(s)
  <2> DEFINE q == Front(s)
  <2>1. php' = [php EXCEPT ![Main] = q]
    BY <1>3 DEF Pop
  <2> HIDE DEF q
  <2>2. php'[Main] = q
    BY <1>1, <2>1
  <2>3. QED
    BY <2>2 DEF q
<1>4. QED
  BY <1>1, <1>2, <1>3

(* When nothing is skipped, what ends is the last frame. *)
LEMMA LastEnds ==
  ASSUME Typed, Matched, ~ fibers, phase # "idle", TopIs("user"), ~ EndSkips
  PROVE  LET place == Place(<<running, Len(php[running])>>)
         IN  place # {} /\ Max(place) = Len(stack) /\ Len(stack) \in Nat \ {0}
<1> DEFINE s == php[Main]
           m == Len(stack)
           place == Place(<<Main, Len(s)>>)
<1>1. /\ running = Main /\ m + skipped = Cardinality(UserIn(s))
      /\ \A i \in 1 .. m : FrameOf(stack[i], i, s)
  BY DEF Matched
<1>2. m \in Nat /\ DOMAIN stack = 1 .. m /\ s \in Seq(Entries) /\ skipped \in Nat
  BY <1>1, Elements, MainStack DEF Typed
<1>3. s # <<>> /\ Top(s).kind = "user"
  BY <1>1 DEF TopIs
<1>4. skipped = 0
  BY <1>2 DEF EndSkips
<1>5. m = Cardinality(UserIn(s)) /\ m # 0
  <2>1. /\ IsFiniteSet(UserIn(Front(s))) /\ Cardinality(UserIn(Front(s))) \in Nat
        /\ Cardinality(UserIn(s)) = Cardinality(UserIn(Front(s))) + 1
    BY <1>2, <1>3, PoppedUsers, UserFinite
  <2>2. QED
    BY <1>1, <1>2, <1>4, <2>1
<1>6. m \in 1 .. m
  BY <1>2, <1>5
<1>7. stack[m].frame = <<Main, Len(s)>>
  BY <1>1, <1>2, <1>3, <1>5, <1>6, LastFrame
<1>8. m \in place /\ place \subseteq 1 .. m
  BY <1>2, <1>6, <1>7 DEF Place
<1> HIDE DEF place, m
<1>9. Max(place) \in 1 .. m /\ m <= Max(place)
  BY <1>2, <1>8, LastPlace
<1>10. Max(place) = m
  BY <1>2, <1>9
<1>11. QED
  BY <1>1, <1>2, <1>5, <1>8, <1>10 DEF place, m

(* The calls of the script match the frames and the skipped calls. *)
LEMMA MatchedNext ==
  ASSUME Typed, Resting, Matched, [Next]_vars
  PROVE  Matched'
<1> USE DEF modeVars, phpVars, observerVars, spanVars
<1> DEFINE s == php[Main]
           m == Len(stack)
<1>0. m \in Nat /\ skipped \in Nat /\ chiamate \in Nat /\ Main \in Contexts
  BY Elements, ConstantsAssumption DEF Typed
<1>1. CASE RequestStart
  <2>1. php'[Main] = <<>> /\ Len(stack') = 0 /\ skipped' = 0 /\ running' = Main
    BY <1>0, <1>1 DEF RequestStart, Resting
  <2>2. UserIn(php'[Main]) = {}
    BY <2>1 DEF UserIn
  <2>3. Len(stack') + skipped' = Cardinality(UserIn(php'[Main]))
    BY <2>1, <2>2, FS_EmptySet
  <2>4. 1 .. Len(stack') = {} /\ ~ (skipped' > 0)
    BY <2>1
  <2>5. QED
    BY <2>1, <2>3, <2>4 DEF Matched
<1>2. CASE \/ StartSpan \/ (\E i \in 1 .. MaxSpans : EndSpan(i)) \/ Tick \/ Bailout \/ Unwound
           \/ RequestShutdown \/ PostDeactivate \/ UNCHANGED vars
  <2>1. /\ UNCHANGED <<all, fibers, php, running, stack, skipped>>
        /\ phase' # "idle" => phase # "idle"
    BY <1>2
       DEF vars, StartSpan, EndSpan, Tick, Bailout, Unwound, RequestShutdown, PostDeactivate
  <2>2. QED
    BY <2>1 DEF Matched, BeginSkips
<1>3. CASE \E c \in Contexts : Switch(c)
  BY <1>3 DEF Switch, Matched
<1>4. CASE Call /\ ~ fibers
  <2> DEFINE e == [kind |-> "user", n |-> chiamate + 1]
  <2>1. /\ running = Main /\ m + skipped = Cardinality(UserIn(s))
        /\ skipped > 0 => BeginSkips
        /\ \A i \in 1 .. m : FrameOf(stack[i], i, s)
    BY <1>4 DEF Matched, Call
  <2>2. e \in Entries /\ e.kind = "user"
    BY <1>0 DEF Entries
  <2>3. s \in Seq(Entries) /\ php'[Main] = Append(s, e) /\ Cardinality(UserIn(s)) \in Nat
    BY <1>4, <2>1, <2>2, MainStack, UserFinite DEF Call
  <2> DEFINE t == php'[Main]
  <2> HIDE DEF s, t, e
  <2>4. /\ Len(t) = Len(s) + 1 /\ t[Len(t)] = e
        /\ Cardinality(UserIn(t)) = Cardinality(UserIn(s)) + 1
        /\ Len(t) \in UserIn(t) /\ UpTo(t, Len(t)) = UserIn(t)
        /\ \A f, i : FrameOf(f, i, s) => FrameOf(f, i, t)
    <3>1. s \in Seq(Entries) /\ t = Append(s, e)
      BY <2>3 DEF t
    <3>2. e \in Entries /\ e.kind = "user"
      BY <2>2
    <3>3. Len(t) = Len(s) + 1
      BY <3>1, <3>2, PushedUsers
    <3>4. Cardinality(UserIn(t)) = Cardinality(UserIn(s)) + 1
      BY <3>1, <3>2, PushedUsers
    <3>5. Len(t) \in UserIn(t) /\ t[Len(t)] = e /\ UpTo(t, Len(t)) = UserIn(t)
      <4>1. Len(t) \in UserIn(t)
        BY <3>1, <3>2, PushedUsers
      <4>2. t[Len(t)] = e
        BY <3>1, <3>2, PushedUsers
      <4>3. UpTo(t, Len(t)) = UserIn(t)
        BY <3>1, <3>2, PushedUsers
      <4>4. QED
        BY <4>1, <4>2, <4>3
    <3>6. \A f, i : FrameOf(f, i, s) => FrameOf(f, i, t)
      BY <3>1, <3>2, PushedUsers
    <3>7. QED
      BY <3>3, <3>4, <3>5, <3>6
  <2>5. CASE BeginSkips
    <3>1. UNCHANGED <<all, stack>> /\ skipped' = skipped + 1
      BY <1>4, <2>5 DEF Call
    <3>2. BeginSkips' /\ m + skipped' = Cardinality(UserIn(t))
      BY <1>0, <2>1, <2>3, <2>4, <2>5, <3>1 DEF BeginSkips
    <3>3. running' = Main
      BY <1>4, <2>1 DEF Call
    <3>4. QED
      BY <2>1, <2>4, <3>1, <3>2, <3>3 DEF Matched, t
  <2>6. CASE ~ BeginSkips
    <3>1. stack' = Append(stack, NewFrame) /\ UNCHANGED skipped
      BY <1>4, <2>6 DEF Call, NewFrame
    <3>2. /\ Len(stack') = m + 1 /\ stack'[m + 1] = NewFrame
          /\ \A i \in 1 .. m : stack'[i] = stack[i]
      BY <3>1, NewFrameTyped, Grows DEF Typed
    <3>3. skipped = 0
      BY <1>0, <2>1, <2>6
    <3>4. m + 1 = Cardinality(UserIn(t)) /\ skipped' = 0
      BY <1>0, <2>1, <2>3, <2>4, <3>1, <3>3
    <3>5. NewFrame.frame = <<Main, Len(t)>> /\ NewFrame.id = <<"call", t[Len(t)].n>>
      BY <2>1, <2>4 DEF NewFrame, e, s
    <3>6. FrameOf(NewFrame, m + 1, t)
      BY <2>4, <3>4, <3>5 DEF FrameOf
    <3>7. \A i \in 1 .. m + 1 : i = m + 1 \/ i \in 1 .. m
      BY <1>0
    <3>8. \A i \in 1 .. m + 1 : FrameOf(stack'[i], i, t)
      BY <2>1, <2>4, <3>2, <3>6, <3>7
    <3>9. running' = Main /\ Len(stack') + skipped' = Cardinality(UserIn(t)) /\ ~ (skipped' > 0)
      BY <1>0, <1>4, <2>1, <3>2, <3>4 DEF Call
    <3>10. QED
      BY <3>2, <3>8, <3>9 DEF Matched, t
  <2>7. QED
    BY <2>5, <2>6
<1>5. CASE Return /\ ~ fibers
  <2>1. /\ running = Main /\ m + skipped = Cardinality(UserIn(s))
        /\ skipped > 0 => BeginSkips
        /\ \A i \in 1 .. m : FrameOf(stack[i], i, s)
    BY <1>5 DEF Matched, Return
  <2>2. s # <<>> /\ Top(s).kind = "user" /\ Pop /\ phase # "idle" /\ UNCHANGED <<all, running>>
    BY <1>5, <2>1 DEF Return, TopIs
  <2>3. s \in Seq(Entries) /\ php'[Main] = Front(s)
    BY <2>1, <2>2, MainStack
  <2> DEFINE t == php'[Main]
  <2>4. /\ t \in Seq(Entries) /\ Cardinality(UserIn(t)) \in Nat
        /\ Cardinality(UserIn(s)) = Cardinality(UserIn(t)) + 1
        /\ \A f, i : FrameOf(f, i, s) /\ f.frame # <<Main, Len(s)>> => FrameOf(f, i, t)
    BY <2>2, <2>3, PoppedUsers, UserFinite
  <2>5. ASSUME NEW i \in 1 .. m, i # Cardinality(UserIn(s))
        PROVE  FrameOf(stack[i], i, t)
    <3> HIDE DEF t
    <3>1. FrameOf(stack[i], i, s)
      BY <2>1
    <3>2. stack[i].frame # <<Main, Len(s)>>
      BY <2>2, <2>3, <2>5, <3>1, LastFrame
    <3>3. QED
      BY <2>4, <3>1, <3>2
  <2> HIDE DEF t
  <2>6. CASE EndSkips
    <3>1. UNCHANGED stack /\ skipped' = skipped - 1 /\ skipped > 0
      BY <1>5, <2>6 DEF Return, EndSkips
    <3>2. BeginSkips' /\ m + skipped' = Cardinality(UserIn(t))
      BY <1>0, <2>1, <2>2, <2>4, <3>1 DEF BeginSkips
    <3>3. \A i \in 1 .. m : FrameOf(stack'[i], i, t)
      BY <1>0, <2>1, <2>5, <3>1
    <3>4. QED
      BY <2>1, <2>2, <3>1, <3>2, <3>3 DEF Matched, t
  <2>7. CASE ~ EndSkips
    <3> DEFINE frame == <<running, Len(php[running])>>
    <3>1. Place(frame) # {} /\ Max(Place(frame)) = m /\ m # 0
      BY <1>5, <2>2, <2>7, LastEnds DEF Return
    <3>2. stack' = Unrolled(m) /\ UNCHANGED skipped
      BY <1>5, <2>7, <3>1 DEF Return
    <3>3. Len(stack') = m - 1 /\ \A j \in 1 .. m - 1 : stack'[j] = stack[j]
      <4> DEFINE i == Max(Place(frame))
      <4>1. Len(Unrolled(i)) = i - 1 /\ \A j \in 1 .. i - 1 : Unrolled(i)[j] = stack[j]
        BY <3>1, Unrolls
      <4> HIDE DEF i
      <4>2. i = m
        BY <3>1 DEF i
      <4>3. QED
        BY <3>2, <4>1, <4>2
    <3>4. skipped' = 0 /\ skipped = 0
      BY <1>0, <2>7, <3>2 DEF EndSkips
    <3>5. m = Cardinality(UserIn(s)) /\ m - 1 = Cardinality(UserIn(t))
      BY <1>0, <2>1, <2>4, <3>4
    <3>6. \A i \in 1 .. m - 1 : i \in 1 .. m /\ i # m
      BY <1>0
    <3>7. \A i \in 1 .. m - 1 : FrameOf(stack'[i], i, t)
      BY <2>5, <3>3, <3>5, <3>6
    <3>8. Len(stack') + skipped' = Cardinality(UserIn(t)) /\ ~ (skipped' > 0)
      BY <1>0, <3>3, <3>4, <3>5
    <3>9. QED
      BY <2>1, <2>2, <3>3, <3>7, <3>8 DEF Matched, t
  <2>8. QED
    BY <2>6, <2>7
<1>6. CASE EnterHook /\ ~ fibers
  <2> DEFINE e == [kind |-> "hook", n |-> IF Len(spans) < MaxSpans THEN Len(spans) + 1 ELSE 0]
  <2>1. running = Main /\ UNCHANGED <<all, running, stack, skipped>> /\ Push(e) /\ phase # "idle"
    BY <1>6 DEF EnterHook, Matched
  <2>2. e \in Entries /\ e.kind = "hook"
    <3>1. Len(spans) \in Nat
      BY Elements
    <3>2. QED
      BY <3>1 DEF Entries
  <2> HIDE DEF e
  <2>3. s \in Seq(Entries) /\ php'[Main] = Append(s, e)
    BY <2>1, <2>2, MainStack
  <2> DEFINE t == php'[Main]
  <2>4. s \in Seq(Entries) /\ t = Append(s, e)
    BY <2>3
  <2> HIDE DEF s, t
  <2>5. UserIn(t) = UserIn(s) /\ \A f, i : FrameOf(f, i, s) => FrameOf(f, i, t)
    BY <2>2, <2>4, PushedUsers
  <2>6. QED
    BY <1>6, <2>1, <2>5 DEF Matched, BeginSkips, s, t
<1>7. CASE ((\E failed \in BOOLEAN : LeaveHook(failed)) \/ AbandonHook) /\ ~ fibers
  <2>1. /\ running = Main /\ UNCHANGED <<all, running, stack, skipped>> /\ Pop /\ phase # "idle"
        /\ s # <<>> /\ Top(s).kind = "hook"
    BY <1>7 DEF LeaveHook, AbandonHook, Matched, TopIs
  <2>2. s \in Seq(Entries) /\ php'[Main] = Front(s)
    BY <2>1, MainStack
  <2>3. /\ UserIn(php'[Main]) = UserIn(s)
        /\ \A f, i : FrameOf(f, i, s) /\ f.frame # <<Main, Len(s)>> => FrameOf(f, i, php'[Main])
    BY <2>1, <2>2, PoppedUsers
  <2>4. \A f, i : FrameOf(f, i, s) => f.frame # <<Main, Len(s)>>
    BY <2>1 DEF FrameOf, UserIn, Top
  <2>5. QED
    BY <1>7, <2>1, <2>3, <2>4 DEF Matched, BeginSkips
<1>8. CASE fibers /\ UNCHANGED fibers
  BY <1>8 DEF Matched
<1>9. UNCHANGED fibers \/ RequestStart
  BY DEF Next, vars, Call, Return, EnterHook, LeaveHook, StartSpan, EndSpan, Tick, Switch,
         Bailout, AbandonHook, Unwound, RequestShutdown, PostDeactivate
<1>10. QED
  BY <1>1, <1>2, <1>3, <1>4, <1>5, <1>6, <1>7, <1>8, <1>9 DEF Next

(* orma_observer_begin's comment: "begin ed end restano in pari".  Without *)
(* fibers the observer has the outermost calls of the script, the i-th in  *)
(* its frame i, and skipped counts the others: because a call is skipped   *)
(* only above what is stacked, and while one is skipped so is every other. *)
THEOREM ObserverStaysPaired == Spec => []Paired
<1>1. Init => Matched
  BY DEF Init, Matched
<1>2. Base /\ Matched /\ [Next]_vars => (Base /\ Matched)'
  BY BaseNext, MatchedNext DEF Base
<1>3. Base /\ Matched => Paired
  <2> SUFFICES ASSUME Base, Matched, ~ fibers, phase # "idle"
               PROVE  /\ Len(stack) + skipped = Cardinality(UserPlaces)
                      /\ \A i \in DOMAIN stack : \E p \in UserPlaces :
                           /\ Cardinality({q \in UserPlaces : q <= p}) = i
                           /\ stack[i].id = <<"call", php[Main][p].n>>
    BY DEF Paired
  <2>1. UserPlaces = UserIn(php[Main])
    BY DEF UserPlaces, UserIn
  <2>2. DOMAIN stack = 1 .. Len(stack)
    BY Elements DEF Base
  <2>3. QED
    BY <2>1, <2>2 DEF Matched, FrameOf, UpTo
<1>4. QED
  BY <1>1, <1>2, <1>3, BaseInit, PTL DEF Spec
-----------------------------------------------------------------------------
(* Without fibers, a parent ends after its children. *)

(* Without fibers, only the last frame ends, and the others stay. *)
LEMMA KindsOfMain ==
  ASSUME Typed, Matched, [Next]_vars, ~ fibers
  PROVE  \/ /\ UNCHANGED fibers
            /\ \/ Quiet \/ Begins \/ Opens \/ Closes
               \/ Len(stack) \in 1 .. Len(stack) /\ Ends(Len(stack))
         \/ Starts
<1> USE DEF modeVars, phpVars, observerVars, spanVars
<1> DEFINE m == Len(stack)
<1>0. m \in Nat /\ now <= now
  BY Elements
<1>1. CASE Return
  <2>1. UNCHANGED <<fibers, chiamate, now>> /\ TopIs("user") /\ phase # "idle"
    BY <1>1 DEF Return
  <2> DEFINE frame == <<running, Len(php[running])>>
             i == Max(Place(frame))
  <2>2. CASE EndSkips
    BY <1>0, <1>1, <2>1, <2>2 DEF Return, Quiet
  <2>3. CASE ~ EndSkips
    <3>1. Place(frame) # {} /\ i = m /\ m \in Nat \ {0}
      BY <2>1, <2>3, LastEnds
    <3>2. stack' = Unrolled(i) /\ Emit(stack[i])
      BY <1>1, <2>3, <3>1 DEF Return
    <3>3. Len(Unrolled(i)) = i - 1 /\ \A j \in 1 .. i - 1 : Unrolled(i)[j] = stack[j]
      BY <3>1, Unrolls
    <3> HIDE DEF i, m
    <3>4. Ends(m) /\ m \in 1 .. m
      BY <2>1, <3>1, <3>2, <3>3 DEF Ends
    <3>5. QED
      BY <2>1, <3>4 DEF m
  <2>4. QED
    BY <2>2, <2>3
<1>2. CASE RequestStart
  BY <1>2 DEF RequestStart, Starts
<1>3. CASE ~ Return /\ ~ RequestStart
  <2>1. UNCHANGED fibers /\ (stack' = stack \/ stack' = Append(stack, NewFrame))
    BY <1>3
       DEF Next, vars, Call, EnterHook, LeaveHook, StartSpan, EndSpan, Tick, Switch, Bailout,
           AbandonHook, Unwound, RequestShutdown, PostDeactivate, NewFrame
  <2>2. Len(Append(stack, NewFrame)) = m + 1
    BY NewFrameTyped, Grows DEF Typed
  <2>3. ~ \E i \in 1 .. m : Ends(i)
    BY <1>0, <2>1, <2>2 DEF Ends
  <2>4. Quiet \/ Begins \/ Opens \/ Closes \/ Starts
    BY <2>3, Kinds
  <2>5. QED
    BY <2>1, <2>4
<1>4. QED
  BY <1>1, <1>2, <1>3

(* Where the parent of a recorded function can be. *)
Reachable(id, st, sp, d) ==
  \/ id = Root
  \/ \E j \in 1 .. Len(sp) : sp[j].id = id
  \/ \E j \in 1 .. Len(st) : st[j].id = id
  \/ d > 0

Tree ==
  ~ fibers =>
    \A i \in 1 .. Len(spans) :
      spans[i].kind = "function" => Reachable(spans[i].parent, stack, spans, dropped)

(* A span that is recorded, or refused, makes no orphan. *)
LEMMA TreeAdds ==
  ASSUME Typed, Tree, ~ fibers, NEW r \in Records, AddSpan(r),
         \A id : Reachable(id, stack, spans, dropped)
                   => id = r.id \/ Reachable(id, stack', spans, dropped),
         r.kind = "function" => Reachable(r.parent, stack', spans, dropped)
  PROVE  \A i \in 1 .. Len(spans') :
           spans'[i].kind = "function" => Reachable(spans'[i].parent, stack', spans', dropped')
<1>0. Len(spans) \in Nat /\ dropped \in Nat /\ spans \in Seq(Records)
  BY DEF Typed
<1>1. CASE dropped' = dropped + 1
  <2>1. dropped' > 0
    BY <1>0, <1>1
  <2>2. QED
    BY <2>1 DEF Reachable
<1>2. CASE UNCHANGED dropped /\ spans' = Append(spans, r)
  <2> DEFINE n == Len(spans) + 1
  <2>1. Len(spans') = n /\ spans'[n] = r /\ \A i \in 1 .. Len(spans) : spans'[i] = spans[i]
    BY <1>0, <1>2, Grows
  <2>2. n \in 1 .. n /\ \A k \in 1 .. Len(spans) : k \in 1 .. n
    BY <1>0
  <2>3. \A k \in 1 .. n : k # n => k \in 1 .. Len(spans)
    BY <1>0
  <2> HIDE DEF n
  <2>4. \A id : Reachable(id, stack', spans, dropped) => Reachable(id, stack', spans', dropped')
    BY <1>2, <2>1, <2>2 DEF Reachable
  <2>5. Reachable(r.id, stack', spans', dropped')
    BY <2>1, <2>2 DEF Reachable
  <2>6. ASSUME NEW i \in 1 .. n, spans'[i].kind = "function"
        PROVE  Reachable(spans'[i].parent, stack', spans', dropped')
    <3>1. CASE i = n
      BY <2>1, <2>4, <2>6, <3>1
    <3>2. CASE i # n
      <4>1. i \in 1 .. Len(spans) /\ spans'[i] = spans[i]
        BY <2>1, <2>3, <3>2
      <4>2. Reachable(spans[i].parent, stack, spans, dropped)
        BY <2>6, <4>1 DEF Tree
      <4>3. QED
        BY <2>4, <2>5, <4>1, <4>2
    <3>3. QED
      BY <3>1, <3>2
  <2>7. QED
    BY <2>1, <2>6
<1>3. QED
  BY <1>1, <1>2, AddSpanTyped

(* A function lasts as long as what was recorded under it. *)
LEMMA ParentIsSlow ==
  ASSUME Typed, Chain, Table, Under, NEW k \in 1 .. Len(stack), NEW i \in 1 .. Len(spans),
         spans[i].kind = "function", spans[i].parent = stack[k].id
  PROVE  Slow(now - stack[k].start)
<1>1. /\ stack[k].start \in Nat /\ spans[i].start \in Nat /\ spans[i].dur \in Int /\ now \in Nat
      /\ FunctionMs \in Nat
  BY Elements, ConstantsAssumption
<1>2. stack[k].start <= spans[i].start
  BY DEF Under
<1>3. ~ spans[i].open /\ (all \/ spans[i].dur >= FunctionMs)
  BY DEF Table, Known, Over
<1>4. spans[i].start + spans[i].dur <= now
  BY <1>3 DEF Table, Timely
<1>5. QED
  BY <1>1, <1>2, <1>3, <1>4 DEF Slow

(* No step makes an orphan. *)
LEMMA TreeNext ==
  ASSUME Typed, Chain, Table, Under, Matched, Tree, [Next]_vars
  PROVE  Tree'
<1>0. /\ Len(stack) \in Nat /\ Len(spans) \in Nat /\ dropped \in Nat
      /\ \A i \in 1 .. Len(spans) : spans[i] \in Records
  BY Elements
<1>1. CASE Starts
  <2>1. Len(spans') = 0
    BY <1>1 DEF Starts
  <2>2. QED
    BY <2>1 DEF Tree
<1>2. CASE fibers /\ UNCHANGED fibers
  BY <1>2 DEF Tree
<1>3. CASE ~ fibers /\ Quiet
  BY <1>3 DEF Quiet, Tree
<1>4. CASE ~ fibers /\ Begins
  <2>1. \A id : Reachable(id, stack, spans, dropped) => Reachable(id, stack', spans, dropped)
    <3>1. CASE stack' = stack
      BY <3>1
    <3>2. CASE stack' = Append(stack, NewFrame)
      <4>1. /\ Len(stack') = Len(stack) + 1
            /\ \A i \in 1 .. Len(stack) : stack'[i] = stack[i] /\ i \in 1 .. Len(stack) + 1
        BY <1>0, <3>2, NewFrameTyped, Grows DEF Typed
      <4>2. QED
        BY <4>1 DEF Reachable
    <3>3. QED
      BY <1>4, <3>1, <3>2 DEF Begins
  <2>2. UNCHANGED <<spans, dropped>>
    BY <1>4 DEF Begins
  <2>3. QED
    BY <1>4, <2>1, <2>2 DEF Tree
<1>5. CASE ~ fibers /\ Len(stack) \in 1 .. Len(stack) /\ Ends(Len(stack))
  <2> DEFINE m == Len(stack)
             f == stack[m]
  <2>1. /\ Emit(f) /\ Len(stack') = m - 1 /\ f \in Frames /\ m \in 1 .. m
        /\ \A j \in 1 .. m - 1 : stack'[j] = stack[j]
    BY <1>5, Elements DEF Ends
  <2>2. \A j \in 1 .. m : j = m \/ j \in 1 .. m - 1
    BY <1>0
  <2>3. \A id : Reachable(id, stack, spans, dropped)
                  => id = f.id \/ Reachable(id, stack', spans, dropped)
    BY <2>1, <2>2 DEF Reachable
  <2>4. CASE Slow(now - f.start)
    <3> DEFINE r == Emitted(f)
    <3>1. r \in Records /\ AddSpan(r) /\ r.id = f.id /\ r.parent = f.parent
      BY <2>1, <2>4, EmitAdds DEF Emitted
    <3>2. f.parent = IF m = 1 THEN Root ELSE stack[m - 1].id
      BY <2>1 DEF Chain
    <3>3. m # 1 => m - 1 \in 1 .. m - 1
      BY <1>0, <2>1
    <3> HIDE DEF r, f, m
    <3>4. Reachable(r.parent, stack', spans, dropped)
      <4>1. CASE m = 1
        BY <3>1, <3>2, <4>1 DEF Reachable
      <4>2. CASE m # 1
        BY <2>1, <3>1, <3>2, <3>3, <4>2 DEF Reachable
      <4>3. QED
        BY <4>1, <4>2
    <3>5. QED
      BY <1>5, <2>3, <3>1, <3>4, TreeAdds DEF Tree
  <2>5. CASE ~ Slow(now - f.start)
    <3>1. UNCHANGED <<spans, dropped>>
      BY <2>1, <2>5, EmitAdds DEF spanVars
    <3>2. \A i \in 1 .. Len(spans) : spans[i].kind = "function" => spans[i].parent # f.id
      BY <2>1, <2>5, ParentIsSlow
    <3>3. QED
      BY <1>5, <2>3, <3>1, <3>2 DEF Tree
  <2>6. QED
    BY <2>4, <2>5
<1>6. CASE ~ fibers /\ Opens
  <2>1. PICK kind \in {"hook", "api"} : OpenSpan(kind)
    BY <1>6 DEF Opens
  <2> DEFINE r == Opened(kind)
  <2>2. r \in Records /\ AddSpan(r) /\ r.kind # "function" /\ UNCHANGED stack
    BY <1>6, <2>1, OpenSpanAdds DEF Opens, Opened
  <2> HIDE DEF r
  <2>3. QED
    BY <1>6, <2>2, TreeAdds DEF Tree
<1>7. CASE ~ fibers /\ Closes
  <2>1. /\ UNCHANGED <<stack, dropped>> /\ Len(spans') = Len(spans)
        /\ \A i \in 1 .. Len(spans) :
             /\ spans'[i].id = spans[i].id /\ spans'[i].parent = spans[i].parent
             /\ spans'[i].kind = spans[i].kind
    BY <1>7, ClosingKeeps DEF Closes, Closing
  <2>2. \A id : Reachable(id, stack, spans, dropped) => Reachable(id, stack', spans', dropped')
    BY <2>1 DEF Reachable
  <2>3. QED
    BY <1>7, <2>1, <2>2 DEF Tree
<1>8. fibers /\ ~ Starts => UNCHANGED fibers
  BY DEF Next, vars, modeVars, Call, Return, EnterHook, LeaveHook, StartSpan, EndSpan, Tick,
         Switch, Bailout, AbandonHook, Unwound, RequestStart, RequestShutdown, PostDeactivate,
         Starts, observerVars, spanVars
<1>9. fibers \in BOOLEAN
  BY DEF Typed
<1>10. QED
  BY <1>1, <1>2, <1>3, <1>4, <1>5, <1>6, <1>7, <1>8, <1>9, KindsOfMain

(* orma_observer_end drops the spans of the functions faster than          *)
(* orma.function_ms and leaves the caller's identifier as parent: that     *)
(* makes no orphan, because without fibers a caller ends after what it     *)
(* calls and is at least as slow, so that it is emitted too, unless the    *)
(* table was full.                                                         *)
THEOREM FunctionsMakeATree == Spec => []FunctionTree
<1>1. Init => Tree
  <2> SUFFICES ASSUME Init
               PROVE  Tree
    OBVIOUS
  <2>1. Len(spans) = 0
    BY DEF Init
  <2>2. QED
    BY <2>1 DEF Tree
<1>2. Init => Matched
  BY DEF Init, Matched
<1>3. Base /\ Matched /\ Tree /\ [Next]_vars => (Base /\ Matched /\ Tree)'
  BY BaseNext, MatchedNext, TreeNext DEF Base
<1>4. Base /\ Tree => FunctionTree
  <2> SUFFICES ASSUME Base, Tree, ~ fibers, NEW s \in Functions
               PROVE  \/ Present(s.parent)
                      \/ \E i \in DOMAIN stack : stack[i].id = s.parent
                      \/ dropped > 0
    BY DEF FunctionTree
  <2>1. DOMAIN stack = 1 .. Len(stack) /\ DOMAIN spans = 1 .. Len(spans)
    BY Elements DEF Base
  <2>2. PICK i \in 1 .. Len(spans) : s = spans[i] /\ spans[i].kind = "function"
    BY <2>1 DEF Functions, ToSet
  <2>3. QED
    BY <2>1, <2>2 DEF Tree, Reachable, Present, ToSet
<1>5. QED
  BY <1>1, <1>2, <1>3, <1>4, BaseInit, PTL DEF Spec
-----------------------------------------------------------------------------
(* Without fibers, a hook that comes back is still under its function. *)

(* A function that PHP is still in, below place k of the script's stack. *)
Holds(id, k, st) ==
  \/ id = Root
  \/ \E j \in 1 .. Len(st), p \in Nat : p < k /\ st[j].id = id /\ st[j].frame = <<Main, p>>

(* The call of a hook, at place k, names its span. *)
HookAt(e, k, sp, st) ==
  e.kind = "hook" /\ e.n # 0 =>
    e.n \in 1 .. Len(sp) /\ sp[e.n].kind = "hook" /\ Holds(sp[e.n].parent, k, st)

Inside ==
  ~ fibers /\ phase # "idle" =>
    \A k \in 1 .. Len(php[Main]) : HookAt(php[Main][k], k, spans, stack)

Nested ==
  ~ fibers =>
    \A i, j \in 1 .. Len(spans) :
      /\ spans[i].kind = "hook" /\ ~ spans[i].open /\ ~ spans[i].failed
      /\ spans[j].kind = "function" /\ spans[i].parent = spans[j].id
      => /\ spans[j].start <= spans[i].start
         /\ spans[i].start + spans[i].dur <= spans[j].start + spans[j].dur

(* The spans of the table stay there, of the same kind and parent. *)
LEMMA SpansStay ==
  ASSUME Typed, [Next]_vars, ~ Starts
  PROVE  /\ Len(spans) <= Len(spans')
         /\ \A i \in 1 .. Len(spans) :
              /\ i \in 1 .. Len(spans')
              /\ spans'[i].kind = spans[i].kind /\ spans'[i].parent = spans[i].parent
<1>0. /\ Len(spans) \in Nat /\ spans \in Seq(Records)
      /\ \A i \in 1 .. Len(spans) : spans[i] \in Records
      /\ \A i \in 1 .. Len(stack) : stack[i] \in Frames
  BY Elements DEF Typed
<1>1. CASE UNCHANGED spans
  BY <1>0, <1>1
<1>2. ASSUME NEW r \in Records, AddSpan(r), spans' # spans
      PROVE  /\ Len(spans') = Len(spans) + 1
             /\ \A i \in 1 .. Len(spans) : spans'[i] = spans[i]
  <2>1. spans' = Append(spans, r)
    BY <1>2, AddSpanTyped
  <2>2. QED
    BY <1>0, <2>1, Grows
<1>3. CASE Opens
  BY <1>0, <1>1, <1>2, <1>3, OpenSpanAdds DEF Opens
<1>4. ASSUME NEW k \in 1 .. Len(stack), Ends(k), spans' # spans
      PROVE  /\ Len(spans') = Len(spans) + 1
             /\ \A i \in 1 .. Len(spans) : spans'[i] = spans[i]
  BY <1>0, <1>2, <1>4, EmitAdds DEF Ends, spanVars
<1>5. CASE Closes
  <2>1. Len(spans') = Len(spans)
    BY <1>5 DEF Closes, Closing
  <2>2. QED
    BY <1>0, <1>5, <2>1, ClosingKeeps DEF Closes
<1>6. CASE \E k \in 1 .. Len(stack) : Ends(k)
  BY <1>0, <1>1, <1>4, <1>6
<1>7. QED
  BY <1>1, <1>3, <1>5, <1>6, Kinds DEF Quiet, Begins

(* A hook stays under its function while what is above it comes and goes. *)
LEMMA HookStays ==
  ASSUME Typed, [Next]_vars, ~ Starts, NEW e, NEW k, HookAt(e, k, spans, stack),
         \A id : Holds(id, k, stack) => Holds(id, k, stack')
  PROVE  HookAt(e, k, spans', stack')
BY SpansStay DEF HookAt

(* A frame that is pushed leaves the others. *)
LEMMA HoldsPushed ==
  ASSUME Typed, NEW f \in Frames, stack' = Append(stack, f)
  PROVE  \A id, k : Holds(id, k, stack) => Holds(id, k, stack')
<1>1. /\ Len(stack') = Len(stack) + 1
      /\ \A i \in 1 .. Len(stack) : stack'[i] = stack[i] /\ i \in 1 .. Len(stack) + 1
  BY Grows DEF Typed
<1>2. QED
  BY <1>1 DEF Holds

(* The innermost function of the script is below the next call. *)
LEMMA ParentHolds ==
  ASSUME Typed, Matched, ~ fibers, phase # "idle"
  PROVE  Holds(CurrentParent, Len(php[Main]) + 1, stack)
<1> DEFINE m == Len(stack)
           s == php[Main]
<1>1. m \in Nat /\ (stack = <<>> <=> m = 0) /\ s \in Seq(Entries)
  BY MainStack DEF Typed, Matched
<1>2. CASE stack = <<>>
  BY <1>2 DEF CurrentParent, Holds
<1>3. CASE stack # <<>>
  <2>1. m \in 1 .. m /\ CurrentParent = stack[m].id
    BY <1>1, <1>3 DEF CurrentParent, Top
  <2>2. FrameOf(stack[m], m, s)
    BY <2>1 DEF Matched
  <2>3. PICK p \in UserIn(s) : stack[m].frame = <<Main, p>>
    BY <2>2 DEF FrameOf
  <2>4. p \in 1 .. Len(s) /\ Len(s) \in Nat
    BY <1>1, UserFinite
  <2>5. p \in Nat /\ p < Len(s) + 1
    BY <2>4
  <2>6. QED
    BY <2>1, <2>3, <2>5 DEF Holds
<1>4. QED
  BY <1>2, <1>3

(* PHP leaves the functions it is in from the innermost. *)
LEMMA InsideNext ==
  ASSUME Typed, Resting, Matched, Inside, [Next]_vars
  PROVE  Inside'
<1> USE DEF modeVars, phpVars, observerVars, spanVars
<1> DEFINE s == php[Main]
           t == php'[Main]
<1>0. Main \in Contexts /\ Len(stack) \in Nat /\ Len(spans) \in Nat
  BY ConstantsAssumption, Elements
<1>1. CASE RequestStart
  <2>1. t = <<>> /\ 1 .. 0 = {}
    BY <1>0, <1>1 DEF RequestStart, Resting
  <2>2. QED
    BY <2>1 DEF Inside
<1>2. CASE PostDeactivate
  BY <1>2 DEF PostDeactivate, Inside
<1>3. CASE fibers /\ UNCHANGED fibers
  BY <1>3 DEF Inside
<1>4. UNCHANGED fibers \/ RequestStart
  BY DEF Next, vars, Call, Return, EnterHook, LeaveHook, StartSpan, EndSpan, Tick, Switch,
         Bailout, AbandonHook, Unwound, RequestShutdown, PostDeactivate
<1>5. CASE ~ fibers /\ ~ RequestStart /\ ~ PostDeactivate /\ phase = "idle"
  BY <1>5
     DEF Inside, Next, vars, Call, Return, EnterHook, LeaveHook, StartSpan, EndSpan, Tick, Switch,
         Bailout, AbandonHook, Unwound, RequestShutdown
<1>6. CASE ~ fibers /\ ~ RequestStart /\ ~ PostDeactivate /\ phase # "idle"
  <2>1. running = Main /\ s \in Seq(Entries) /\ Len(s) \in Nat
    BY <1>6, MainStack DEF Matched
  <2>2. \A k \in 1 .. Len(s) : HookAt(s[k], k, spans, stack)
    BY <1>6 DEF Inside
  <2>3. ~ Starts
    BY <1>6 DEF Starts
  <2>4. ASSUME \A k \in 1 .. Len(t) : HookAt(t[k], k, spans', stack')
        PROVE  Inside'
    BY <2>4 DEF Inside
  <2> HIDE DEF s, t
  <2>5. CASE stack' = stack /\ t = s
    <3>1. \A k \in 1 .. Len(s) : HookAt(s[k], k, spans', stack')
      BY <2>2, <2>3, <2>5, HookStays
    <3>2. QED
      BY <2>4, <2>5, <3>1
  <2>6. CASE Call
    <3> DEFINE e == [kind |-> "user", n |-> chiamate + 1]
    <3>1. e \in Entries /\ e.kind = "user"
      BY DEF Entries, Typed
    <3>2. t = Append(s, e)
      BY <2>1, <2>6, <3>1, MainStack DEF Call, s, t
    <3> HIDE DEF e
    <3>3. Len(t) = Len(s) + 1 /\ t[Len(s) + 1] = e /\ \A k \in 1 .. Len(s) : t[k] = s[k]
      BY <2>1, <3>1, <3>2, Grows
    <3>4. \A id, k : Holds(id, k, stack) => Holds(id, k, stack')
      <4>1. stack' = stack \/ stack' = Append(stack, NewFrame)
        BY <2>6 DEF Call, NewFrame
      <4>2. QED
        BY <4>1, NewFrameTyped, HoldsPushed
    <3>5. \A k \in 1 .. Len(s) : HookAt(s[k], k, spans', stack')
      BY <2>2, <2>3, <3>4, HookStays
    <3>6. HookAt(e, Len(s) + 1, spans', stack')
      BY <3>1 DEF HookAt
    <3>7. \A k \in 1 .. Len(s) + 1 : k = Len(s) + 1 \/ k \in 1 .. Len(s)
      BY <2>1
    <3>8. QED
      BY <2>4, <3>3, <3>5, <3>6, <3>7
  <2>7. CASE Return
    <3>1. s # <<>> /\ Top(s).kind = "user" /\ Pop /\ TopIs("user")
      BY <2>1, <2>7 DEF Return, TopIs, s
    <3>2. t = Front(s)
      BY <2>1, <3>1, MainStack DEF s, t
    <3>3. Len(t) = Len(s) - 1 /\ \A k \in 1 .. Len(s) - 1 : t[k] = s[k]
      <4>1. Len(s) - 1 \in 0 .. Len(s) /\ t = SubSeq(s, 1, Len(s) - 1)
        BY <2>1, <3>1, <3>2 DEF Front
      <4>2. QED
        BY <2>1, <4>1, Cut
    <3>4. ASSUME NEW id, NEW k \in 1 .. Len(s) - 1, Holds(id, k, stack)
          PROVE  Holds(id, k, stack')
      <4>1. CASE id = Root
        BY <4>1 DEF Holds
      <4>2. CASE EndSkips
        BY <2>7, <3>4, <4>2 DEF Return
      <4>3. CASE id # Root /\ ~ EndSkips
        <5> DEFINE m == Len(stack)
                   frame == <<running, Len(php[running])>>
                   i == Max(Place(frame))
        <5>1. PICK j \in 1 .. m, p \in Nat :
                p < k /\ stack[j].id = id /\ stack[j].frame = <<Main, p>>
          BY <3>4, <4>3 DEF Holds
        <5>2. Place(frame) # {} /\ i = m
          BY <1>6, <3>1, <4>3, LastEnds
        <5>3. stack' = Unrolled(i)
          BY <2>7, <4>3, <5>2 DEF Return
        <5>4. /\ stack[i].frame = frame /\ Len(Unrolled(i)) = i - 1
              /\ \A q \in 1 .. i - 1 : Unrolled(i)[q] = stack[q]
          BY <5>2, Unrolls
        <5>5. frame = <<Main, Len(s)>>
          BY <2>1 DEF s
        <5> HIDE DEF i, m, frame
        <5>6. p # Len(s)
          BY <2>1, <5>1
        <5>7. j # m
          BY <5>1, <5>2, <5>4, <5>5, <5>6
        <5>8. j \in 1 .. m - 1
          BY <1>0, <5>1, <5>7 DEF m
        <5>9. QED
          BY <5>1, <5>2, <5>3, <5>4, <5>8 DEF Holds
      <4>4. QED
        BY <4>1, <4>2, <4>3
    <3>5. \A k \in 1 .. Len(s) - 1 : k \in 1 .. Len(s)
      BY <2>1
    <3>6. \A k \in 1 .. Len(s) - 1 : HookAt(s[k], k, spans', stack')
      BY <2>2, <2>3, <3>4, <3>5, HookStays
    <3>7. QED
      BY <2>4, <3>3, <3>6
  <2>8. CASE EnterHook
    <3> DEFINE n == IF Len(spans) < MaxSpans THEN Len(spans) + 1 ELSE 0
               e == [kind |-> "hook", n |-> n]
    <3>1. e \in Entries /\ e.n = n
      BY <1>0 DEF Entries
    <3>2. t = Append(s, e) /\ OpenSpan("hook") /\ UNCHANGED stack
      BY <2>1, <2>8, <3>1, MainStack DEF EnterHook, s, t
    <3>3. n # 0 => /\ n = Len(spans) + 1 /\ Len(spans') = n
                   /\ spans'[n].kind = "hook" /\ spans'[n].parent = CurrentParent
      <4>1. CASE Len(spans) < MaxSpans
        <5> DEFINE r == Opened("hook")
        <5>1. r \in Records /\ AddSpan(r) /\ r.kind = "hook" /\ r.parent = CurrentParent
          BY <3>2, OpenSpanAdds DEF Opened
        <5> HIDE DEF r
        <5>2. spans' = Append(spans, r)
          BY <4>1, <5>1 DEF AddSpan
        <5>3. Len(spans') = Len(spans) + 1 /\ spans'[Len(spans) + 1] = r
          BY <5>1, <5>2, Grows DEF Typed
        <5>4. QED
          BY <4>1, <5>1, <5>3
      <4>2. CASE ~ (Len(spans) < MaxSpans)
        BY <4>2
      <4>3. QED
        BY <4>1, <4>2
    <3> HIDE DEF n, e
    <3>4. Len(t) = Len(s) + 1 /\ t[Len(s) + 1] = e /\ \A k \in 1 .. Len(s) : t[k] = s[k]
      BY <2>1, <3>1, <3>2, Grows
    <3>5. \A k \in 1 .. Len(s) : HookAt(s[k], k, spans', stack')
      BY <2>2, <2>3, <3>2, HookStays
    <3>6. HookAt(e, Len(s) + 1, spans', stack')
      <4>1. Holds(CurrentParent, Len(s) + 1, stack)
        BY <1>6, ParentHolds DEF s
      <4>2. n # 0 => n \in 1 .. Len(spans')
        BY <1>0, <3>3
      <4>3. QED
        BY <3>1, <3>2, <3>3, <4>1, <4>2 DEF HookAt
    <3>7. \A k \in 1 .. Len(s) + 1 : k = Len(s) + 1 \/ k \in 1 .. Len(s)
      BY <2>1
    <3>8. QED
      BY <2>4, <3>4, <3>5, <3>6, <3>7
  <2>9. CASE (\E failed \in BOOLEAN : LeaveHook(failed)) \/ AbandonHook
    <3>1. s # <<>> /\ Pop /\ UNCHANGED stack
      BY <2>1, <2>9 DEF LeaveHook, AbandonHook, TopIs, s
    <3>2. t = Front(s)
      BY <2>1, <3>1, MainStack DEF s, t
    <3>3. Len(t) = Len(s) - 1 /\ \A k \in 1 .. Len(s) - 1 : t[k] = s[k]
      <4>1. Len(s) - 1 \in 0 .. Len(s) /\ t = SubSeq(s, 1, Len(s) - 1)
        BY <2>1, <3>1, <3>2 DEF Front
      <4>2. QED
        BY <2>1, <4>1, Cut
    <3>4. \A k \in 1 .. Len(s) - 1 : k \in 1 .. Len(s)
      BY <2>1
    <3>5. \A k \in 1 .. Len(s) - 1 : HookAt(s[k], k, spans', stack')
      BY <2>2, <2>3, <3>1, <3>4, HookStays
    <3>6. QED
      BY <2>4, <3>3, <3>5
  <2>10. CASE \/ StartSpan \/ (\E i \in 1 .. MaxSpans : EndSpan(i)) \/ Tick
              \/ (\E c \in Contexts : Switch(c)) \/ Bailout \/ Unwound \/ RequestShutdown
              \/ UNCHANGED vars
    <3>1. stack' = stack /\ t = s
      BY <2>10
         DEF vars, StartSpan, EndSpan, Tick, Switch, Bailout, Unwound, RequestShutdown, s, t
    <3>2. QED
      BY <2>5, <3>1
  <2>11. QED
    BY <1>6, <2>6, <2>7, <2>8, <2>9, <2>10 DEF Next
<1>7. fibers \in BOOLEAN
  BY DEF Typed
<1>8. QED
  BY <1>1, <1>2, <1>3, <1>4, <1>5, <1>6, <1>7

(* What is added to the table leaves what is there. *)
LEMMA AddSpanStays ==
  ASSUME Typed, NEW r \in Records, AddSpan(r)
  PROVE  \A i \in 1 .. Len(spans) : spans'[i] = spans[i]
<1>1. spans \in Seq(Records)
  BY DEF Typed
<1>2. CASE spans' = Append(spans, r)
  BY <1>1, <1>2, Grows
<1>3. QED
  BY <1>2, AddSpanTyped

(* A hook that comes back finds its function still running. *)
LEMMA ClosedHook ==
  ASSUME Typed, Matched, Inside, [Next]_vars, ~ fibers, ~ Starts,
         NEW i \in 1 .. Len(spans), spans[i].kind = "hook", spans'[i] # spans[i]
  PROVE  spans'[i].failed \/ Holds(spans[i].parent, Len(php[Main]), stack)
<1>0. /\ spans[i] \in Records /\ Len(spans) \in Nat
      /\ \A k \in 1 .. Len(stack) : stack[k] \in Frames
  BY Elements
<1>1. ASSUME NEW failed \in BOOLEAN, LeaveHook(failed)
      PROVE  Holds(spans[i].parent, Len(php[Main]), stack)
  <2> DEFINE s == php[Main]
             n == Len(s)
  <2>1. running = Main /\ s \in Seq(Entries) /\ phase # "idle"
    BY <1>1, MainStack DEF LeaveHook, Matched
  <2>2. s # <<>> /\ s[n].kind = "hook" /\ CloseSpan(s[n].n, failed)
    BY <1>1, <2>1 DEF LeaveHook, TopIs, Top
  <2>3. i = s[n].n
    BY <2>2, CloseSpanCloses
  <2>4. n \in 1 .. n
    BY <2>1, <2>2
  <2>5. HookAt(s[n], n, spans, stack)
    BY <2>1, <2>4 DEF Inside
  <2>6. QED
    BY <2>2, <2>3, <2>5 DEF HookAt
<1>2. ASSUME NEW k \in 1 .. MaxSpans, EndSpan(k)
      PROVE  FALSE
  <2>1. CloseSpan(k, FALSE) /\ spans[k].kind = "api" /\ FALSE \in BOOLEAN
    BY <1>2 DEF EndSpan
  <2>2. i = k
    BY <2>1, CloseSpanCloses
  <2>3. QED
    BY <2>1, <2>2
<1>3. CASE RequestShutdown
  BY <1>0, <1>3, CloseOpenCloses, ClosedRecord DEF RequestShutdown
<1>4. CASE EnterHook \/ StartSpan
  BY <1>4, OpenSpanAdds, AddSpanStays DEF EnterHook, StartSpan
<1>5. CASE Return
  <2> DEFINE place == Place(<<running, Len(php[running])>>)
  <2>1. place # {} /\ Emit(stack[Max(place)])
    BY <1>5 DEF Return, spanVars
  <2>2. stack[Max(place)] \in Frames
    BY <2>1, Unrolls
  <2> HIDE DEF place
  <2>3. QED
    BY <2>1, <2>2, EmitAdds, AddSpanStays DEF spanVars
<1>6. CASE ~ Return /\ UNCHANGED spans
  BY <1>6
<1>7. QED
  BY <1>1, <1>2, <1>3, <1>4, <1>5, <1>6
     DEF Next, vars, spanVars, Call, Tick, Switch, Bailout, AbandonHook, Unwound, RequestStart,
         PostDeactivate, Starts, observerVars

(* What is recorded lies in time within what it is recorded under. *)
LEMMA NestedNext ==
  ASSUME Typed, Chain, Table, Under, Matched, Inside, Nested, [Next]_vars
  PROVE  Nested'
<1>0. /\ Len(spans) \in Nat /\ now \in Nat /\ spans \in Seq(Records)
      /\ \A i \in 1 .. Len(spans) :
           spans[i] \in Records /\ spans[i].start \in Nat /\ spans[i].dur \in Int
      /\ \A k \in 1 .. Len(stack) : stack[k] \in Frames /\ stack[k].start \in Nat
  BY Elements DEF Typed
<1>1. CASE Starts
  <2>1. Len(spans') = 0
    BY <1>1 DEF Starts
  <2>2. QED
    BY <2>1 DEF Nested
<1>2. CASE fibers /\ UNCHANGED fibers
  BY <1>2 DEF Nested
<1>3. CASE ~ fibers /\ UNCHANGED spans
  BY <1>3 DEF Nested
<1>4. ASSUME ~ fibers, NEW r \in Records, spans' = Append(spans, r),
             r.kind = "hook" => r.open,
             r.kind = "function" =>
               \A i \in 1 .. Len(spans) :
                 spans[i].kind = "hook" /\ ~ spans[i].open /\ spans[i].parent = r.id
                   => r.start <= spans[i].start /\ spans[i].start + spans[i].dur <= r.start + r.dur
      PROVE  Nested'
  <2> DEFINE n == Len(spans) + 1
  <2>1. Len(spans') = n /\ spans'[n] = r /\ \A i \in 1 .. Len(spans) : spans'[i] = spans[i]
    BY <1>0, <1>4, Grows
  <2>2. \A k \in 1 .. n : k # n => k \in 1 .. Len(spans)
    BY <1>0
  <2>3. ASSUME NEW i \in 1 .. n, NEW j \in 1 .. n, spans'[i].kind = "hook", ~ spans'[i].open,
               ~ spans'[i].failed, spans'[j].kind = "function", spans'[i].parent = spans'[j].id
        PROVE  /\ spans'[j].start <= spans'[i].start
               /\ spans'[i].start + spans'[i].dur <= spans'[j].start + spans'[j].dur
    <3>1. i # n
      BY <1>4, <2>1, <2>3
    <3>2. i \in 1 .. Len(spans) /\ spans'[i] = spans[i]
      BY <2>1, <2>2, <3>1
    <3>3. CASE j = n
      BY <1>4, <2>1, <2>3, <3>2, <3>3
    <3>4. CASE j # n
      <4>1. j \in 1 .. Len(spans) /\ spans'[j] = spans[j]
        BY <2>1, <2>2, <3>4
      <4>2. QED
        BY <1>4, <2>3, <3>2, <4>1 DEF Nested
    <3>5. QED
      BY <3>3, <3>4
  <2> HIDE DEF n
  <2>4. QED
    BY <2>1, <2>3 DEF Nested
<1>5. ASSUME ~ fibers, NEW k \in 1 .. Len(stack), Ends(k)
      PROVE  Nested'
  <2> DEFINE f == stack[k]
             r == Emitted(f)
  <2>1. r \in Records /\ (spans' = spans \/ spans' = Append(spans, r))
    BY <1>0, <1>5, EmitAdds, AddSpanTyped DEF Ends, spanVars
  <2>2. r.id = f.id /\ r.kind = "function" /\ r.start = f.start /\ r.dur = now - f.start
    BY DEF Emitted
  <2>3. f.start + (now - f.start) = now
    BY <1>0
  <2>4. \A i \in 1 .. Len(spans) :
          ~ spans[i].open /\ spans[i].parent = f.id
            => f.start <= spans[i].start /\ spans[i].start + spans[i].dur <= now
    BY DEF Under, Table, Timely
  <2> HIDE DEF r, f
  <2>5. QED
    BY <1>3, <1>4, <1>5, <2>1, <2>2, <2>3, <2>4
<1>6. CASE ~ fibers /\ Opens
  <2>1. PICK kind \in {"hook", "api"} : OpenSpan(kind)
    BY <1>6 DEF Opens
  <2> DEFINE r == Opened(kind)
  <2>2. r \in Records /\ (spans' = spans \/ spans' = Append(spans, r))
    BY <2>1, OpenSpanAdds, AddSpanTyped
  <2>3. r.open /\ r.kind # "function"
    BY DEF Opened
  <2> HIDE DEF r
  <2>4. QED
    BY <1>3, <1>4, <1>6, <2>2, <2>3
<1>7. CASE ~ fibers /\ ~ Starts /\ Closes
  <2>1. /\ Len(spans') = Len(spans)
        /\ \A i \in 1 .. Len(spans) :
             \/ spans'[i] = spans[i]
             \/ spans[i].open /\ \E failed \in BOOLEAN : spans'[i] = Closed(spans[i], failed)
    BY <1>7 DEF Closes, Closing
  <2>2. \A i \in 1 .. Len(spans) :
          /\ spans'[i].id = spans[i].id /\ spans'[i].parent = spans[i].parent
          /\ spans'[i].kind = spans[i].kind
    BY <1>7, ClosingKeeps DEF Closes
  <2>3. ASSUME NEW i \in 1 .. Len(spans), NEW j \in 1 .. Len(spans), spans'[i].kind = "hook",
               ~ spans'[i].open, ~ spans'[i].failed, spans'[j].kind = "function",
               spans'[i].parent = spans'[j].id
        PROVE  /\ spans'[j].start <= spans'[i].start
               /\ spans'[i].start + spans'[i].dur <= spans'[j].start + spans'[j].dur
    <3>1. Over(spans[j], chiamate, stack, all)
      BY <2>2, <2>3 DEF Table, Known
    <3>2. spans'[j] = spans[j]
      BY <2>1, <3>1 DEF Over
    <3>3. CASE spans'[i] = spans[i]
      BY <1>7, <2>3, <3>2, <3>3 DEF Nested
    <3>4. CASE spans'[i] # spans[i]
      <4>1. Holds(spans[i].parent, Len(php[Main]), stack)
        BY <1>7, <2>2, <2>3, <3>4, ClosedHook
      <4>2. spans[j].id # Root /\ spans[i].parent = spans[j].id
        BY <2>2, <2>3, <3>1 DEF Over, Root
      <4>3. QED
        BY <3>1, <4>1, <4>2 DEF Holds, Over
    <3>5. QED
      BY <3>3, <3>4
  <2>4. QED
    BY <2>1, <2>3 DEF Nested
<1>8. fibers /\ ~ Starts => UNCHANGED fibers
  BY DEF Next, vars, modeVars, Call, Return, EnterHook, LeaveHook, StartSpan, EndSpan, Tick,
         Switch, Bailout, AbandonHook, Unwound, RequestStart, RequestShutdown, PostDeactivate,
         Starts, observerVars, spanVars
<1>9. fibers \in BOOLEAN
  BY DEF Typed
<1>10. QED
  BY <1>1, <1>2, <1>3, <1>5, <1>6, <1>7, <1>8, <1>9, Kinds DEF Quiet, Begins

(* Without fibers a query or a network call that came back lies within the *)
(* function it is shown under: the span is opened under the innermost      *)
(* function with a frame and closed while that function is still running,  *)
(* whatever the hooked call did in between; a fatal error leaves it open,  *)
(* and orma_spans_close_open marks it as failed.                           *)
THEOREM HooksLieWithin == Spec => []HooksNest
<1>1. Init => Matched /\ Inside /\ Nested
  <2> SUFFICES ASSUME Init
               PROVE  Matched /\ Inside /\ Nested
    OBVIOUS
  <2>1. phase = "idle" /\ Len(spans) = 0
    BY DEF Init
  <2>2. QED
    BY <2>1 DEF Matched, Inside, Nested
<1>2. Base /\ Matched /\ Inside /\ Nested /\ [Next]_vars => (Base /\ Matched /\ Inside /\ Nested)'
  BY BaseNext, MatchedNext, InsideNext, NestedNext DEF Base
<1>3. Base /\ Nested => HooksNest
  <2> SUFFICES ASSUME Base, Nested, ~ fibers, NEW s \in ToSet(spans), NEW p \in Functions,
                      s.kind = "hook", s.parent = p.id, ~ s.open, ~ s.failed
               PROVE  p.start <= s.start /\ s.start + s.dur <= p.start + p.dur
    BY DEF HooksNest
  <2>1. DOMAIN spans = 1 .. Len(spans)
    BY Elements DEF Base
  <2>2. PICK i \in 1 .. Len(spans) : s = spans[i]
    BY <2>1 DEF ToSet
  <2>3. PICK j \in 1 .. Len(spans) : p = spans[j] /\ spans[j].kind = "function"
    BY <2>1 DEF Functions, ToSet
  <2>4. QED
    BY <2>2, <2>3 DEF Nested
<1>4. QED
  BY <1>1, <1>2, <1>3, BaseInit, PTL DEF Spec

-----------------------------------------------------------------------------
(* The sums of the waterfall.  MapThenSumSet is a recursive function over  *)
(* sets: what it computes for every finite set is proved by induction on   *)
(* the number of elements.                                                 *)

(* Induction over the numbers, said of a set of numbers: the least one that *)
(* it lacks would come after one that it has.                              *)
LEMMA NatsByOne ==
  ASSUME NEW T, 0 \in T, \A n \in Nat : n \in T => n + 1 \in T
  PROVE  Nat \subseteq T
<1> SUFFICES ASSUME Nat \ T # {} PROVE FALSE
  OBVIOUS
<1>1. \E x \in Nat \ T : \A y \in Nat \ T : ~ (<<y, x>> \in OpToRel(<, Nat))
  BY WFMin, NatLessThanWellFounded
<1>2. PICK x \in Nat \ T : \A y \in Nat \ T : ~ (<<y, x>> \in OpToRel(<, Nat))
  BY <1>1
<1>3. \A y \in Nat \ T : ~ (y < x)
  BY <1>2 DEF OpToRel
<1>4. x - 1 \in Nat
  OBVIOUS
<1>5. QED
  BY <1>3, <1>4

-----------------------------------------------------------------------------
(* How MapThenSumSet takes the elements of a set.                          *)
Picked(s) == CHOOSE x \in s : TRUE

(* g adds up f over each subset of S, one element after the other.         *)
Follows(g, f, S) ==
  \A s \in SUBSET S : g[s] = IF s = {} THEN 0 ELSE f[Picked(s)] + g[s \ {Picked(s)}]

Adds(g, f, S) == g \in [SUBSET S -> Int] /\ Follows(g, f, S)

(* It takes them from the set ...                                          *)
LEMMA PickedIn ==
  ASSUME NEW s, s # {}
  PROVE  Picked(s) \in s
BY Zenon DEF Picked

(* ... which has one less.                                                 *)
LEMMA Shrinks ==
  ASSUME NEW s, IsFiniteSet(s), NEW x \in s
  PROVE  /\ IsFiniteSet(s \ {x}) /\ Cardinality(s \ {x}) = Cardinality(s) - 1
         /\ Cardinality(s) \in Nat \ {0}
BY FS_RemoveElement, FS_CardinalityType, FS_EmptySet

(* Every function has its sums, over the sets of n elements and then over  *)
(* those of n + 1.                                                         *)
LEMMA AdderExists ==
  ASSUME NEW S, IsFiniteSet(S), NEW f \in [S -> Int]
  PROVE  \E g : Adds(g, f, S)
<1> DEFINE Step(g) == [s \in SUBSET S |-> IF s = {} THEN 0 ELSE f[Picked(s)] + g[s \ {Picked(s)}]]
           Good(g, n) == /\ g \in [SUBSET S -> Int]
                         /\ \A s \in SUBSET S : Cardinality(s) <= n => g[s] = Step(g)[s]
           T == {n \in Nat : \E g : Good(g, n)}
<1>0. ASSUME NEW s \in SUBSET S
      PROVE  /\ IsFiniteSet(s) /\ Cardinality(s) \in Nat
             /\ s # {} => Picked(s) \in s /\ Cardinality(s \ {Picked(s)}) = Cardinality(s) - 1
             /\ Cardinality(s) <= 0 => s = {}
  <2>1. IsFiniteSet(s)
    BY FS_Subset
  <2>2. s # {} => Picked(s) \in s
    BY PickedIn
  <2>3. Cardinality(s) \in Nat /\ (Cardinality(s) = 0 => s = {})
    BY <2>1, FS_CardinalityType, FS_EmptySet
  <2>4. s # {} => Cardinality(s \ {Picked(s)}) = Cardinality(s) - 1
    BY <2>1, <2>2, Shrinks
  <2>5. QED
    BY <2>1, <2>2, <2>3, <2>4
<1>1. 0 \in T
  <2> DEFINE g == [s \in SUBSET S |-> 0]
  <2>1. \A s \in SUBSET S : Cardinality(s) <= 0 => g[s] = Step(g)[s]
    BY <1>0
  <2>2. g \in [SUBSET S -> Int]
    OBVIOUS
  <2> HIDE DEF g
  <2>3. Good(g, 0)
    BY <2>1, <2>2
  <2> HIDE DEF Good
  <2>4. QED
    BY <2>3
<1>2. ASSUME NEW n \in Nat, n \in T PROVE n + 1 \in T
  <2>1. PICK g : Good(g, n)
    BY <1>2
  <2> DEFINE h == Step(g)
  <2>2. h \in [SUBSET S -> Int]
    <3>1. ASSUME NEW s \in SUBSET S, s # {}
          PROVE  f[Picked(s)] + g[s \ {Picked(s)}] \in Int
      <4>1. Picked(s) \in S /\ s \ {Picked(s)} \in SUBSET S
        BY <1>0, <3>1
      <4>2. QED
        BY <2>1, <4>1
    <3>2. QED
      BY <3>1
  <2>3. ASSUME NEW s \in SUBSET S, Cardinality(s) <= n + 1, s # {}
        PROVE  h[s] = f[Picked(s)] + h[s \ {Picked(s)}]
    <3> DEFINE r == s \ {Picked(s)}
    <3>1. r \in SUBSET S /\ Cardinality(r) <= n
      BY <1>0, <2>3
    <3>2. h[r] = g[r]
      BY <2>1, <3>1
    <3>3. h[s] = f[Picked(s)] + g[r]
      BY <2>3
    <3>4. QED
      BY <3>2, <3>3
  <2>4. \A s \in SUBSET S : Cardinality(s) <= n + 1 => h[s] = Step(h)[s]
    <3> SUFFICES ASSUME NEW s \in SUBSET S, Cardinality(s) <= n + 1 PROVE h[s] = Step(h)[s]
      OBVIOUS
    <3>1. CASE s = {}
      BY <3>1
    <3>2. CASE s # {}
      <4>1. h[s] = f[Picked(s)] + h[s \ {Picked(s)}]
        BY <2>3, <3>2
      <4> HIDE DEF h
      <4>2. QED
        BY <4>1, <3>2
    <3>3. QED
      BY <3>1, <3>2
  <2>5. Good(h, n + 1)
    BY <2>2, <2>4
  <2> HIDE DEF Good
  <2>6. QED
    BY <2>5
<1>3. Cardinality(S) \in T
  <2> HIDE DEF T
  <2>1. QED
    BY <1>1, <1>2, NatsByOne, FS_CardinalityType
<1>4. PICK g : Good(g, Cardinality(S))
  BY <1>3
<1>5. ASSUME NEW s \in SUBSET S PROVE Cardinality(s) <= Cardinality(S)
  BY FS_Subset
<1>6. Adds(g, f, S)
  BY <1>4, <1>5 DEF Adds, Follows
<1>7. QED
  BY <1>6

(* The order in which the elements are taken does not matter.              *)
LEMMA AnyOrder ==
  ASSUME NEW S, IsFiniteSet(S), NEW f \in [S -> Int], NEW g, Adds(g, f, S)
  PROVE  \A s \in SUBSET S : \A x \in s : g[s] = f[x] + g[s \ {x}]
<1> DEFINE T == {n \in Nat : \A s \in SUBSET S : Cardinality(s) <= n =>
                              \A x \in s : g[s] = f[x] + g[s \ {x}]}
<1>0. ASSUME NEW s \in SUBSET S
      PROVE  IsFiniteSet(s) /\ Cardinality(s) \in Nat
  BY FS_Subset, FS_CardinalityType
<1>1. 0 \in T
  <2>1. ASSUME NEW s \in SUBSET S, Cardinality(s) <= 0, NEW x \in s PROVE FALSE
    <3>1. IsFiniteSet(s) /\ Cardinality(s) \in Nat
      BY <1>0
    <3>2. Cardinality(s) # 0
      BY <3>1, Shrinks
    <3>3. QED
      BY <2>1, <3>1, <3>2
  <2>2. QED
    BY <2>1
<1>2. ASSUME NEW n \in Nat, n \in T PROVE n + 1 \in T
  <2> SUFFICES ASSUME NEW s \in SUBSET S, Cardinality(s) <= n + 1, NEW x \in s
               PROVE  g[s] = f[x] + g[s \ {x}]
    OBVIOUS
  <2> DEFINE y == Picked(s)
  <2>1. y \in s /\ g[s] = f[y] + g[s \ {y}]
    BY PickedIn DEF Adds, Follows
  <2> HIDE DEF y
  <2>2. CASE x = y
    BY <2>1, <2>2
  <2>3. CASE x # y
    <3>1. Cardinality(s \ {x}) <= n /\ Cardinality(s \ {y}) <= n
      BY <1>0, <2>1, Shrinks
    <3>2. g[s \ {y}] = f[x] + g[(s \ {y}) \ {x}]
      BY <1>2, <2>3, <3>1
    <3>3. g[s \ {x}] = f[y] + g[(s \ {x}) \ {y}]
      BY <1>2, <2>1, <2>3, <3>1
    <3>4. (s \ {y}) \ {x} = (s \ {x}) \ {y}
      OBVIOUS
    <3>5. f[x] \in Int /\ f[y] \in Int /\ g[(s \ {x}) \ {y}] \in Int
      BY <2>1 DEF Adds
    <3> DEFINE rest == (s \ {x}) \ {y}
    <3>6. g[s] = f[y] + (f[x] + g[rest])
      BY <2>1, <3>2, <3>4
    <3>7. g[s \ {x}] = f[y] + g[rest]
      BY <3>3
    <3> HIDE DEF rest
    <3>8. g[rest] \in Int
      BY <3>5 DEF rest
    <3>9. QED
      BY <3>5, <3>6, <3>7, <3>8
  <2>4. QED
    BY <2>2, <2>3
<1>3. Cardinality(S) \in T
  <2> HIDE DEF T
  <2>1. QED
    BY <1>1, <1>2, NatsByOne, FS_CardinalityType
<1>4. ASSUME NEW s \in SUBSET S PROVE Cardinality(s) <= Cardinality(S)
  BY FS_Subset
<1>5. QED
  BY <1>3, <1>4

(* What is added up over a set does not depend on what is around it.       *)
LEMMA SameSum ==
  ASSUME NEW S, IsFiniteSet(S), NEW R, R \subseteq S,
         NEW f \in [S -> Int], NEW e \in [R -> Int], \A x \in R : e[x] = f[x],
         NEW g, Follows(g, f, S), NEW h, Follows(h, e, R)
  PROVE  \A s \in SUBSET R : g[s] = h[s]
<1> DEFINE T == {n \in Nat : \A s \in SUBSET R : Cardinality(s) <= n => g[s] = h[s]}
<1>0. IsFiniteSet(R) /\ \A s \in SUBSET R : IsFiniteSet(s) /\ Cardinality(s) \in Nat
  BY FS_Subset, FS_CardinalityType
<1>1. 0 \in T
  <2>1. ASSUME NEW s \in SUBSET R, Cardinality(s) <= 0 PROVE g[s] = h[s]
    <3>1. s = {}
      BY <1>0, <2>1, FS_EmptySet
    <3>2. QED
      BY <3>1 DEF Follows
  <2>2. QED
    BY <2>1
<1>2. ASSUME NEW n \in Nat, n \in T PROVE n + 1 \in T
  <2>0. g[{}] = h[{}]
    BY DEF Follows
  <2> SUFFICES ASSUME NEW s \in SUBSET R, Cardinality(s) <= n + 1, s # {}
               PROVE  g[s] = h[s]
    BY <2>0
  <2> DEFINE y == Picked(s)
  <2>1. y \in s /\ g[s] = f[y] + g[s \ {y}] /\ h[s] = e[y] + h[s \ {y}]
    BY PickedIn DEF Follows
  <2> HIDE DEF y
  <2>2. Cardinality(s \ {y}) <= n
    BY <1>0, <2>1, Shrinks
  <2>3. g[s \ {y}] = h[s \ {y}]
    BY <1>2, <2>2
  <2>4. QED
    BY <2>1, <2>3
<1>3. Cardinality(R) \in T
  <2> HIDE DEF T
  <2>1. QED
    BY <1>0, <1>1, <1>2, NatsByOne, FS_CardinalityType
<1>4. ASSUME NEW s \in SUBSET R PROVE Cardinality(s) <= Cardinality(R)
  BY <1>0, FS_Subset
<1>5. QED
  BY <1>3, <1>4


(* One more element.                                                       *)
LEMMA OneMore ==
  ASSUME NEW S, IsFiniteSet(S), NEW x, x \notin S, NEW R, R = S \cup {x},
         NEW f, f \in [R -> Int], NEW e, e \in [S -> Int], \A s \in S : e[s] = f[s],
         NEW g, Adds(g, e, S), NEW h, Adds(h, f, R)
  PROVE  h[R] = g[S] + f[x] /\ g[S] \in Int
<1>1. IsFiniteSet(R)
  BY FS_AddElement
<1>2. R \in SUBSET R /\ S \in SUBSET R /\ S \in SUBSET S /\ x \in R /\ R \ {x} = S
  OBVIOUS
<1>3. h[R] = f[x] + h[R \ {x}]
  BY <1>1, <1>2, AnyOrder
<1>4. h[S] = g[S]
  <2>1. Follows(h, f, R) /\ Follows(g, e, S)
    BY DEF Adds
  <2>2. QED
    BY <1>1, <1>2, <2>1, SameSum
<1>5. g[S] \in Int /\ f[x] \in Int
  BY <1>2 DEF Adds
<1>6. h[R] = f[x] + g[S]
  BY <1>2, <1>3, <1>4
<1>7. QED
  BY <1>5, <1>6

(* The times of a set of spans, and the calls they count.                  *)
Durs(S) == MapThenSumSet(LAMBDA s : s.dur, S)
Calls(S) == MapThenSumSet(LAMBDA s : s.inner + 1, S)

(* They are the sums of the times ...                                      *)
LEMMA DursAdds ==
  ASSUME NEW S, IsFiniteSet(S), \A s \in S : s.dur \in Int
  PROVE  \E g : Adds(g, [s \in S |-> s.dur], S) /\ Durs(S) = g[S]
<1> DEFINE f == [s \in S |-> s.dur]
           Body(g) == [s \in SUBSET S |-> IF s = {} THEN 0 ELSE Picked(s).dur + g[s \ {Picked(s)}]]
           h == CHOOSE g : g = Body(g)
<1>1. f \in [S -> Int]
  OBVIOUS
<1>2. PICK g : Adds(g, f, S)
  BY <1>1, AdderExists
<1>3. ASSUME NEW s \in SUBSET S, s # {}
      PROVE  f[Picked(s)] = Picked(s).dur
  BY <1>3, PickedIn
<1>4. g = Body(g)
  <2>1. \A s \in SUBSET S : g[s] = Body(g)[s]
    BY <1>2, <1>3 DEF Adds, Follows
  <2>2. g \in [SUBSET S -> Int]
    BY <1>2 DEF Adds
  <2>3. QED
    BY <2>1, <2>2
<1>5. h = Body(h)
  <2> HIDE DEF Body
  <2>1. QED
    BY <1>4, Zenon
<1>6. Durs(S) = h[S]
  BY Zenon DEF Durs, MapThenSumSet, MapThenFoldSet, Picked
<1> HIDE DEF h
<1>7. Follows(h, f, S)
  <2> SUFFICES ASSUME NEW s \in SUBSET S
               PROVE  h[s] = IF s = {} THEN 0 ELSE f[Picked(s)] + h[s \ {Picked(s)}]
    BY DEF Follows
  <2>1. h[s] = Body(h)[s]
    <3> HIDE DEF Body
    <3>1. QED
      BY <1>5
  <2>2. QED
    BY <1>3, <2>1
<1>8. h[S] = g[S]
  <2>1. Follows(g, f, S)
    BY <1>2 DEF Adds
  <2> HIDE DEF f
  <2>2. QED
    BY <1>1, <1>7, <2>1, SameSum
<1>9. QED
  BY <1>2, <1>6, <1>8

(* ... and of the calls.                                                   *)
LEMMA CallsAdds ==
  ASSUME NEW S, IsFiniteSet(S), \A s \in S : s.inner \in Int
  PROVE  \E g : Adds(g, [s \in S |-> s.inner + 1], S) /\ Calls(S) = g[S]
<1> DEFINE f == [s \in S |-> s.inner + 1]
           Body(g) == [s \in SUBSET S |-> IF s = {} THEN 0
                                       ELSE (Picked(s).inner + 1) + g[s \ {Picked(s)}]]
           h == CHOOSE g : g = Body(g)
<1>1. f \in [S -> Int]
  OBVIOUS
<1>2. PICK g : Adds(g, f, S)
  BY <1>1, AdderExists
<1>3. ASSUME NEW s \in SUBSET S, s # {}
      PROVE  f[Picked(s)] = (Picked(s).inner + 1)
  BY <1>3, PickedIn
<1>4. g = Body(g)
  <2>1. \A s \in SUBSET S : g[s] = Body(g)[s]
    BY <1>2, <1>3 DEF Adds, Follows
  <2>2. g \in [SUBSET S -> Int]
    BY <1>2 DEF Adds
  <2>3. QED
    BY <2>1, <2>2
<1>5. h = Body(h)
  <2> HIDE DEF Body
  <2>1. QED
    BY <1>4, Zenon
<1>6. Calls(S) = h[S]
  BY Zenon DEF Calls, MapThenSumSet, MapThenFoldSet, Picked
<1> HIDE DEF h
<1>7. Follows(h, f, S)
  <2> SUFFICES ASSUME NEW s \in SUBSET S
               PROVE  h[s] = IF s = {} THEN 0 ELSE f[Picked(s)] + h[s \ {Picked(s)}]
    BY DEF Follows
  <2>1. h[s] = Body(h)[s]
    <3> HIDE DEF Body
    <3>1. QED
      BY <1>5
  <2>2. QED
    BY <1>3, <2>1
<1>8. h[S] = g[S]
  <2>1. Follows(g, f, S)
    BY <1>2 DEF Adds
  <2> HIDE DEF f
  <2>2. QED
    BY <1>1, <1>7, <2>1, SameSum
<1>9. QED
  BY <1>2, <1>6, <1>8

(* One more span adds its time ...                                         *)
LEMMA DursGrow ==
  ASSUME NEW S, IsFiniteSet(S), NEW x, x \notin S, \A s \in S \cup {x} : s.dur \in Int
  PROVE  Durs(S \cup {x}) = Durs(S) + x.dur /\ Durs(S) \in Int
<1> DEFINE R == S \cup {x}
           f == [s \in R |-> s.dur]
           e == [s \in S |-> s.dur]
<1>1. IsFiniteSet(R)
  BY FS_AddElement
<1>2. PICK h : Adds(h, f, R) /\ Durs(R) = h[R]
  BY <1>1, DursAdds
<1>3. PICK g : Adds(g, e, S) /\ Durs(S) = g[S]
  BY DursAdds
<1>4. f \in [R -> Int] /\ e \in [S -> Int] /\ (\A s \in S : e[s] = f[s]) /\ f[x] = x.dur
  OBVIOUS
<1>0. R = S \cup {x}
  OBVIOUS
<1> HIDE DEF f, e, R
<1>5. h[R] = g[S] + f[x] /\ g[S] \in Int
  BY <1>0, <1>2, <1>3, <1>4, OneMore
<1>6. QED
  BY <1>0, <1>2, <1>3, <1>4, <1>5

(* ... and its calls.                                                      *)
LEMMA CallsGrow ==
  ASSUME NEW S, IsFiniteSet(S), NEW x, x \notin S, \A s \in S \cup {x} : s.inner \in Int
  PROVE  Calls(S \cup {x}) = Calls(S) + (x.inner + 1) /\ Calls(S) \in Int
<1> DEFINE R == S \cup {x}
           f == [s \in R |-> s.inner + 1]
           e == [s \in S |-> s.inner + 1]
<1>1. IsFiniteSet(R)
  BY FS_AddElement
<1>2. PICK h : Adds(h, f, R) /\ Calls(R) = h[R]
  BY <1>1, CallsAdds
<1>3. PICK g : Adds(g, e, S) /\ Calls(S) = g[S]
  BY CallsAdds
<1>4. f \in [R -> Int] /\ e \in [S -> Int] /\ (\A s \in S : e[s] = f[s]) /\ f[x] = (x.inner + 1)
  OBVIOUS
<1>0. R = S \cup {x}
  OBVIOUS
<1> HIDE DEF f, e, R
<1>5. h[R] = g[S] + f[x] /\ g[S] \in Int
  BY <1>0, <1>2, <1>3, <1>4, OneMore
<1>6. QED
  BY <1>0, <1>2, <1>3, <1>4, <1>5

(* No span takes no time.                                                  *)
LEMMA NoneSums == Durs({}) = 0 /\ Calls({}) = 0
<1>1. IsFiniteSet({})
  BY FS_EmptySet
<1>2. PICK g : Adds(g, [s \in {} |-> s.dur], {}) /\ Durs({}) = g[{}]
  BY <1>1, DursAdds
<1>3. PICK h : Adds(h, [s \in {} |-> s.inner + 1], {}) /\ Calls({}) = h[{}]
  BY <1>1, CallsAdds
<1>4. QED
  BY <1>2, <1>3 DEF Adds, Follows

(* They are numbers.                                                       *)
LEMMA SumsTyped ==
  ASSUME NEW S, IsFiniteSet(S), S \subseteq Records
  PROVE  Durs(S) \in Int /\ Calls(S) \in Int
<1>1. \A s \in S : s.dur \in Int /\ s.inner \in Int
  BY DEF Records
<1>2. \E g : Adds(g, [s \in S |-> s.dur], S) /\ Durs(S) = g[S]
  BY <1>1, DursAdds
<1>3. \E g : Adds(g, [s \in S |-> s.inner + 1], S) /\ Calls(S) = g[S]
  BY <1>1, CallsAdds
<1>4. ASSUME NEW f, NEW g, Adds(g, f, S)
      PROVE  g[S] \in Int
  BY <1>4 DEF Adds
<1>5. QED
  BY <1>2, <1>3, <1>4

-----------------------------------------------------------------------------
(* Without fibers, what a function calls lasts no longer than it.          *)

(* The functions recorded under a caller.                                  *)
Recorded(id, sp) == {r \in ToSet(sp) : r.kind = "function" /\ r.parent = id}

(* They take no more than so much time, and so many calls.                 *)
FitIn(S, time, calls) == Durs(S) <= time /\ Calls(S) <= calls

(* When the function of frame i called the next one, or now ...            *)
Until(i, st, t) == IF i < Len(st) THEN st[i + 1].start ELSE t

(* ... and how many calls had been made.                                   *)
CallsUntil(i, st, ch) == IF i < Len(st) THEN st[i + 1].chiamate_inizio - 1 ELSE ch

(* What is recorded under a frame fits in what it has left to its callee,  *)
(* and what is recorded under a recorded function fits in it.              *)
Fitting ==
  ~ fibers =>
    /\ \A i \in 1 .. Len(stack) :
         FitIn(Recorded(stack[i].id, spans), Until(i, stack, now) - stack[i].start,
               CallsUntil(i, stack, chiamate) - stack[i].chiamate_inizio)
    /\ \A i \in 1 .. Len(spans) :
         spans[i].kind = "function"
           => FitIn(Recorded(spans[i].id, spans), spans[i].dur, spans[i].inner)

(* They are finitely many.                                                 *)
LEMMA RecordedFinite ==
  ASSUME NEW sp \in Seq(Records), NEW id
  PROVE  IsFiniteSet(Recorded(id, sp)) /\ Recorded(id, sp) \subseteq Records
<1>1. Len(sp) \in Nat /\ DOMAIN sp = 1 .. Len(sp) /\ \A i \in 1 .. Len(sp) : sp[i] \in Records
  OBVIOUS
<1>2. ToSet(sp) = {sp[i] : i \in 1 .. Len(sp)}
  BY <1>1 DEF ToSet
<1> DEFINE f == [i \in 1 .. Len(sp) |-> sp[i]]
<1>3. f \in Surjection(1 .. Len(sp), ToSet(sp))
  BY <1>2 DEF Surjection
<1>4. IsFiniteSet(1 .. Len(sp))
  BY <1>1, FS_Interval
<1> HIDE DEF f
<1>5. IsFiniteSet(ToSet(sp))
  BY <1>3, <1>4, FS_Surjection
<1>6. IsFiniteSet(Recorded(id, sp))
  BY <1>5, FS_Subset DEF Recorded
<1>7. QED
  BY <1>1, <1>2, <1>6 DEF Recorded

(* Where a call has just ended there is room for its span.                 *)
LEMMA OneMoreFits ==
  ASSUME NEW S, IsFiniteSet(S), S \subseteq Records, NEW x \in Records, x \notin S,
         NEW time \in Int, NEW calls \in Int, FitIn(S, time, calls)
  PROVE  FitIn(S \cup {x}, time + x.dur, calls + x.inner + 1)
<1>1. \A s \in S \cup {x} : s.dur \in Int /\ s.inner \in Int
  BY DEF Records
<1>2. Durs(S \cup {x}) = Durs(S) + x.dur /\ Durs(S) \in Int
  BY <1>1, DursGrow
<1>3. Calls(S \cup {x}) = Calls(S) + (x.inner + 1) /\ Calls(S) \in Int
  BY <1>1, CallsGrow
<1>4. x.dur \in Int /\ x.inner \in Int
  BY <1>1
<1>5. QED
  BY <1>2, <1>3, <1>4 DEF FitIn

(* What fits in some time fits in more.                                    *)
LEMMA MoreRoom ==
  ASSUME NEW S, IsFiniteSet(S), S \subseteq Records,
         NEW time \in Int, NEW calls \in Int, FitIn(S, time, calls),
         NEW later \in Int, NEW more \in Int, time <= later, calls <= more
  PROVE  FitIn(S, later, more)
BY SumsTyped DEF FitIn

(* Closing a span leaves the functions as they are.                        *)
LEMMA ClosingKeepsRecorded ==
  ASSUME Typed, Table, Closing, NEW id
  PROVE  Recorded(id, spans') = Recorded(id, spans)
<1>1. /\ Len(spans) \in Nat /\ DOMAIN spans = 1 .. Len(spans) /\ DOMAIN spans' = 1 .. Len(spans)
      /\ Len(spans') = Len(spans)
  BY DEF Typed, Closing
<1>2. ASSUME NEW i \in 1 .. Len(spans), spans'[i].kind = "function" \/ spans[i].kind = "function"
      PROVE  spans'[i] = spans[i]
  <2>1. spans[i].kind = "function"
    BY <1>2, ClosingKeeps
  <2>2. ~ spans[i].open
    BY <2>1 DEF Table, Known, Over
  <2>3. QED
    BY <2>2 DEF Closing
<1>3. /\ ToSet(spans) = {spans[i] : i \in 1 .. Len(spans)}
      /\ ToSet(spans') = {spans'[i] : i \in 1 .. Len(spans)}
  BY <1>1 DEF ToSet
<1>4. QED
  BY <1>2, <1>3 DEF Recorded

(* What one more span adds to what is recorded under a caller.             *)
LEMMA AppendRecorded ==
  ASSUME Typed, NEW r \in Records, spans' = Append(spans, r), NEW id
  PROVE  Recorded(id, spans') = IF r.kind = "function" /\ r.parent = id
                              THEN Recorded(id, spans) \cup {r} ELSE Recorded(id, spans)
<1>1. /\ spans \in Seq(Records) /\ Len(spans) \in Nat /\ Len(spans') = Len(spans) + 1
      /\ spans'[Len(spans) + 1] = r /\ spans' \in Seq(Records)
      /\ \A i \in 1 .. Len(spans) : spans'[i] = spans[i]
  BY Grows DEF Typed
<1>2. DOMAIN spans = 1 .. Len(spans) /\ DOMAIN spans' = 1 .. Len(spans) + 1
  BY <1>1
<1>3. ToSet(spans') = ToSet(spans) \cup {r}
  <2>1. ToSet(spans) = {spans[i] : i \in 1 .. Len(spans)}
    BY <1>2 DEF ToSet
  <2>2. ToSet(spans') = {spans'[i] : i \in 1 .. Len(spans) + 1}
    BY <1>2 DEF ToSet
  <2>3. 1 .. Len(spans) + 1 = (1 .. Len(spans)) \cup {Len(spans) + 1}
    BY <1>1
  <2>4. QED
    BY <1>1, <2>1, <2>2, <2>3
<1>4. QED
  BY <1>3 DEF Recorded

(* Nothing is recorded yet under a call that has not begun.                *)
LEMMA NothingRecorded ==
  ASSUME Typed, Table, NEW n, n = chiamate + 1
  PROVE  Recorded(<<"call", n>>, spans) = {}
<1> SUFFICES ASSUME NEW r \in Recorded(<<"call", n>>, spans)
             PROVE  FALSE
  OBVIOUS
<1>1. PICK i \in 1 .. Len(spans) : r = spans[i]
  BY Elements DEF Recorded, ToSet
<1>2. Called(<<"call", n>>, chiamate)
  BY <1>1 DEF Recorded, Table, Timely
<1>3. PICK k \in 1 .. chiamate : <<"call", n>> = <<"call", k>>
  BY <1>2 DEF Called, Root
<1>4. k = n /\ chiamate \in Nat
  BY <1>3 DEF Typed
<1>5. QED
  BY <1>3, <1>4

(* Numbers of the frames.                                                  *)
LEMMA FrameNumbers ==
  ASSUME Typed
  PROVE  /\ \A i \in 1 .. Len(stack) :
              /\ Until(i, stack, now) - stack[i].start \in Int
              /\ CallsUntil(i, stack, chiamate) - stack[i].chiamate_inizio \in Int
         /\ \A i \in 1 .. Len(spans) : spans[i].dur \in Int /\ spans[i].inner \in Int
<1>1. /\ Len(stack) \in Nat /\ now \in Nat /\ chiamate \in Nat
      /\ \A i \in 1 .. Len(stack) : stack[i].start \in Nat /\ stack[i].chiamate_inizio \in Nat
      /\ \A i \in 1 .. Len(spans) : spans[i] \in Records
  BY Elements
<1>2. \A i \in 1 .. Len(spans) : spans[i].dur \in Int /\ spans[i].inner \in Int
  BY <1>1 DEF Records
<1>3. \A i \in 1 .. Len(stack) : i < Len(stack) => i + 1 \in 1 .. Len(stack)
  BY <1>1
<1>4. QED
  BY <1>1, <1>2, <1>3 DEF Until, CallsUntil

(* The differences between three moments.                                  *)
LEMMA Differences ==
  ASSUME NEW x \in Nat, NEW y \in Nat, NEW z \in Nat, x <= y
  PROVE  /\ x - z \in Int /\ y - z \in Int /\ x - 1 - z \in Int
         /\ x - z <= y - z /\ x - 1 - z <= y - z
         /\ (x - z) + (y - x) = y - z /\ (x - 1 - z) + (y - x) + 1 = y - z
OBVIOUS

(* Time goes by, and calls that are skipped are made.                      *)
LEMMA FittingWaits ==
  ASSUME Typed, Typed', Fitting, ~ fibers, UNCHANGED <<stack, spans>>,
         now <= now', chiamate <= chiamate'
  PROVE  Fitting'
<1>1. ASSUME NEW i \in 1 .. Len(stack)
      PROVE  FitIn(Recorded(stack[i].id, spans), Until(i, stack, now') - stack[i].start,
                   CallsUntil(i, stack, chiamate') - stack[i].chiamate_inizio)
  <2> DEFINE a == Until(i, stack, now) - stack[i].start
             b == CallsUntil(i, stack, chiamate) - stack[i].chiamate_inizio
             c == Until(i, stack, now') - stack[i].start
             d == CallsUntil(i, stack, chiamate') - stack[i].chiamate_inizio
             S == Recorded(stack[i].id, spans)
  <2>1. a \in Int /\ b \in Int
    BY FrameNumbers
  <2>2. /\ stack[i].start \in Nat /\ stack[i].chiamate_inizio \in Nat
        /\ now \in Nat /\ now' \in Nat /\ chiamate \in Nat /\ chiamate' \in Nat
    BY Elements DEF Typed
  <2>3. CASE i < Len(stack)
    BY <2>3 DEF Fitting, Until, CallsUntil
  <2>4. CASE ~ (i < Len(stack))
    <3>1. c = now' - stack[i].start /\ d = chiamate' - stack[i].chiamate_inizio
          /\ a = now - stack[i].start /\ b = chiamate - stack[i].chiamate_inizio
      BY <2>4 DEF Until, CallsUntil
    <3>2. FitIn(S, a, b) /\ IsFiniteSet(S) /\ S \subseteq Records
      BY RecordedFinite DEF Fitting, Typed
    <3> HIDE DEF S
    <3> DEFINE x == stack[i].start
               y == stack[i].chiamate_inizio
    <3> HIDE DEF a, b, c, d, x, y
    <3>3. /\ x \in Nat /\ y \in Nat /\ c = now' - x /\ d = chiamate' - y
          /\ a = now - x /\ b = chiamate - y
      BY <2>2, <3>1 DEF x, y
    <3>5. c \in Int /\ a <= c
      BY <2>2, <3>3, Differences
    <3>6. d \in Int /\ b <= d
      BY <2>2, <3>3, Differences
    <3>4. FitIn(S, c, d)
      BY <2>1, <3>2, <3>5, <3>6, MoreRoom
    <3>7. QED
      BY <3>4 DEF S, c, d
  <2>5. QED
    BY <2>3, <2>4
<1>2. QED
  BY <1>1 DEF Fitting

(* A function that is called has everything before it.                     *)
LEMMA FittingBegins ==
  ASSUME Typed, Typed', Chain, Table, Fitting, ~ fibers, UNCHANGED <<spans, now>>,
         chiamate' = chiamate + 1, stack' = Append(stack, NewFrame)
  PROVE  Fitting'
<1> DEFINE m == Len(stack)
           n == m + 1
<1>1. /\ m \in Nat /\ Len(stack') = n /\ stack'[n] = NewFrame
      /\ \A i \in 1 .. m : stack'[i] = stack[i]
  BY NewFrameTyped, Grows DEF Typed
<1>2. /\ stack'[n].id = <<"call", chiamate + 1>> /\ stack'[n].start = now
      /\ stack'[n].chiamate_inizio = chiamate + 1 /\ now \in Nat /\ chiamate \in Nat
  BY <1>1 DEF NewFrame, Typed
<1>3. ASSUME NEW i \in 1 .. n
      PROVE  FitIn(Recorded(stack'[i].id, spans), Until(i, stack', now) - stack'[i].start,
                   CallsUntil(i, stack', chiamate') - stack'[i].chiamate_inizio)
  <2>1. CASE i = n
    <3>1. Recorded(stack'[i].id, spans) = {}
      BY <1>2, <2>1, NothingRecorded
    <3>2. Until(i, stack', now) = now /\ CallsUntil(i, stack', chiamate') = chiamate + 1
      BY <1>1, <2>1 DEF Until, CallsUntil
    <3>3. now - now = 0 /\ (chiamate + 1) - (chiamate + 1) = 0
      BY <1>2
    <3>4. FitIn({}, 0, 0)
      BY NoneSums DEF FitIn
    <3>5. QED
      BY <1>2, <2>1, <3>1, <3>2, <3>3, <3>4
  <2>2. CASE i # n
    <3>1. i \in 1 .. m
      BY <1>1, <2>2
    <3>2. Until(i, stack', now) = Until(i, stack, now)
      <4>1. CASE i = m
        BY <1>1, <1>2, <4>1 DEF Until
      <4>2. CASE i # m
        <5>1. i + 1 \in 1 .. m /\ i < m /\ i < n
          BY <1>1, <3>1, <4>2
        <5>2. QED
          BY <1>1, <5>1 DEF Until
      <4>3. QED
        BY <4>1, <4>2
    <3>3. CallsUntil(i, stack', chiamate') = CallsUntil(i, stack, chiamate)
      <4>1. CASE i = m
        <5>1. (chiamate + 1) - 1 = chiamate
          BY <1>2
        <5>2. QED
          BY <1>1, <1>2, <4>1, <5>1 DEF CallsUntil
      <4>2. CASE i # m
        <5>1. i + 1 \in 1 .. m /\ i < m /\ i < n
          BY <1>1, <3>1, <4>2
        <5>2. QED
          BY <1>1, <5>1 DEF CallsUntil
      <4>3. QED
        BY <4>1, <4>2
    <3>4. QED
      BY <1>1, <3>1, <3>2, <3>3 DEF Fitting
  <2>3. QED
    BY <2>1, <2>2
<1>4. QED
  BY <1>1, <1>3 DEF Fitting

(* The caller of a function that ends, or the frames when nothing is       *)
(* recorded, have what it took behind them.                                *)
LEMMA FittingEnds ==
  ASSUME Typed, Typed', Chain, Table, Fitting, ~ fibers,
         Len(stack) \in 1 .. Len(stack), Ends(Len(stack))
  PROVE  Fitting'
<1> DEFINE m == Len(stack)
           f == stack[m]
           r == Emitted(f)
<1>1. /\ m \in Nat \ {0} /\ Len(stack') = m - 1 /\ f \in Frames /\ UNCHANGED <<chiamate, now>>
      /\ Emit(f) /\ \A i \in 1 .. m - 1 : stack'[i] = stack[i] /\ i \in 1 .. m
  BY Elements DEF Ends
<1>2. /\ now \in Nat /\ chiamate \in Nat /\ spans \in Seq(Records)
      /\ \A i \in 1 .. m : stack[i].start \in Nat /\ stack[i].chiamate_inizio \in Nat
  BY Elements DEF Typed
<1>3. f.start <= now /\ f.chiamate_inizio <= chiamate
  BY <1>1, <1>2 DEF Chain
<1>4. Until(m, stack, now) = now /\ CallsUntil(m, stack, chiamate) = chiamate
  BY DEF Until, CallsUntil
<1>5. r \in Records /\ (UNCHANGED spans \/ spans' = Append(spans, r))
  BY <1>1, EmitAdds, AddSpanTyped DEF spanVars
<1>6. /\ r.kind = "function" /\ r.id = f.id /\ r.parent = f.parent /\ r.dur = now - f.start
      /\ r.inner = chiamate - f.chiamate_inizio
  BY DEF Emitted, CallsInside
<1>7. f.id = <<"call", f.chiamate_inizio>> /\ f.parent = IF m = 1 THEN Root ELSE stack[m - 1].id
  BY <1>1 DEF Chain
<1>8. \A i \in 1 .. m : stack[i].id = <<"call", stack[i].chiamate_inizio>>
  BY DEF Chain
<1>9. \A i \in 1 .. m - 1 : i < m /\ (i # m - 1 => i + 1 \in 1 .. m - 1 /\ i < m - 1)
  BY <1>1
<1> DEFINE Room(i, S, t, ch) ==
             FitIn(S, t - stack[i].start, ch - stack[i].chiamate_inizio)
<1>10. ASSUME NEW i \in 1 .. m - 1, i # m - 1
       PROVE  Until(i, stack', now) = Until(i, stack, now)
              /\ CallsUntil(i, stack', chiamate) = CallsUntil(i, stack, chiamate)
  <2>1. i + 1 \in 1 .. m - 1 /\ i < m - 1 /\ i < m
    BY <1>9, <1>10
  <2>2. QED
    BY <1>1, <2>1 DEF Until, CallsUntil
<1>11. ASSUME m # 1
       PROVE  LET i == m - 1 IN
              /\ i \in 1 .. m - 1 /\ i \in 1 .. m
              /\ Until(i, stack', now) = now /\ CallsUntil(i, stack', chiamate) = chiamate
              /\ Until(i, stack, now) = f.start
              /\ CallsUntil(i, stack, chiamate) = f.chiamate_inizio - 1
  <2>1. m - 1 \in 1 .. m - 1 /\ m - 1 < m /\ (m - 1) + 1 = m
    BY <1>1, <1>11
  <2>2. QED
    BY <1>1, <2>1 DEF Until, CallsUntil
<1>12. ASSUME m # 1
       PROVE  LET i == m - 1
                  S == Recorded(stack[i].id, spans)
              IN  /\ FitIn(S, now - stack[i].start, chiamate - stack[i].chiamate_inizio)
                  /\ r \notin S => FitIn(S \cup {r}, now - stack[i].start,
                                       chiamate - stack[i].chiamate_inizio)
  <2> DEFINE i == m - 1
             S == Recorded(stack[i].id, spans)
             a == stack[i].start
             b == stack[i].chiamate_inizio
  <2>1. a \in Nat /\ b \in Nat /\ f.start \in Nat /\ f.chiamate_inizio \in Nat
    BY <1>1, <1>2, <1>11, <1>12
  <2>2. FitIn(S, f.start - a, f.chiamate_inizio - 1 - b)
    BY <1>11, <1>12 DEF Fitting
  <2>3. IsFiniteSet(S) /\ S \subseteq Records
    BY <1>2, RecordedFinite
  <2> HIDE DEF i, S, a, b, f, r, m
  <2>4. /\ f.start - a \in Int /\ f.chiamate_inizio - 1 - b \in Int
        /\ now - a \in Int /\ chiamate - b \in Int
        /\ f.start - a <= now - a /\ f.chiamate_inizio - 1 - b <= chiamate - b
    <3>1. now \in Nat /\ chiamate \in Nat
      BY <1>2
    <3>2. f.start - a \in Int /\ now - a \in Int /\ f.start - a <= now - a
      BY <1>3, <2>1, <3>1, Differences
    <3>3. /\ f.chiamate_inizio - 1 - b \in Int /\ chiamate - b \in Int
          /\ f.chiamate_inizio - 1 - b <= chiamate - b
      BY <1>3, <2>1, <3>1, Differences
    <3>4. QED
      BY <3>2, <3>3
  <2>5. (f.start - a) + r.dur = now - a /\ (f.chiamate_inizio - 1 - b) + r.inner + 1 = chiamate - b
    <3>1. now \in Nat /\ chiamate \in Nat
      BY <1>2
    <3>2. r.dur = now - f.start /\ r.inner = chiamate - f.chiamate_inizio
      BY <1>6
    <3>3. (f.start - a) + (now - f.start) = now - a
      BY <1>3, <2>1, <3>1, Differences
    <3>4. (f.chiamate_inizio - 1 - b) + (chiamate - f.chiamate_inizio) + 1 = chiamate - b
      BY <1>3, <2>1, <3>1, Differences
    <3>5. QED
      BY <3>2, <3>3, <3>4
  <2>6. FitIn(S, now - a, chiamate - b)
    BY <2>2, <2>3, <2>4, MoreRoom
  <2>7. r \notin S => FitIn(S \cup {r}, now - a, chiamate - b)
    <3>1. SUFFICES ASSUME r \notin S PROVE FitIn(S \cup {r}, now - a, chiamate - b)
      OBVIOUS
    <3>2. FitIn(S \cup {r}, (f.start - a) + r.dur, (f.chiamate_inizio - 1 - b) + r.inner + 1)
      BY <1>5, <2>2, <2>3, <2>4, <3>1, OneMoreFits
    <3>3. QED
      BY <2>5, <3>2
  <2>8. QED
    BY <2>6, <2>7 DEF i, S, a, b
<1>13. CASE UNCHANGED spans
  <2>1. ASSUME NEW i \in 1 .. m - 1
        PROVE  FitIn(Recorded(stack'[i].id, spans), Until(i, stack', now) - stack'[i].start,
                     CallsUntil(i, stack', chiamate) - stack'[i].chiamate_inizio)
    <3>1. CASE i = m - 1
      <4>1. m # 1
        BY <1>1, <3>1
      <4>2. stack'[i] = stack[i]
        BY <1>1
      <4>3. Until(i, stack', now) = now /\ CallsUntil(i, stack', chiamate) = chiamate
        BY <1>11, <3>1, <4>1
      <4>4. FitIn(Recorded(stack[i].id, spans), now - stack[i].start,
                  chiamate - stack[i].chiamate_inizio)
        BY <1>12, <3>1, <4>1
      <4>5. QED
        BY <4>2, <4>3, <4>4
    <3>2. CASE i # m - 1
      BY <1>1, <1>10, <3>2 DEF Fitting
    <3>3. QED
      BY <3>1, <3>2
  <2>2. QED
    BY <1>1, <1>13, <2>1 DEF Fitting
<1>14. CASE spans' = Append(spans, r)
  <2> DEFINE S(id) == Recorded(id, spans)
             Z(id) == Recorded(id, spans')
  <2>1. \A id : Z(id) = IF f.parent = id THEN S(id) \cup {r} ELSE S(id)
    BY <1>5, <1>6, <1>14, AppendRecorded
  <2>2. \A i \in 1 .. Len(spans) : spans[i].kind = "function" =>
          spans[i].id # f.id /\ spans[i].id # f.parent
    <3> SUFFICES ASSUME NEW i \in 1 .. Len(spans), spans[i].kind = "function"
                 PROVE  spans[i].id # f.id /\ spans[i].id # f.parent
      OBVIOUS
    <3>1. Over(spans[i], chiamate, stack, all)
      BY DEF Table, Known
    <3>2. spans[i].id # Root /\ \A j \in 1 .. m : stack[j].id # spans[i].id
      BY <3>1 DEF Over, Root
    <3>3. m # 1 => m - 1 \in 1 .. m
      BY <1>11
    <3>4. QED
      BY <1>1, <1>7, <3>2, <3>3
  <2>3. r \notin S(f.parent)
    <3>1. SUFFICES ASSUME r \in S(f.parent) PROVE FALSE
      OBVIOUS
    <3>2. PICK i \in 1 .. Len(spans) : r = spans[i]
      BY <3>1, Elements DEF Recorded, ToSet
    <3>3. QED
      BY <1>6, <2>2, <3>2
  <2>4. f.parent # f.id
    <3>1. CASE m = 1
      BY <1>7, <3>1 DEF Root
    <3>2. CASE m # 1
      <4>1. m - 1 \in 1 .. m /\ m - 1 < m
        BY <1>1, <1>11, <3>2
      <4>2. stack[m - 1].chiamate_inizio < f.chiamate_inizio
        BY <1>1, <4>1 DEF Chain
      <4>3. QED
        BY <1>2, <1>7, <1>8, <3>2, <4>1, <4>2
    <3>3. QED
      BY <3>1, <3>2
  <2>5. ASSUME NEW i \in 1 .. m - 1
        PROVE  FitIn(Z(stack'[i].id), Until(i, stack', now) - stack'[i].start,
                     CallsUntil(i, stack', chiamate) - stack'[i].chiamate_inizio)
    <3>1. CASE i = m - 1
      <4>1. m # 1
        BY <1>1, <3>1
      <4>2. Z(stack[i].id) = S(stack[i].id) \cup {r} /\ r \notin S(stack[i].id)
        BY <1>7, <2>1, <2>3, <3>1, <4>1
      <4>3. stack'[i] = stack[i]
        BY <1>1
      <4>4. Until(i, stack', now) = now /\ CallsUntil(i, stack', chiamate) = chiamate
        BY <1>11, <3>1, <4>1
      <4>5. FitIn(S(stack[i].id) \cup {r}, now - stack[i].start,
                  chiamate - stack[i].chiamate_inizio)
        BY <1>12, <3>1, <4>1, <4>2
      <4>6. QED
        BY <4>2, <4>3, <4>4, <4>5
    <3>2. CASE i # m - 1
      <4>1. stack[i].id # f.parent
        <5>1. CASE m = 1
          BY <1>7, <1>8, <1>1, <5>1 DEF Root
        <5>2. CASE m # 1
          <6>1. i \in 1 .. m /\ m - 1 \in 1 .. m /\ i < m - 1
            BY <1>1, <1>9, <1>11, <3>2, <5>2
          <6>2. stack[i].chiamate_inizio < stack[m - 1].chiamate_inizio
            BY <6>1 DEF Chain
          <6>3. QED
            BY <1>2, <1>7, <1>8, <5>2, <6>1, <6>2
        <5>3. QED
          BY <5>1, <5>2
      <4>2. Z(stack[i].id) = S(stack[i].id)
        BY <2>1, <4>1
      <4>3. QED
        BY <1>1, <1>10, <3>2, <4>2 DEF Fitting
    <3>3. QED
      BY <3>1, <3>2
  <2>6. ASSUME NEW i \in 1 .. Len(spans'), spans'[i].kind = "function"
        PROVE  FitIn(Z(spans'[i].id), spans'[i].dur, spans'[i].inner)
    <3>1. /\ Len(spans') = Len(spans) + 1 /\ spans'[Len(spans) + 1] = r /\ Len(spans) \in Nat
          /\ \A j \in 1 .. Len(spans) : spans'[j] = spans[j]
      BY <1>2, <1>5, <1>14, Grows
    <3>2. CASE i = Len(spans) + 1
      <4>1. Z(f.id) = S(f.id)
        BY <2>1, <2>4
      <4>2. FitIn(S(f.id), now - f.start, chiamate - f.chiamate_inizio)
        BY <1>1, <1>4 DEF Fitting
      <4>3. QED
        BY <1>6, <3>1, <3>2, <4>1, <4>2
    <3>3. CASE i # Len(spans) + 1
      <4>1. i \in 1 .. Len(spans) /\ spans'[i] = spans[i]
        BY <3>1, <3>3
      <4>2. Z(spans[i].id) = S(spans[i].id)
        BY <2>1, <2>2, <2>6, <4>1
      <4>3. QED
        BY <2>6, <4>1, <4>2 DEF Fitting
    <3>4. QED
      BY <3>2, <3>3
  <2>7. QED
    BY <1>1, <2>5, <2>6 DEF Fitting
<1>15. QED
  BY <1>5, <1>13, <1>14

(* No step gives a function more than it took.                             *)
LEMMA FittingNext ==
  ASSUME Typed, Typed', Chain, Table, Matched, Fitting, [Next]_vars
  PROVE  Fitting'
<1>0. now \in Nat /\ chiamate \in Nat
  BY DEF Typed
<1>1. CASE Starts
  <2>1. Len(spans') = 0 /\ Len(stack') = 0
    BY <1>1 DEF Starts
  <2>2. QED
    BY <2>1 DEF Fitting
<1>2. CASE fibers /\ UNCHANGED fibers
  BY <1>2 DEF Fitting
<1>3. CASE ~ fibers /\ Quiet
  BY <1>0, <1>3, FittingWaits DEF Quiet
<1>4. CASE ~ fibers /\ Begins
  <2>1. UNCHANGED <<spans, now>> /\ chiamate' = chiamate + 1
    BY <1>4 DEF Begins
  <2>2. now <= now' /\ chiamate <= chiamate'
    BY <1>0, <2>1
  <2>3. CASE stack' = stack
    BY <1>4, <2>1, <2>2, <2>3, FittingWaits
  <2>4. CASE stack' = Append(stack, NewFrame)
    BY <1>4, <2>1, <2>4, FittingBegins
  <2>5. QED
    BY <1>4, <2>3, <2>4 DEF Begins
<1>5. CASE ~ fibers /\ Len(stack) \in 1 .. Len(stack) /\ Ends(Len(stack))
  BY <1>5, FittingEnds
<1>6. CASE ~ fibers /\ Opens
  <2>1. PICK kind \in {"hook", "api"} : OpenSpan(kind)
    BY <1>6 DEF Opens
  <2> DEFINE r == Opened(kind)
  <2>2. r \in Records /\ AddSpan(r) /\ r.kind # "function"
    BY <2>1, OpenSpanAdds DEF Opened
  <2>3. UNCHANGED <<stack, now, chiamate>>
    BY <1>6 DEF Opens
  <2> HIDE DEF r
  <2>4. CASE UNCHANGED spans
    BY <1>6, <2>3, <2>4 DEF Fitting
  <2>5. CASE spans' = Append(spans, r)
    <3>1. \A id : Recorded(id, spans') = Recorded(id, spans)
      BY <2>2, <2>5, AppendRecorded
    <3>2. /\ Len(spans') = Len(spans) + 1 /\ spans'[Len(spans) + 1] = r /\ Len(spans) \in Nat
          /\ \A j \in 1 .. Len(spans) : spans'[j] = spans[j]
      BY <2>2, <2>5, Grows DEF Typed
    <3>3. \A i \in 1 .. Len(spans') : spans'[i].kind = "function" =>
            i \in 1 .. Len(spans) /\ spans'[i] = spans[i]
      <4> SUFFICES ASSUME NEW i \in 1 .. Len(spans) + 1, spans'[i].kind = "function"
                   PROVE  i \in 1 .. Len(spans) /\ spans'[i] = spans[i]
        BY <3>2
      <4>1. i # Len(spans) + 1
        BY <2>2, <3>2
      <4>2. QED
        BY <3>2, <4>1
    <3>4. QED
      BY <1>6, <2>3, <3>1, <3>3 DEF Fitting
  <2>6. QED
    BY <2>2, <2>4, <2>5, AddSpanTyped
<1>7. CASE ~ fibers /\ Closes
  <2>1. /\ UNCHANGED <<stack, now, chiamate>> /\ Closing /\ Len(spans') = Len(spans)
        /\ \A i \in 1 .. Len(spans) : spans'[i].kind = spans[i].kind
    BY <1>7, ClosingKeeps DEF Closes, Closing
  <2>2. \A id : Recorded(id, spans') = Recorded(id, spans)
    BY <2>1, ClosingKeepsRecorded
  <2>3. \A i \in 1 .. Len(spans) : spans[i].kind = "function" => spans'[i] = spans[i]
    BY <2>1 DEF Closing, Table, Known, Over
  <2>4. QED
    BY <1>7, <2>1, <2>2, <2>3 DEF Fitting
<1>8. fibers /\ ~ Starts => UNCHANGED fibers
  BY DEF Next, vars, modeVars, Call, Return, EnterHook, LeaveHook, StartSpan, EndSpan, Tick,
         Switch, Bailout, AbandonHook, Unwound, RequestStart, RequestShutdown, PostDeactivate,
         Starts, observerVars, spanVars
<1>9. fibers \in BOOLEAN
  BY DEF Typed
<1>10. QED
  BY <1>1, <1>2, <1>3, <1>4, <1>5, <1>6, <1>7, <1>8, <1>9, KindsOfMain

(* Without fibers the functions called directly by another one last no     *)
(* longer than it, all together, and count no more calls:                  *)
(* orma_observer_end takes the duration and the calls inside from the frame that ends, whose *)
(* caller is the frame below it and ends later, and the table has one span *)
(* for each call at most, however many are skipped, too fast to be         *)
(* recorded or refused by a full table.                                    *)
THEOREM ChildrenLieWithin == Spec => []ChildrenFit
<1>1. Init => Fitting /\ Matched
  <2> SUFFICES ASSUME Init PROVE Fitting /\ Matched
    OBVIOUS
  <2>1. Len(spans) = 0 /\ Len(stack) = 0 /\ phase = "idle"
    BY DEF Init
  <2>2. QED
    BY <2>1 DEF Fitting, Matched
<1>2. Base /\ Matched /\ Fitting /\ [Next]_vars => (Base /\ Matched /\ Fitting)'
  BY BaseNext, MatchedNext, FittingNext DEF Base
<1>3. Base /\ Fitting => ChildrenFit
  <2> SUFFICES ASSUME Base, Fitting, ~ fibers, NEW p \in Functions
               PROVE  LET children == {s \in Functions : s.parent = p.id}
                      IN  /\ MapThenSumSet(LAMBDA s : s.dur, children) <= p.dur
                          /\ MapThenSumSet(LAMBDA s : s.inner + 1, children) <= p.inner
    BY DEF ChildrenFit
  <2>1. DOMAIN spans = 1 .. Len(spans)
    BY Elements DEF Base
  <2>2. PICK i \in 1 .. Len(spans) : p = spans[i] /\ spans[i].kind = "function"
    BY <2>1 DEF Functions, ToSet
  <2>3. FitIn(Recorded(p.id, spans), p.dur, p.inner)
    BY <2>2 DEF Fitting
  <2>4. {s \in Functions : s.parent = p.id} = Recorded(p.id, spans)
    BY DEF Functions, Recorded
  <2>5. QED
    BY <2>3, <2>4 DEF FitIn, Durs, Calls
<1>4. QED
  BY <1>1, <1>2, <1>3, BaseInit, PTL DEF Spec

(* The durations the waterfall subtracts from one another: without fibers  *)
(* the functions and the hooked calls shown under a function lie within it *)
(* in time, so that no self time is negative.                              *)
THEOREM WaterfallAddsUp == Spec => []SpansNest
<1>1. ChildrenFit /\ HooksNest => SpansNest
  BY DEF SpansNest
<1>2. QED
  BY <1>1, ChildrenLieWithin, HooksLieWithin, PTL
=============================================================================
