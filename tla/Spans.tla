-------------------------------- MODULE Spans --------------------------------
(***************************************************************************)
(* The spans of one PHP request: the observer of user functions            *)
(* (ext/orma_observer.c), the table of spans (ext/orma_span.c), the hooks  *)
(* around database and network calls (ext/orma_hooks.c), the spans of the  *)
(* PHP API (ext/orma_api.c) and the request callbacks (ext/orma.c).        *)
(*                                                                         *)
(* PHP itself is modelled by its call stacks: one, or more when the script *)
(* uses fibers.  A call is named by the value txn.chiamate takes when it   *)
(* begins, the address of its frame by its place on its stack, which later *)
(* calls use again.  The random identifiers of spans never collide.        *)
(***************************************************************************)
EXTENDS Integers, Sequences, FiniteSets, FiniteSetsExt, SequencesExt

CONSTANTS
  Contexts,    \* the main script and its fibers
  Main,        \* the main script
  MaxDepth,    \* orma.max_depth
  MaxStack,    \* ORMA_MAX_STACK
  FunctionMs,  \* orma.function_ms
  MaxSpans,    \* ORMA_MAX_SPANS
  MaxCalls,    \* bound: calls of user functions in a request
  MaxOpens,    \* bound: spans tried before another hook or API span
  MaxTime      \* bound: duration of a request

ASSUME ConstantsAssumption ==
  /\ Main \in Contexts
  /\ MaxStack \in Nat \ {0}
  /\ {MaxDepth, FunctionMs, MaxSpans, MaxCalls, MaxOpens, MaxTime} \subseteq Nat

VARIABLES
  all,       \* orma.detail = 2, of the whole process
  fibers,    \* whether the script of the request uses fibers
  phase,     \* "idle", "running", "unwinding" after a fatal error, "measured"
  now,       \* time since the request began
  php,       \* the call stack of each context
  running,   \* the context that executes
  chiamate,  \* txn.chiamate
  stack,     \* the first ORMA_G(depth) frames of ORMA_G(stack)
  skipped,   \* ORMA_G(skipped)
  spans,     \* ORMA_G(spans)
  dropped    \* txn.spans_dropped

phpVars == <<php, running>>
observerVars == <<chiamate, stack, skipped>>
spanVars == <<spans, dropped>>
modeVars == <<all, fibers>>
vars == <<modeVars, phase, now, phpVars, observerVars, spanVars>>

Root == <<"root", 0>>

Top(s) == s[Len(s)]
Push(e) == php' = [php EXCEPT ![running] = Append(@, e)]
Pop == php' = [php EXCEPT ![running] = Front(@)]
TopIs(kind) == php[running] # <<>> /\ Top(php[running]).kind = kind

-----------------------------------------------------------------------------
(* The table of spans. *)

(* orma_observer_current_parent: the innermost function with a frame. *)
CurrentParent == IF stack = <<>> THEN Root ELSE Top(stack).id

AddSpanSilently(s) ==
  /\ spans' = IF Len(spans) < MaxSpans THEN Append(spans, s) ELSE spans
  /\ UNCHANGED dropped

(* orma_spans_room, and the count of the spans it refuses. *)
AddSpan(s) ==
  IF Len(spans) < MaxSpans
  THEN spans' = Append(spans, s) /\ UNCHANGED dropped
  ELSE dropped' = dropped + 1 /\ UNCHANGED spans

OpenSpan(kind) ==
  AddSpan([id |-> <<"open", Len(spans) + 1>>, parent |-> CurrentParent, kind |-> kind,
           start |-> now, dur |-> 0, failed |-> FALSE, open |-> TRUE, inner |-> 0])

Closed(s, failed) == [s EXCEPT !.dur = now - s.start, !.failed = failed, !.open = FALSE]

CloseAgain(i, failed) ==
  /\ spans' = IF i \in DOMAIN spans THEN [spans EXCEPT ![i] = Closed(@, failed)] ELSE spans
  /\ UNCHANGED dropped

(* A reference out of the table or a span already closed is left alone. *)
CloseSpan(i, failed) ==
  /\ spans' = IF i \in DOMAIN spans /\ spans[i].open
              THEN [spans EXCEPT ![i] = Closed(@, failed)]
              ELSE spans
  /\ UNCHANGED dropped

(* orma_spans_close_open: what never came back is marked as failed. *)
CloseOpen == [i \in DOMAIN spans |-> IF spans[i].open THEN Closed(spans[i], TRUE) ELSE spans[i]]

-----------------------------------------------------------------------------
(* The observer. *)

(* Too deep for orma.max_depth, or for the stack itself.                   *)
BeginSkips ==
  \/ ~all /\ Len(stack) >= MaxDepth
  \/ Len(stack) >= MaxStack

(* A user function is entered: orma_observer_begin. *)
Call ==
  /\ phase = "running"
  /\ chiamate < MaxCalls
  /\ chiamate' = chiamate + 1
  /\ Push([kind |-> "user", n |-> chiamate + 1])
  /\ \/ /\ BeginSkips
        /\ skipped' = skipped + 1
        /\ UNCHANGED stack
     \/ /\ ~BeginSkips
        /\ stack' = Append(stack,
                      [frame |-> <<running, Len(php[running]) + 1>>,
                       id |-> <<"call", chiamate + 1>>, parent |-> CurrentParent,
                       start |-> now, chiamate_inizio |-> chiamate + 1])
        /\ UNCHANGED skipped
  /\ UNCHANGED <<modeVars, phase, now, running, spanVars>>

CallsSoFar(f) == chiamate

CallsInside(f) == chiamate - f.chiamate_inizio

Slow(dur) == all \/ dur >= FunctionMs

EndForgetsSkipped == FALSE

EndSkips == skipped > 0

(* Where the observer finds the frame that ends. *)
Place(frame) == {i \in DOMAIN stack : stack[i].frame = frame}

UnrolledOneShort(i) == SubSeq(stack, 1, i)

(* What is left of the stack when its frame i ends.                        *)
Unrolled(i) == SubSeq(stack, 1, i - 1)

Emit(f) ==
  IF Slow(now - f.start)
  THEN AddSpan([id |-> f.id, parent |-> f.parent, kind |-> "function",
                start |-> f.start, dur |-> now - f.start, failed |-> FALSE,
                open |-> FALSE, inner |-> CallsInside(f)])
  ELSE UNCHANGED spanVars

(* A user function returns or throws: orma_observer_end.  It unrolls its   *)
(* stack down to the frame that ends, and leaves it alone if it has none.  *)
(* The status of the span, whether an exception was pending, is left out.  *)
Return ==
  /\ phase \in {"running", "unwinding"}
  /\ TopIs("user")
  /\ Pop
  /\ LET place == Place(<<running, Len(php[running])>>)
     IN  \/ /\ EndSkips
            /\ skipped' = skipped - 1
            /\ UNCHANGED <<stack, spanVars>>
         \/ /\ ~EndSkips
            /\ place = {}
            /\ UNCHANGED <<stack, skipped, spanVars>>
         \/ /\ ~EndSkips
            /\ place # {}
            /\ stack' = Unrolled(Max(place))
            /\ Emit(stack[Max(place)])
            /\ UNCHANGED skipped
  /\ UNCHANGED <<modeVars, phase, now, running, chiamate>>

-----------------------------------------------------------------------------
(* Hooked internal functions and the PHP API. *)

(* A query or a network call: the span opens before the original handler,  *)
(* which may call back into PHP. The entry keeps its place in the table.   *)
EnterHook ==
  /\ phase = "running"
  /\ Len(spans) + dropped < MaxOpens
  /\ OpenSpan("hook")
  /\ Push([kind |-> "hook", n |-> IF Len(spans) < MaxSpans THEN Len(spans) + 1 ELSE 0])
  /\ UNCHANGED <<modeVars, phase, now, running, observerVars>>

LeaveHook(failed) ==
  /\ phase = "running"
  /\ TopIs("hook")
  /\ Pop
  /\ CloseSpan(Top(php[running]).n, failed)
  /\ UNCHANGED <<modeVars, phase, now, running, observerVars>>

StartSpan ==
  /\ phase = "running"
  /\ Len(spans) + dropped < MaxOpens
  /\ OpenSpan("api")
  /\ UNCHANGED <<modeVars, phase, now, phpVars, observerVars>>

(* orma_end_span on a reference that orma_start_span gave, maybe again. *)
EndSpan(i) ==
  /\ phase = "running"
  /\ i \in DOMAIN spans
  /\ spans[i].kind = "api"
  /\ CloseSpan(i, FALSE)
  /\ UNCHANGED <<modeVars, phase, now, phpVars, observerVars>>

-----------------------------------------------------------------------------
(* PHP and the request. *)

Tick ==
  /\ phase = "running"
  /\ now < MaxTime
  /\ now' = now + 1
  /\ UNCHANGED <<modeVars, phase, phpVars, observerVars, spanVars>>

(* A fiber is resumed, or suspends: user code does it. *)
Switch(c) ==
  /\ phase = "running"
  /\ fibers
  /\ c # running /\ ~TopIs("hook")
  /\ running' = c
  /\ UNCHANGED <<modeVars, phase, now, php, observerVars, spanVars>>

(* A fatal error leaves every internal function with a longjmp; PHP then   *)
(* ends the observed frames one by one, and goes on with the shutdown      *)
(* functions of the script.                                                *)
Bailout ==
  /\ phase = "running"
  /\ php[running] # <<>>
  /\ phase' = "unwinding"
  /\ UNCHANGED <<modeVars, now, phpVars, observerVars, spanVars>>

AbandonHook ==
  /\ phase = "unwinding"
  /\ TopIs("hook")
  /\ Pop
  /\ UNCHANGED <<modeVars, phase, now, running, observerVars, spanVars>>

Unwound ==
  /\ phase = "unwinding"
  /\ php[running] = <<>>
  /\ phase' = "running"
  /\ UNCHANGED <<modeVars, now, phpVars, observerVars, spanVars>>

(* RINIT. *)
RequestStart ==
  /\ phase = "idle"
  /\ phase' = "running"
  /\ now' = 0
  /\ running' = Main
  /\ chiamate' = 0
  /\ stack' = <<>> /\ skipped' = 0
  /\ spans' = <<>> /\ dropped' = 0
  /\ fibers' \in BOOLEAN
  /\ UNCHANGED <<all, php>>

(* RSHUTDOWN, when no frame of the script is left. *)
RequestShutdown ==
  /\ phase = "running"
  /\ \A c \in Contexts : php[c] = <<>>
  /\ spans' = CloseOpen
  /\ phase' = "measured"
  /\ UNCHANGED <<modeVars, now, phpVars, observerVars, dropped>>

(* post_deactivate: the frame is encoded and the transaction is over. *)
PostDeactivate ==
  /\ phase = "measured"
  /\ phase' = "idle"
  /\ UNCHANGED <<modeVars, now, phpVars, observerVars, spanVars>>

Init ==
  /\ all \in BOOLEAN
  /\ fibers = FALSE
  /\ phase = "idle"
  /\ now = 0
  /\ php = [c \in Contexts |-> <<>>] /\ running = Main
  /\ chiamate = 0
  /\ stack = <<>> /\ skipped = 0
  /\ spans = <<>> /\ dropped = 0

Next ==
  \/ Call
  \/ Return
  \/ \E failed \in BOOLEAN : LeaveHook(failed)
  \/ EnterHook
  \/ StartSpan
  \/ \E i \in 1 .. MaxSpans : EndSpan(i)
  \/ Tick
  \/ \E c \in Contexts : Switch(c)
  \/ Bailout
  \/ AbandonHook
  \/ Unwound
  \/ RequestStart
  \/ RequestShutdown
  \/ PostDeactivate

Spec == Init /\ [][Next]_vars

-----------------------------------------------------------------------------
(* Properties. *)

(* Where the script is in a user function, on its stack. *)
UserPlaces == {p \in DOMAIN php[Main] : php[Main][p].kind = "user"}

(* orma_observer_begin: "begin ed end restano in pari perche' i frame      *)
(* saltati sono sempre piu' profondi di quelli impilati".  The observer    *)
(* has the outermost calls of the script, the i-th of them in its frame i, *)
(* and counts the others.  Depth is no order between fibers, where it      *)
(* fails.                                                                  *)
Paired ==
  ~fibers /\ phase # "idle" =>
    /\ Len(stack) + skipped = Cardinality(UserPlaces)
    /\ \A i \in DOMAIN stack : \E p \in UserPlaces :
         /\ Cardinality({q \in UserPlaces : q <= p}) = i
         /\ stack[i].id = <<"call", php[Main][p].n>>

Functions == {s \in ToSet(spans) : s.kind = "function"}

Present(id) == id = Root \/ \E s \in ToSet(spans) : s.id = id

(* The threshold makes no orphan among the functions: the parent of an     *)
(* emitted function is emitted, or still running, unless the table was     *)
(* full; and however deep the calls, parents are never lost with them.     *)
FunctionTree ==
  ~fibers =>
    \A s \in Functions :
      \/ Present(s.parent)
      \/ \E i \in DOMAIN stack : stack[i].id = s.parent
      \/ dropped > 0

(* What the waterfall adds up: the functions called directly by another    *)
(* one last no longer than it, all together, and count no more calls.      *)
ChildrenFit ==
  ~fibers =>
    \A p \in Functions :
      LET children == {s \in Functions : s.parent = p.id}
      IN  /\ MapThenSumSet(LAMBDA s : s.dur, children) <= p.dur
          /\ MapThenSumSet(LAMBDA s : s.inner + 1, children) <= p.inner

(* A query or a network call that came back lies within the function it is *)
(* shown under.                                                            *)
HooksNest ==
  \A s \in ToSet(spans), p \in Functions :
    ~fibers /\ s.kind = "hook" /\ s.parent = p.id /\ ~s.open /\ ~s.failed
      => p.start <= s.start /\ s.start + s.dur <= p.start + p.dur

(* The durations the waterfall subtracts from one another: what lies under *)
(* a function lies within it in time.                                      *)
SpansNest == ChildrenFit /\ HooksNest

(* A closed span is final, until the next request: a second orma_end_span  *)
(* or the end of the request changes neither its duration nor its outcome. *)
ClosedIsFinal ==
  [][phase # "idle" =>
       \A i \in DOMAIN spans : ~spans[i].open => i \in DOMAIN spans' /\ spans'[i] = spans[i]]_vars

(* What is delivered has no open span, and what it leaves out it declares: *)
(* spans are refused only when the table is full.  A call has one span at  *)
(* most, and each span its own identifier, even when fibers leave frames   *)
(* behind whose address a later call takes again.                          *)
Delivered ==
  /\ phase = "measured" => \A s \in ToSet(spans) : ~s.open
  /\ dropped > 0 => Len(spans) = MaxSpans
  /\ \A i, j \in DOMAIN spans : spans[i].id = spans[j].id => i = j
=============================================================================
