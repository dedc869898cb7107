------------------------------ MODULE MCReport ------------------------------
EXTENDS Report

(* Constants of the runs. *)

Digits == [kind |-> "digits", text |-> "42"]
Word == [kind |-> "word", text |-> "post"]

MCUris == {[absent |-> TRUE, segments |-> <<>>], [absent |-> FALSE, segments |-> <<Word, Digits, Word>>]}

Str(key, v) == [key |-> key, type |-> 0, v |-> v]

Body(name, kind, start, dur, def, attrs) ==
  [id |-> 0, parent |-> 0, name |-> name, kind |-> kind, start |-> start, dur |-> dur,
   status |-> 0, chiamate |-> 0, interne |-> 0, def |-> def,
   pila |-> IF def = "" THEN <<"page.php", "core.php">> ELSE <<"page.php">>, attrs |-> attrs]

Code(name, start, dur, def) == Body(name, 0, start, dur, def, <<>>)
Hooked(name, start, dur, attrs) == Body(name, 2, start, dur, "", attrs)

(* A query, an execution whose statement the extension never knew, a call  *)
(* of the network to a host and one to nobody knows where, a span of the   *)
(* API that outlives the function that starts it, and that function.       *)
MCSpanBodies ==
  {Hooked("SELECT", 10, 30, <<Str("db.system", "mysqli"), Str("db.statement", "SELECT 1")>>),
   Hooked("EXECUTE", 10, 30, <<Str("db.system", "mysqli")>>),
   Hooked("host", 20, 30, <<Str("server.address", "host")>>), Hooked("curl", 40, 20, <<>>),
   Code("step", 5, 90, ""), Code("load", 0, 60, "load.php")}

MCAttributes == {Str("plan", "gold"), [key |-> "amount", type |-> 2, v |-> "2.5"]}
MCFunctions == <<"preg_match", "unserialize">>

MCSize ==
  [s \in {"", "shop", "web1", "cli/script.php", "/post/{id}/*", "checkout", "http.request.method", "GET",
          "php.memory.peak_bytes", "SELECT", "EXECUTE", "curl", "page.php", "core.php", "db.system", "mysqli",
          "db.statement", "SELECT 1", "server.address", "host", "step", "load", "load.php",
          "plan", "gold", "amount", "E_ERROR", "E_WARNING", "message", "noticed", "LogicException",
          "preg_match", "unserialize"} |-> IF s = "checkout" THEN 60 ELSE Len(s)]

MCLimits == [strings |-> 4096, spans |-> 4096, attrs |-> 256, events |-> 256, profilo |-> 256, pila |-> 16]
=============================================================================
