---------------------------- MODULE MCStatements ----------------------------
(* Two objects, two statements and two files, of which one is interned; an *)
(* arena that grows in the middle of a span.                               *)
EXTENDS Statements, TLC

CONSTANTS h1, h2, q1, q2, f1, f2

MCHandles == {h1, h2}
MCQueries == {q1, q2}
MCFiles == {f1, f2}

Symmetric == Permutations(MCHandles) \cup Permutations(MCQueries) \cup Permutations(MCFiles)
=============================================================================
