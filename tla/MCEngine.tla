------------------------------ MODULE MCEngine ------------------------------
(***************************************************************************)
(* An instance of Engine for TLC: calls in every mix that matters.         *)
(***************************************************************************)
EXTENDS Engine

CONSTANTS c1, c2, c3

Calls(k1, k2, k3) == [c \in Callers |-> CASE c = c1 -> k1 [] c = c2 -> k2 [] OTHER -> k3]

\* Two snapshots around a pattern call, and a query beside them; two queries,
\* which may meet two generations of the worker.
Mixes == { Calls("snapshot", "snapshot", "pattern"), Calls("snapshot", "pattern", "query"),
           Calls("query", "query", "pattern"), Calls("query", "query", "snapshot") }
=============================================================================
