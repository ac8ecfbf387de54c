--------------------------- MODULE MCCredentials ----------------------------
(***************************************************************************)
(* Instances of Credentials for TLC.                                       *)
(***************************************************************************)
EXTENDS Credentials

CONSTANTS t1, t2

Good(t)      == [target |-> t, complete |-> TRUE, unmasked |-> FALSE, readable |-> TRUE]
OptedOut(t)  == [Good(t) EXCEPT !.unmasked = TRUE]
WriteOnly(t) == [Good(t) EXCEPT !.readable = FALSE]
Broken(t)    == [Good(t) EXCEPT !.complete = FALSE]

\* A file of two entries, one of them opted out; one with a write-only entry;
\* and the refusals: a broken entry, a target named twice, an empty document.
SomeFiles == { <<Good(t1), OptedOut(t2)>>, <<WriteOnly(t1)>>,
               <<Good(t1), Broken(t2)>>, <<Good(t1), Good(t1)>>, <<>> }

OneFile == { <<Good(t1)>> }
=============================================================================
