---------------------------- MODULE MCAviWriter -----------------------------
(***************************************************************************)
(* An instance of AviWriter for TLC: a format with room for a few frames.  *)
(***************************************************************************)
EXTENDS AviWriter

\* Odd and even frame sizes, small against the header and index overheads.
SomeLengths == {1, 2, 9}
=============================================================================
