------------------------------ MODULE Selector ------------------------------
(***************************************************************************)
(* Which element a selector designates (internal/desktop/selector.go), and *)
(* which window an assertion's selector does (pkg/windows/testing.go).     *)
(*                                                                         *)
(* A name is [words, case, padded]: its words up to case, the way it is    *)
(* capitalised, and whether white space surrounds it.  A selector is       *)
(* [id, name, type, match, compiles, occurrence], occurrence [mode, index];*)
(* an absent id, type or match is "", an absent name has no words.  Only a *)
(* pattern can fail to compile.  A snapshot is a sequence of [at, el], an  *)
(* element and its centre; a label is a position in it.                    *)
(***************************************************************************)
EXTENDS Integers, Sequences, FiniteSets

CONSTANT Info      \* what UI Automation says of an element: [id, name, type]

Names     == [words : Seq(STRING), case : STRING, padded : BOOLEAN]
Specs     == [id : STRING, name : Names, type : STRING, match : STRING, compiles : BOOLEAN,
              occurrence : [mode : STRING, index : Int]]
Arguments == [spec : Specs, nth : SUBSET Int]     \* of a call: nth may be absent

Trim(name) == [name EXCEPT !.padded = FALSE]
EqualFold(n, m) == n.words = m.words /\ n.padded = m.padded
Occurs(s, t) == \E i \in 0..(Len(t) - Len(s)) : SubSeq(t, i + 1, i + Len(s)) = s
ContainsFold(name, needle) ==
    Occurs(needle.words, name.words) /\ (needle.padded => name.padded)
MatchString(name, pattern) == Occurs(pattern.words, name.words) /\ name.case = pattern.case

NoWords(name) == name.words = <<>>

\* An automation id is never relaxed, and a blank name asks for no mode.
Malformed(spec) ==
    /\ spec.id = "" /\ ~NoWords(spec.name)
    /\ \/ spec.match \notin {"", "exact", "contains", "matches"}
       \/ spec.match = "matches" /\ ~spec.compiles

NameMatches(spec, name) ==
    LET needle == Trim(spec.name) IN
    /\ ~NoWords(needle)
    /\ CASE spec.match \in {"", "exact"} -> EqualFold(Trim(name), needle)
         [] spec.match = "contains"      -> ContainsFold(name, needle)
         [] OTHER                        -> MatchString(name, needle)

Picks(spec, e) ==
    /\ spec.type \in {"", Info[e].type}
    /\ IF spec.id # "" THEN Info[e].id = spec.id ELSE NameMatches(spec, Info[e].name)

\* The labels of the elements matched; tree order is label order.
Matches(spec, snapshot) == { l \in DOMAIN snapshot : Picks(spec, snapshot[l].el) }

Answer(l) == [label |-> l, error |-> "none"]
Error(e)  == [label |-> 0, error |-> e]
Nth(labels, i) == CHOOSE l \in labels : Cardinality({ k \in labels : k < l }) = i

\* Mutant: of several elements the first is taken, whatever was asked for.
ResolveFirst(spec, snapshot) ==
    LET found == Matches(spec, snapshot) IN
    IF Malformed(spec) THEN Error("malformed")
    ELSE IF found = {} THEN Error("no match") ELSE Answer(Nth(found, 0))

\* An index that is no number reads as a negative one.
Resolve(spec, snapshot) ==
    LET found == Matches(spec, snapshot)
        n     == Cardinality(found)
        occ   == spec.occurrence IN
    IF Malformed(spec) THEN Error("malformed")
    ELSE IF n = 0 THEN Error("no match")
    ELSE IF occ.mode \in {"", "unique", "first"}
         THEN IF n > 1 /\ occ.mode # "first" THEN Error("ambiguous") ELSE Answer(Nth(found, 0))
    ELSE IF occ.index < 0 THEN Error("bad occurrence")
    ELSE IF occ.index >= n THEN Error("out of range") ELSE Answer(Nth(found, occ.index))

\* nth is another way to write an index, and occurrence wins over it.
SelectorFromArgs(args) ==
    [args.spec EXCEPT !.occurrence =
        IF @.mode = "" THEN IF args.nth = {} THEN [mode |-> "unique", index |-> 0]
                            ELSE [mode |-> "index", index |-> CHOOSE i \in args.nth : TRUE]
        ELSE @]

\* Existence of a window: an id stands in for an absent name, the pattern mode
\* is read as the exact one, and the needle of "contains" keeps its white space.
WindowMatches(title, spec) ==
    LET needle == IF NoWords(spec.name) THEN [title EXCEPT !.words = <<spec.id>>, !.padded = FALSE]
                  ELSE spec.name IN
    IF spec.match = "contains" THEN ContainsFold(title, needle)
    ELSE EqualFold(Trim(title), Trim(needle))
=============================================================================
