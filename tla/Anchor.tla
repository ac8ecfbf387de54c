------------------------------- MODULE Anchor -------------------------------
(***************************************************************************)
(* Anchoring of the audit chain's head (internal/winmcp/anchor.go): a loop *)
(* that, on every tick and only when the head has moved, appends an entry  *)
(* naming the head, publishes it off the box and reads the head again, to  *)
(* remember it for the next tick.  Every other part of the server appends  *)
(* to the chain between any two of these steps, and the chain is closed    *)
(* while the loop may be in the middle of them: stopping it is not waited  *)
(* for.                                                                    *)
(***************************************************************************)
EXTENDS Naturals, Sequences, FiniteSets

CONSTANTS
    MaxWork,    \* bound: entries the rest of the server appends
    Writer      \* whether an off-box writer could be opened

ASSUME AnchorAssumption == MaxWork \in Nat /\ Writer \in BOOLEAN

VARIABLES
    chain,      \* for each entry: the position it anchors, or Work
    closed,     \* AuditLog.Close has been called
    at,         \* where the loop is
    last,       \* the head it remembers
    head,       \* the head it read on this tick
    published,  \* the heads that are off the box
    cancelled,  \* the context of the loop is done
    missed      \* history: entries appended between its two readings of the head

loop == <<at, last, head>>
vars == <<chain, closed, loop, published, cancelled, missed>>

Work    == 0
NoHead  == 0
Works   == {i \in DOMAIN chain : chain[i] = Work}
Anchors == DOMAIN chain \ Works

\* AuditLog is external: the head (Tip) is the last entry, and a closed log takes no more.
Tip == Len(chain)
Record(entry) == chain' = IF closed THEN chain ELSE Append(chain, entry)

\* The state is of the right types.
TypeOK ==
    /\ chain \in Seq(Nat) /\ published \subseteq Nat /\ missed \subseteq Nat
    /\ last \in Nat /\ head \in Nat
    /\ closed \in BOOLEAN /\ cancelled \in BOOLEAN
    /\ at \in {"wait", "append", "publish", "reread", "ended"}

\* The loop is started when the chain holds the server's first entry.
Init ==
    /\ chain = <<Work>> /\ closed = FALSE
    /\ at = "wait" /\ last = NoHead /\ head = NoHead
    /\ published = {} /\ cancelled = FALSE /\ missed = {}

\* Any other part of the server appends an entry.
Do ==
    /\ Cardinality(Works) <= MaxWork
    /\ Record(Work)
    /\ missed' = IF at \in {"append", "publish", "reread"} /\ ~closed THEN missed \cup {Tip + 1}
                 ELSE missed
    /\ UNCHANGED <<closed, loop, published, cancelled>>

\* Mutant: one entry more than is remembered is taken to be the loop's own.
MoreThanOwn == Tip > last + 1

HasMoved == Tip # NoHead /\ Tip # last

\* A tick: the head is read; a quiet interval does nothing.
Tick ==
    /\ at = "wait"
    /\ HasMoved
    /\ at' = "append" /\ head' = Tip
    /\ UNCHANGED <<chain, closed, last, published, cancelled, missed>>

\* The entry that names the head; an error is dropped.
Anchor ==
    /\ at = "append"
    /\ Record(head)
    /\ at' = IF Writer THEN "publish" ELSE "reread"
    /\ UNCHANGED <<closed, last, head, published, cancelled, missed>>

\* The event log takes the head, or refuses it, which is only warned of.
Publish ==
    /\ at = "publish"
    /\ published' \in {published, published \cup {head}}
    /\ at' = "reread"
    /\ UNCHANGED <<chain, closed, last, head, cancelled, missed>>

\* Mutant: the head that was anchored is remembered.
RememberAnchored ==
    /\ at = "reread"
    /\ last' = head /\ at' = "wait"
    /\ UNCHANGED <<chain, closed, head, published, cancelled, missed>>

\* The head is read again and remembered.
Remember ==
    /\ at = "reread"
    /\ last' = Tip /\ at' = "wait"
    /\ UNCHANGED <<chain, closed, head, published, cancelled, missed>>

\* stopAnchor, or the end of the session's context; the loop sees it between ticks.
Cancel ==
    /\ ~cancelled
    /\ cancelled' = TRUE
    /\ UNCHANGED <<chain, closed, loop, published, missed>>

Stop ==
    /\ at = "wait" /\ cancelled
    /\ at' = "ended"
    /\ UNCHANGED <<chain, closed, last, head, published, cancelled, missed>>

\* The defer before stopAnchor's closes the log, wherever the loop is.
CloseLog ==
    /\ cancelled /\ ~closed
    /\ closed' = TRUE
    /\ UNCHANGED <<chain, loop, published, cancelled, missed>>

Loop == Tick \/ Anchor \/ Publish \/ Remember
Done == closed /\ at = "ended" /\ UNCHANGED vars
Next == Do \/ Loop \/ Cancel \/ Stop \/ CloseLog \/ Done

\* The ticker keeps ticking, and the goroutine runs when it can.
Spec == Init /\ [][Next]_vars /\ WF_vars(Loop)

----------------------------------------------------------------------------
\* An idle server does not grow its own chain: between two anchors something
\* else was appended, whatever the order in which the loop and the rest of the
\* server read and append (anchor.go:68-71).
AnchorsAreEarned ==
    \A i, j \in Anchors : i < j => \E k \in Works : i < k /\ k < j

\* What is appended is anchored in the end, by an anchor that names it or an entry
\* after it, unless the loop is stopped first (anchor_test.go:38).  The exception is
\* an entry appended between the two readings of a tick: its head is remembered
\* although it was not anchored, and only the next entry brings a new anchor.
ActivityIsAnchored ==
    \A i \in 1..(2 * MaxWork + 2) :
        (i \in Works \ missed) ~> (cancelled \/ \E j \in Anchors : chain[j] >= i)
=============================================================================
