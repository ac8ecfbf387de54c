---------------------------- MODULE AnchorProofs ----------------------------
(***************************************************************************)
(* Proofs about Anchor: an idle server never grows its own chain, for any  *)
(* number of entries and whatever the interleaving.  The inductive         *)
(* invariant says how far the remembered head has come: between ticks no   *)
(* anchor lies beyond it, and the head a tick has read lies beyond it.     *)
(***************************************************************************)
EXTENDS Anchor, TLAPS

\* No anchor is beyond the remembered head, unless a tick has just made one.
Remembered ==
    /\ last <= Len(chain)
    /\ at \in {"wait", "append", "ended"} => \A i \in Anchors : i <= last
    /\ at = "append" => last < head
    /\ at \in {"append", "publish", "reread"} => head \in 1..Len(chain)

IInv == TypeOK /\ Remembered /\ AnchorsAreEarned

\* The variables have their types at the start.
LEMMA Types == Init => TypeOK
<1>1. <<Work>> = [i \in 1..1 |-> Work] /\ <<Work>> \in Seq(Nat)
  BY DEF Work
<1> SUFFICES ASSUME Init PROVE TypeOK
  OBVIOUS
<1>2. chain \in Seq(Nat)
  BY <1>1 DEF Init
<1>3. published \subseteq Nat /\ missed \subseteq Nat /\ last \in Nat /\ head \in Nat
  BY DEF Init, NoHead
<1>4. closed \in BOOLEAN /\ cancelled \in BOOLEAN /\ at = "wait"
  BY DEF Init
<1> QED
  BY <1>2, <1>3, <1>4 DEF TypeOK

\* What Record does to the chain: it keeps every entry and adds at most the new one.
LEMMA Recorded ==
    ASSUME NEW entry \in Nat, chain \in Seq(Nat), Record(entry)
    PROVE  /\ chain' \in Seq(Nat) /\ Len(chain') \in {Len(chain), Len(chain) + 1}
           /\ \A i \in 1..Len(chain) : chain'[i] = chain[i]
           /\ Len(chain') = Len(chain) => chain' = chain
           /\ Len(chain') = Len(chain) + 1 => chain'[Len(chain) + 1] = entry
BY DEF Record

\* Every step keeps the types.
LEMMA TypeStep == TypeOK /\ [Next]_vars => TypeOK'
<1> SUFFICES ASSUME TypeOK, [Next]_vars PROVE TypeOK'
  OBVIOUS
<1> USE DEF TypeOK, loop
<1>1. CASE Do
  <2>1. chain' \in Seq(Nat)
    BY <1>1, Recorded DEF Do, Work
  <2>2. missed' \subseteq Nat
    <3>1. Len(chain) + 1 \in Nat /\ missed \subseteq Nat
      OBVIOUS
    <3> QED
      BY <1>1, <3>1 DEF Do, Tip
  <2> QED
    BY <1>1, <2>1, <2>2 DEF Do
<1>2. CASE Tick
  BY <1>2 DEF Tick, Tip
<1>3. CASE Anchor
  BY <1>3, Recorded DEF Anchor
<1>4. CASE Publish
  BY <1>4 DEF Publish
<1>5. CASE Remember
  BY <1>5 DEF Remember, Tip
<1>6. CASE Cancel \/ Stop \/ CloseLog
  BY <1>6 DEF Cancel, Stop, CloseLog
<1>7. CASE UNCHANGED vars
  BY <1>7 DEF vars
<1> QED
  BY <1>1, <1>2, <1>3, <1>4, <1>5, <1>6, <1>7 DEF Next, Loop, Done

\* An entry of work adds no anchor.
LEMMA WorkStep == IInv /\ Do => Remembered' /\ AnchorsAreEarned'
<1> SUFFICES ASSUME IInv, Do PROVE Remembered' /\ AnchorsAreEarned'
  OBVIOUS
<1>1. /\ chain \in Seq(Nat) /\ chain' \in Seq(Nat)
      /\ Len(chain') \in {Len(chain), Len(chain) + 1}
      /\ \A i \in 1..Len(chain) : chain'[i] = chain[i]
      /\ Len(chain') = Len(chain) => chain' = chain
      /\ Len(chain') = Len(chain) + 1 => chain'[Len(chain) + 1] = Work
  BY Recorded DEF Do, Work, IInv, TypeOK
<1>2. Anchors' = Anchors /\ Works \subseteq Works'
  BY <1>1 DEF Anchors, Works
<1>3. UNCHANGED <<at, last, head>>
  BY DEF Do, loop
<1>4. Len(chain) \in Nat /\ Len(chain') \in Nat /\ Len(chain') >= Len(chain) /\ last \in Nat /\ head \in Nat
  BY <1>1 DEF IInv, TypeOK
<1>5. Remembered'
  BY <1>1, <1>2, <1>3, <1>4 DEF Remembered, IInv
<1> QED
  BY <1>2, <1>5 DEF AnchorsAreEarned, IInv

\* The head that was read is work, and lies between the new anchor and the others.
LEMMA AnchorStep == IInv /\ Anchor => Remembered' /\ AnchorsAreEarned'
<1> SUFFICES ASSUME IInv, Anchor PROVE Remembered' /\ AnchorsAreEarned'
  OBVIOUS
<1>1. /\ chain \in Seq(Nat) /\ chain' \in Seq(Nat)
      /\ Len(chain') \in {Len(chain), Len(chain) + 1}
      /\ \A i \in 1..Len(chain) : chain'[i] = chain[i]
      /\ Len(chain') = Len(chain) => chain' = chain
  BY Recorded DEF Anchor, IInv, TypeOK
<1>2. /\ at = "append" /\ at' \in {"publish", "reread"} /\ last' = last /\ head' = head
      /\ last \in Nat /\ head \in 1..Len(chain) /\ last < head /\ \A i \in Anchors : i <= last
      /\ last <= Len(chain)
  BY DEF Anchor, IInv, Remembered, TypeOK
<1>3. Remembered'
  BY <1>1, <1>2 DEF Remembered
<1>4. head \in Works /\ head \in Works'
  BY <1>1, <1>2 DEF Anchors, Works
<1>5. Works \subseteq Works' /\ Anchors' \subseteq Anchors \cup {Len(chain) + 1}
  <2>1. DOMAIN chain = 1..Len(chain) /\ DOMAIN chain' = 1..Len(chain') /\ Len(chain) \in Nat
    BY <1>1
  <2>2. DOMAIN chain \subseteq DOMAIN chain' /\ DOMAIN chain' \subseteq DOMAIN chain \cup {Len(chain) + 1}
    <3> DEFINE m == Len(chain)  n == Len(chain')
    <3>1. m \in Nat /\ n \in {m, m + 1}
      BY <1>1, <2>1
    <3> HIDE DEF m, n
    <3>2. 1..m \subseteq 1..n /\ 1..n \subseteq (1..m) \cup {m + 1}
      BY <3>1
    <3> QED
      BY <2>1, <3>2 DEF m, n
  <2>3. Works \subseteq Works'
    BY <1>1, <2>1, <2>2 DEF Works
  <2>4. Anchors' \subseteq Anchors \cup {Len(chain) + 1}
    BY <1>1, <2>1, <2>2 DEF Anchors, Works
  <2> QED
    BY <2>3, <2>4
<1>6. AnchorsAreEarned'
  <2> SUFFICES ASSUME NEW i \in Anchors', NEW j \in Anchors', i < j
               PROVE  \E k \in Works' : i < k /\ k < j
    BY DEF AnchorsAreEarned
  <2>1. i \in Nat /\ j \in Nat /\ Len(chain) \in Nat /\ Anchors \subseteq 1..Len(chain)
    <3>1. DOMAIN chain = 1..Len(chain) /\ DOMAIN chain' = 1..Len(chain') /\ Len(chain) \in Nat
          /\ Len(chain') \in Nat
      BY <1>1
    <3> QED
      BY <3>1 DEF Anchors
  <2>2. CASE j \in Anchors
    <3>1. i \in Anchors
      BY <1>5, <2>1, <2>2
    <3> QED
      BY <1>5, <2>2, <3>1 DEF AnchorsAreEarned, IInv
  <2>3. CASE j = Len(chain) + 1
    <3>1. i <= last
      BY <1>2, <1>5, <2>1, <2>3
    <3>2. i < head /\ head < j
      BY <1>2, <2>1, <2>3, <3>1
    <3> QED
      BY <1>4, <3>2
  <2> QED
    BY <1>5, <2>2, <2>3
<1> QED
  BY <1>3, <1>6

\* Every other step leaves the chain alone.
LEMMA QuietStep ==
    ASSUME IInv, UNCHANGED chain,
           Tick \/ Publish \/ Remember \/ Cancel \/ Stop \/ CloseLog \/ UNCHANGED vars
    PROVE  Remembered' /\ AnchorsAreEarned'
<1>1. chain' = chain /\ Anchors' = Anchors /\ Works' = Works
  BY DEF Anchors, Works
<1>2. Len(chain) \in Nat /\ last \in Nat /\ head \in Nat /\ Anchors \subseteq 1..Len(chain)
  <2>1. DOMAIN chain = 1..Len(chain) /\ Len(chain) \in Nat
    BY DEF IInv, TypeOK
  <2> QED
    BY <2>1 DEF IInv, TypeOK, Anchors
<1>3. AnchorsAreEarned'
  BY <1>1 DEF AnchorsAreEarned, IInv
<1>4. CASE Tick
  <2>1. at = "wait" /\ at' = "append" /\ last' = last /\ head' = Len(chain) /\ head' # 0 /\ head' # last
    BY <1>4 DEF Tick, HasMoved, NoHead, Tip
  <2>2. last <= Len(chain) /\ \A i \in Anchors : i <= last
    BY <2>1 DEF Remembered, IInv
  <2>3. last' < head' /\ head' \in 1..Len(chain)
    BY <1>2, <2>1, <2>2
  <2>4. Remembered'
    BY <1>1, <2>1, <2>2, <2>3 DEF Remembered
  <2> QED
    BY <1>3, <2>4
<1>5. CASE Remember
  <2>1. at' = "wait" /\ last' = Len(chain)
    BY <1>5 DEF Remember, Tip
  <2>2. Remembered'
    BY <1>1, <1>2, <2>1 DEF Remembered
  <2> QED
    BY <1>3, <2>2
<1>6. CASE Publish \/ Cancel \/ Stop \/ CloseLog \/ UNCHANGED vars
  <2>1. /\ last' = last /\ head' = head
        /\ at' = at \/ (at = "publish" /\ at' = "reread") \/ (at = "wait" /\ at' = "ended")
    BY <1>6 DEF Publish, Cancel, Stop, CloseLog, vars, loop
  <2>2. Remembered'
    BY <1>1, <2>1 DEF Remembered, IInv
  <2> QED
    BY <1>3, <2>2
<1> QED
  BY <1>3, <1>4, <1>5, <1>6

\* The inductive invariant always holds.
THEOREM Invariance == Spec => []IInv
<1>1. Init => IInv
  BY Types DEF Init, IInv, Remembered, AnchorsAreEarned, Anchors, Works, Work, NoHead
<1>2. IInv /\ [Next]_vars => IInv'
  <2> SUFFICES ASSUME IInv, [Next]_vars PROVE IInv'
    OBVIOUS
  <2>1. TypeOK'
    BY TypeStep DEF IInv
  <2>2. CASE Do
    BY <2>1, <2>2, WorkStep DEF IInv
  <2>3. CASE Anchor
    BY <2>1, <2>3, AnchorStep DEF IInv
  <2>4. CASE Tick \/ Publish \/ Remember \/ Cancel \/ Stop \/ CloseLog \/ UNCHANGED vars
    <3>1. UNCHANGED chain
      BY <2>4 DEF Tick, Publish, Remember, Cancel, Stop, CloseLog, vars
    <3> QED
      BY <2>1, <2>4, <3>1, QuietStep DEF IInv
  <2> QED
    BY <2>2, <2>3, <2>4 DEF Next, Loop, Done
<1> QED
  BY <1>1, <1>2, PTL DEF Spec

\* The state stays of its types.
THEOREM TypeCorrect == Spec => []TypeOK
<1>1. IInv => TypeOK
  BY DEF IInv
<1> QED
  BY <1>1, Invariance, PTL

\* An idle server does not grow its own chain: between two anchors something else
\* was appended, for chains of any length.
THEOREM AnchorsEarned == Spec => []AnchorsAreEarned
<1>1. IInv => AnchorsAreEarned
  BY DEF IInv
<1> QED
  BY <1>1, Invariance, PTL
=============================================================================
