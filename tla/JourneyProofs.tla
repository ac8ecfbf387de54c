--------------------------- MODULE JourneyProofs ---------------------------
(***************************************************************************)
(* Proofs about Journey, for any number of sessions, any buffer and any    *)
(* bounds: hooks never outlive the call that installed them, a journey has *)
(* what the person did in order and without a gap, and a character typed   *)
(* into a password field is in clear only if the focus has moved since.    *)
(***************************************************************************)
EXTENDS Journey, FiniteSetTheorems, TLAPS

Records == [event : Raw, secure : BOOLEAN, late : BOOLEAN]
Items   == Raw \cup {Silent}

\* Until its loop is left, whatever a session is due is on the way.
Early == {"idle", "starting", "recording", "enriching"}

\* Which hooks a session has at each point of RecordInput; the active session is
\* the one between a start that succeeded and its stop.
HookInv ==
    /\ \A s \in Sessions :
           /\ pc[s] = "idle" => hooks[s] = "none"
           /\ pc[s] = "starting" => hooks[s] \in {"none", "mouse", "both"}
           /\ pc[s] \in {"recording", "enriching", "stopping"} => hooks[s] = "both"
           /\ pc[s] = "waiting" => hooks[s] \in {"quitting", "removed"}
           /\ pc[s] \in {"returned", "refused"} => hooks[s] \in {"none", "removed"}
           /\ s \in active <=> pc[s] \in {"starting", "recording", "enriching", "stopping"}
    /\ \A s, t \in active : s = t

\* Only finitely many sessions have hooks at any time, however many there are.
Hooked == { s \in Sessions : hooks[s] \in {"mouse", "both", "quitting"} }

\* A character the recorder has not emitted yet carries what had the focus, and that
\* is what has it now unless the focus has moved.
Fresh(e) ==
    /\ e.at <= events
    /\ e.kind = "char" => e.moved <= moved /\ (e.moved = moved => e.into = focus)

\* The places of a buffer that hold something for the journey.
Places(q) == { i \in 1..Len(q) : q[i] \in Raw }

\* From the oldest record to the newest event in the buffer, and up to now, a session
\* has its events in the order they happened in.
Line(s) ==
    /\ \A i \in Places(buffer[s]) :
           /\ Fresh(buffer[s][i])
           /\ \A j \in Places(buffer[s]) : i < j => Before(buffer[s][i], buffer[s][j])
    /\ pc[s] = "enriching" =>
           /\ current[s] \in Raw /\ Fresh(current[s])
           /\ \A i \in Places(buffer[s]) : Before(current[s], buffer[s][i])
    /\ \A i \in 1..Len(recorded[s]) :
           /\ recorded[s][i].event.at <= events
           /\ pc[s] = "enriching" => Before(recorded[s][i].event, current[s])
           /\ \A j \in Places(buffer[s]) : Before(recorded[s][i].event, buffer[s][j])

\* Nothing a session was there for is lost between its hooks and its journey.
Told(s, n) == \E i \in 1..Len(recorded[s]) : recorded[s][i].event.at = n

Kept(s) ==
    pc[s] \in Early =>
        \A n \in due[s] :
            \/ Told(s, n)
            \/ pc[s] = "enriching" /\ current[s].at = n
            \/ \E i \in Places(buffer[s]) : buffer[s][i].at = n

LineInv == \A s \in Sessions : Line(s) /\ Kept(s)

IInv == TypeOK /\ HookInv /\ IsFiniteSet(Hooked) /\ LineInv /\ JourneyIsFaithful /\ ClearOnlyIfMoved

----------------------------------------------------------------------------
\* The invariant holds at the start.
LEMMA InitHolds == Init => IInv
<1> SUFFICES ASSUME Init PROVE IInv
  OBVIOUS
<1> USE DEF Init
<1>1. \A S : <<>> \in Seq(S) /\ Len(<<>>) = 0
  OBVIOUS
<1>2. TypeOK
  <2>1. buffer \in [Sessions -> Seq(Items)] /\ \A s \in Sessions : Len(buffer[s]) <= BufferCap
    BY <1>1, BufferCapAssumption
  <2>2. current \in [Sessions -> Raw \cup {NoEvent}]
    OBVIOUS
  <2>3. recorded \in [Sessions -> Seq(Records)]
    BY <1>1
  <2>4. /\ pc \in [Sessions -> {"idle", "starting", "recording", "enriching", "stopping",
                                "waiting", "returned", "refused"}]
        /\ hooks \in [Sessions -> {"none", "mouse", "both", "quitting", "removed"}]
        /\ moved \in 0..MaxMoves /\ events \in 0..MaxEvents
        /\ due \in [Sessions -> SUBSET (1..MaxEvents)]
    BY BoundsAssumption
  <2> QED
    BY <2>1, <2>2, <2>3, <2>4 DEF TypeOK, Records, Items
<1>3. HookInv
  BY DEF HookInv
<1>4. IsFiniteSet(Hooked)
  <2>1. Hooked = {}
    BY DEF Hooked
  <2> QED
    BY <2>1, FS_EmptySet
<1>5. \A s \in Sessions : /\ pc[s] = "idle" /\ Len(buffer[s]) = 0
                          /\ Len(recorded[s]) = 0 /\ DOMAIN recorded[s] = {}
                          /\ due[s] = {}
  OBVIOUS
<1>6. LineInv /\ JourneyIsFaithful /\ ClearOnlyIfMoved
  BY <1>5 DEF LineInv, Line, Kept, Places, JourneyIsFaithful, ClearOnlyIfMoved
<1> QED
  BY <1>2, <1>3, <1>4, <1>6 DEF IInv

----------------------------------------------------------------------------
(***************************************************************************)
(* Hooks and sessions.                                                     *)
(***************************************************************************)
\* The steps that change a session or its hooks, and those that do not.
Sessional(s) ==
    \/ Start(s) \/ InstallHook(s) \/ InstallFails(s) \/ Started(s) \/ Stop(s) \/ Unhook(s)
    \/ Stopped(s) \/ SeeCancel(s)

\* The steps, sorted by what they are of.
LEMMA NextCases ==
    ASSUME [Next]_vars
    PROVE  \/ \E s \in Sessions : Sessional(s) \/ TakeEvent(s) \/ Emit(s) \/ Cancel(s)
           \/ Input \/ SilentInput \/ FocusMoves \/ UNCHANGED vars
BY DEF Next, Hooking, Recorder, Sessional

\* Every step keeps the hooks and the active recording together.
LEMMA HookStep ==
    ASSUME IInv, [Next]_vars
    PROVE  HookInv'
<1>1. /\ HookInv /\ pc \in [Sessions -> {"idle", "starting", "recording", "enriching", "stopping",
                                         "waiting", "returned", "refused"}]
      /\ hooks \in [Sessions -> {"none", "mouse", "both", "quitting", "removed"}]
      /\ active \subseteq Sessions
  BY DEF IInv, TypeOK
<1>2. CASE \E s \in Sessions : Start(s)
  BY <1>1, <1>2 DEF HookInv, Start, Go
<1>3. CASE \E s \in Sessions : InstallHook(s)
  BY <1>1, <1>3 DEF HookInv, InstallHook
<1>4. CASE \E s \in Sessions : InstallFails(s)
  BY <1>1, <1>4 DEF HookInv, InstallFails, Go
<1>5. CASE \E s \in Sessions : Started(s)
  BY <1>1, <1>5 DEF HookInv, Started, Go
<1>6. CASE \E s \in Sessions : Stop(s)
  BY <1>1, <1>6 DEF HookInv, Stop, Go
<1>7. CASE \E s \in Sessions : Unhook(s)
  BY <1>1, <1>7 DEF HookInv, Unhook
<1>8. CASE \E s \in Sessions : Stopped(s)
  BY <1>1, <1>8 DEF HookInv, Stopped, Go
<1>9. CASE \E s \in Sessions : SeeCancel(s)
  BY <1>1, <1>9 DEF HookInv, SeeCancel, Go
<1>10. CASE \E s \in Sessions : TakeEvent(s) \/ Emit(s)
  BY <1>1, <1>10 DEF HookInv, TakeEvent, Emit, Go
<1>11. CASE (\E s \in Sessions : Cancel(s)) \/ Input \/ SilentInput \/ FocusMoves \/ UNCHANGED vars
  <2>1. UNCHANGED session
    BY <1>11 DEF Cancel, Input, SilentInput, FocusMoves, vars, session
  <2> QED
    BY <1>1, <2>1 DEF HookInv, session
<1> QED
  BY NextCases, <1>2, <1>3, <1>4, <1>5, <1>6, <1>7, <1>8, <1>9, <1>10, <1>11 DEF Sessional

\* Every step leaves finitely many sets of hooks.
LEMMA HookedStep ==
    ASSUME IInv, [Next]_vars
    PROVE  IsFiniteSet(Hooked')
<1>1. hooks \in [Sessions -> {"none", "mouse", "both", "quitting", "removed"}] /\ IsFiniteSet(Hooked)
  BY DEF IInv, TypeOK
<1>2. CASE \E s \in Sessions : Sessional(s)
  <2>1. PICK s \in Sessions : Sessional(s)
    BY <1>2
  <2>2. \A t \in Sessions : t # s => hooks'[t] = hooks[t]
    BY <1>1, <2>1 DEF Sessional, Start, InstallHook, InstallFails, Started, Stop, Unhook,
                      Stopped, SeeCancel
  <2>3. Hooked' \subseteq Hooked \cup {s}
    BY <2>2 DEF Hooked
  <2>4. IsFiniteSet(Hooked \cup {s})
    BY <1>1, FS_AddElement
  <2> QED
    BY <2>3, <2>4, FS_Subset
<1>3. CASE ~\E s \in Sessions : Sessional(s)
  <2>1. UNCHANGED hooks
    BY NextCases, <1>3 DEF TakeEvent, Emit, Cancel, Input, SilentInput, FocusMoves, vars, session
  <2> QED
    BY <1>1, <2>1 DEF Hooked
<1> QED
  BY <1>2, <1>3

----------------------------------------------------------------------------
(***************************************************************************)
(* Events, from the buffer to the journey.                                 *)
(***************************************************************************)
\* What is for the journey is neither silent nor the lack of an event.
LEMMA Distinct == Silent \notin Raw /\ \A e \in Raw : e.kind \in Kinds /\ e.at \in Nat /\ e.moved \in Nat
<1>1. Silent \notin Raw
  BY DEF Silent, Raw, Kinds
<1>2. \A e \in Raw : e.kind \in Kinds /\ e.at \in Nat /\ e.moved \in Nat
  BY BoundsAssumption DEF Raw
<1> QED
  BY <1>1, <1>2

\* What is in a buffer once the first event was taken from it.
LEMMA TakenFrom ==
    ASSUME NEW q \in Seq(Items), q # <<>>
    PROVE  /\ Head(q) \in Items /\ Tail(q) \in Seq(Items) /\ Len(Tail(q)) = Len(q) - 1
           /\ \A i \in 1..Len(Tail(q)) : i + 1 \in 1..Len(q) /\ Tail(q)[i] = q[i + 1]
           /\ Head(q) = q[1] /\ Len(q) \in Nat \ {0}
OBVIOUS

\* What is in a journey once a record was put at its end.
LEMMA PutInto ==
    ASSUME NEW q \in Seq(Records), NEW r \in Records
    PROVE  /\ Append(q, r) \in Seq(Records) /\ Len(Append(q, r)) = Len(q) + 1 /\ Len(q) \in Nat
           /\ \A i \in 1..Len(q) : Append(q, r)[i] = q[i]
           /\ Append(q, r)[Len(q) + 1] = r
OBVIOUS

\* How many copies of an event are delivered: no more than there are sets of hooks or
\* room, and one at least to a session with hooks and room.
LEMMA Delivered ==
    ASSUME IInv, NEW e \in Items, Deliver(e), NEW s \in Sessions
    PROVE  \E n \in Nat :
               /\ buffer'[s] = buffer[s] \o [i \in 1..n |-> e]
               /\ Len(buffer[s]) + n <= BufferCap
               /\ n > 1 => Cardinality(Seen(e.kind)) > 1
               /\ s \in active /\ hooks[s] = "both" /\ Len(buffer[s]) < BufferCap => n > 0
<1> DEFINE all == Cardinality(Seen(e.kind))
           room == BufferCap - Len(buffer[s])
           n == IF s \in active THEN Limited(all, room) ELSE 0
<1>1. buffer[s] \in Seq(Items) /\ Len(buffer[s]) <= BufferCap /\ Len(buffer[s]) \in Nat
  BY DEF IInv, TypeOK, Items
<1>2. room \in Nat /\ Len(buffer[s]) + room = BufferCap /\ (Len(buffer[s]) < BufferCap => room > 0)
  BY <1>1, BufferCapAssumption
<1>3. all \in Nat /\ IsFiniteSet(Seen(e.kind))
  <2>1. Seen(e.kind) \subseteq Hooked
    BY DEF Seen, Hooked
  <2> QED
    BY <2>1, FS_Subset, FS_CardinalityType DEF IInv
<1>4. hooks[s] = "both" => all > 0
  <2> SUFFICES ASSUME hooks[s] = "both" PROVE all > 0
    OBVIOUS
  <2>1. s \in Seen(e.kind)
    BY DEF Seen
  <2>2. all # 0
    BY <1>3, <2>1, FS_EmptySet
  <2> QED
    BY <1>3, <2>2
<1>5. buffer'[s] = buffer[s] \o [i \in 1..n |-> e]
  BY DEF Deliver
<1>6. n \in Nat /\ n <= room /\ (n > 1 => all > 1) /\ (s \in active /\ all > 0 /\ room > 0 => n > 0)
  <2> HIDE DEF room, all
  <2> QED
    BY <1>2, <1>3 DEF Limited
<1> HIDE DEF n, room
<1>7. Len(buffer[s]) + n <= BufferCap
  BY <1>1, <1>2, <1>6, BufferCapAssumption
<1> QED
  BY <1>2, <1>4, <1>5, <1>6, <1>7

\* A buffer with copies of an event at its end.
LEMMA Extended ==
    ASSUME NEW q \in Seq(Items), NEW e \in Items, NEW n \in Nat
    PROVE  LET b == q \o [i \in 1..n |-> e] IN
           /\ b \in Seq(Items) /\ Len(b) = Len(q) + n /\ Len(q) \in Nat
           /\ \A i \in 1..Len(q) : b[i] = q[i]
           /\ \A i \in 1..Len(b) : i \notin 1..Len(q) => b[i] = e
<1> DEFINE copies == [i \in 1..n |-> e]
<1>1. copies \in Seq(Items) /\ Len(copies) = n /\ \A i \in 1..n : copies[i] = e
  OBVIOUS
<1> HIDE DEF copies
<1>2. /\ q \o copies \in Seq(Items) /\ Len(q \o copies) = Len(q) + n /\ Len(q) \in Nat
      /\ \A i \in 1..Len(q) : (q \o copies)[i] = q[i]
      /\ \A i \in 1..Len(q \o copies) : i \notin 1..Len(q) => (q \o copies)[i] = e
  BY <1>1
<1> QED
  BY <1>2 DEF copies

\* What the hooks make of an input: an event of its own, marked if it was seen twice.
LEMMA NewEvent ==
    ASSUME IInv, Input
    PROVE  \E e \in Raw :
               /\ Deliver(e) /\ e.at = events + 1
               /\ e.kind = "char" => e.into = focus /\ e.moved = moved
               /\ doubled' \in {doubled, doubled \cup {e.at}}
               /\ Cardinality(Seen(e.kind)) > 1 => e.at \in doubled'
<1> DEFINE ev(k) == [kind |-> k, at |-> events', into |-> IF k = "char" THEN focus ELSE "plain",
                     moved |-> IF k = "char" THEN moved ELSE 0]
<1>1. PICK k \in Kinds :
        /\ Deliver(ev(k))
        /\ doubled' = IF Cardinality(Seen(k)) > 1 THEN doubled \cup {events'} ELSE doubled
  BY DEF Input
<1>2. events' = events + 1
  BY DEF Input
<1>3. ev(k) \in Raw
  BY <1>2, BoundsAssumption DEF IInv, TypeOK, Input, Raw, Fields
<1>4. ev(k).kind = k /\ ev(k).at = events + 1 /\ (k = "char" => ev(k).into = focus /\ ev(k).moved = moved)
  BY <1>2
<1> HIDE DEF ev
<1> QED
  BY <1>1, <1>2, <1>3, <1>4

\* The record Emit adds.
LEMMA NewRecord ==
    ASSUME IInv, NEW s \in Sessions, Emit(s)
    PROVE  \E r \in Records :
               /\ recorded' = [recorded EXCEPT ![s] = Append(recorded[s], r)]
               /\ r.event = current[s]
               /\ Clear(r) => r.event.into = "plain" \/ r.late
<1>1. /\ current[s] \in Raw /\ Fresh(current[s]) /\ moved \in 0..MaxMoves /\ focus \in Fields
  BY DEF IInv, TypeOK, LineInv, Line, Emit
<1>2. PICK secure \in Secure(current[s].kind) :
        recorded' = [recorded EXCEPT ![s] =
            Append(recorded[s], [event |-> current[s], secure |-> secure,
                                 late |-> current[s].moved # moved])]
  BY DEF Emit
<1> DEFINE r == [event |-> current[s], secure |-> secure, late |-> current[s].moved # moved]
<1>3. secure \in BOOLEAN
  BY DEF Secure
<1>4. r \in Records
  BY <1>1, <1>3 DEF Records
<1>5. ASSUME Clear(r) PROVE r.event.into = "plain" \/ r.late
  <2>1. current[s].kind = "char" /\ ~secure
    BY <1>5 DEF Clear
  <2>2. focus = "plain"
    BY <1>1, <2>1 DEF Secure, Fields
  <2> QED
    BY <1>1, <2>1, <2>2 DEF Fresh
<1> QED
  BY <1>2, <1>4, <1>5

\* Every step keeps the types.
LEMMA TypeStep ==
    ASSUME IInv, [Next]_vars
    PROVE  TypeOK'
<1> USE DEF session, data, world
<1> DEFINE PcOK == pc \in [Sessions -> {"idle", "starting", "recording", "enriching", "stopping",
                                        "waiting", "returned", "refused"}]
           BufferOK == /\ buffer \in [Sessions -> Seq(Items)]
                       /\ \A s \in Sessions : Len(buffer[s]) <= BufferCap
           WorldOK == /\ ctx \subseteq Sessions
                      /\ focus \in Fields /\ moved \in 0..MaxMoves /\ events \in 0..MaxEvents
                      /\ doubled \subseteq 1..MaxEvents
                      /\ due \in [Sessions -> SUBSET (1..MaxEvents)]
           RestOK == /\ hooks \in [Sessions -> {"none", "mouse", "both", "quitting", "removed"}]
                     /\ active \subseteq Sessions
                     /\ current \in [Sessions -> Raw \cup {NoEvent}]
                     /\ recorded \in [Sessions -> Seq(Records)]
<1>1. TypeOK <=> PcOK /\ BufferOK /\ WorldOK /\ RestOK
  BY DEF TypeOK, Items, Records
<1>2. PcOK /\ BufferOK /\ WorldOK /\ RestOK
  BY <1>1 DEF IInv
<1> SUFFICES PcOK' /\ BufferOK' /\ WorldOK' /\ RestOK'
  <2>1. (TypeOK <=> PcOK /\ BufferOK /\ WorldOK /\ RestOK)'
    BY DEF TypeOK, Items, Records
  <2> QED
    BY <2>1
<1>3. CASE \E s \in Sessions : Sessional(s)
  <2>1. PICK s \in Sessions : Sessional(s)
    BY <1>3
  <2>2. UNCHANGED <<current, recorded, ctx, focus, moved, events, doubled, due>>
    BY <2>1 DEF Sessional, Start, InstallHook, InstallFails, Started, Stop, Unhook, Stopped, SeeCancel
  <2>3. PcOK' /\ hooks' \in [Sessions -> {"none", "mouse", "both", "quitting", "removed"}]
        /\ active' \subseteq Sessions
    BY <1>2, <2>1 DEF Sessional, Start, InstallHook, InstallFails, Started, Stop, Unhook, Stopped,
                      SeeCancel, Go
  <2>4. BufferOK'
    <3>1. UNCHANGED buffer \/ buffer' = [buffer EXCEPT ![s] = <<>>]
      BY <2>1 DEF Sessional, Start, InstallHook, InstallFails, Started, Stop, Unhook, Stopped, SeeCancel
    <3>2. <<>> \in Seq(Items) /\ Len(<<>>) <= BufferCap
      BY BufferCapAssumption
    <3> QED
      BY <1>2, <3>1, <3>2
  <2> QED
    BY <1>2, <2>2, <2>3, <2>4
<1>4. ASSUME NEW s \in Sessions, TakeEvent(s) PROVE PcOK' /\ BufferOK' /\ WorldOK' /\ RestOK'
  <2> DEFINE e == Head(buffer[s])
  <2>1. e \in Items /\ Tail(buffer[s]) \in Seq(Items) /\ Len(Tail(buffer[s])) <= BufferCap
    <3>1. buffer[s] \in Seq(Items) /\ buffer[s] # <<>> /\ Len(buffer[s]) <= BufferCap
      BY <1>2, <1>4 DEF TakeEvent
    <3> QED
      BY <3>1, TakenFrom, BufferCapAssumption
  <2>2. buffer' = [buffer EXCEPT ![s] = Tail(buffer[s])]
    BY <1>4 DEF TakeEvent
  <2>3. BufferOK'
    BY <1>2, <2>1, <2>2
  <2>4. \/ pc' = [pc EXCEPT ![s] = "stopping"] /\ UNCHANGED current
        \/ UNCHANGED <<pc, current>>
        \/ /\ pc' = [pc EXCEPT ![s] = "enriching"] /\ current' = [current EXCEPT ![s] = e]
           /\ e.kind # "silent"
    BY <1>4 DEF TakeEvent, Go
  <2>5. e.kind # "silent" => e \in Raw
    BY <2>1 DEF Items, Silent
  <2> HIDE DEF e
  <2>6. PcOK' /\ current' \in [Sessions -> Raw \cup {NoEvent}]
    <3>1. CASE UNCHANGED current
      BY <1>2, <2>4, <3>1
    <3>2. CASE /\ pc' = [pc EXCEPT ![s] = "enriching"] /\ current' = [current EXCEPT ![s] = e]
               /\ e.kind # "silent"
      BY <1>2, <2>5, <3>2
    <3> QED
      BY <2>4, <3>1, <3>2
  <2>7. UNCHANGED <<hooks, active, recorded, ctx, focus, moved, events, doubled, due>>
    BY <1>4 DEF TakeEvent
  <2> QED
    BY <1>2, <2>3, <2>6, <2>7
<1>5. ASSUME NEW s \in Sessions, Emit(s) PROVE PcOK' /\ BufferOK' /\ WorldOK' /\ RestOK'
  <2>1. PICK r \in Records : recorded' = [recorded EXCEPT ![s] = Append(recorded[s], r)]
    BY <1>5, NewRecord
  <2>2. recorded' \in [Sessions -> Seq(Records)]
    BY <1>2, <2>1, PutInto
  <2>3. PcOK' /\ current' \in [Sessions -> Raw \cup {NoEvent}]
    BY <1>2, <1>5 DEF Emit, Go
  <2>4. UNCHANGED <<hooks, active, buffer, ctx, focus, moved, events, doubled, due>>
    BY <1>5 DEF Emit
  <2> QED
    BY <1>2, <2>2, <2>3, <2>4
<1>6. CASE \E s \in Sessions : Cancel(s)
  BY <1>2, <1>6 DEF Cancel
<1>7. ASSUME NEW e \in Items, Deliver(e) PROVE BufferOK'
  <2>1. ASSUME NEW s \in Sessions PROVE buffer'[s] \in Seq(Items) /\ Len(buffer'[s]) <= BufferCap
    <3>1. PICK n \in Nat : /\ buffer'[s] = buffer[s] \o [i \in 1..n |-> e]
                           /\ Len(buffer[s]) + n <= BufferCap
      BY <1>7, Delivered
    <3>2. buffer[s] \in Seq(Items)
      BY <1>2
    <3>3. buffer'[s] \in Seq(Items) /\ Len(buffer'[s]) = Len(buffer[s]) + n
      BY <3>1, <3>2, Extended
    <3> QED
      BY <3>1, <3>3
  <2>2. buffer' = [s \in Sessions |-> buffer'[s]]
    BY <1>7 DEF Deliver
  <2> QED
    BY <2>1, <2>2
<1>8. CASE Input
  <2>1. PICK e \in Raw : Deliver(e) /\ e.at = events + 1 /\ doubled' \in {doubled, doubled \cup {e.at}}
    BY <1>8, NewEvent
  <2>2. BufferOK'
    BY <1>7, <2>1 DEF Items
  <2>3. events' \in 0..MaxEvents /\ events' = events + 1 /\ events' \in 1..MaxEvents
    BY <1>2, <1>8, BoundsAssumption DEF Input
  <2>4. doubled' \subseteq 1..MaxEvents /\ due' \in [Sessions -> SUBSET (1..MaxEvents)]
    BY <1>2, <1>8, <2>1, <2>3 DEF Input
  <2>5. UNCHANGED <<pc, hooks, active, current, recorded, ctx, focus, moved>>
    BY <1>8 DEF Input
  <2> QED
    BY <1>2, <2>2, <2>3, <2>4, <2>5
<1>9. CASE SilentInput
  BY <1>2, <1>7, <1>9 DEF SilentInput, Items
<1>10. CASE FocusMoves
  <2>1. moved' \in 0..MaxMoves /\ focus' \in Fields
    BY <1>2, <1>10, BoundsAssumption DEF FocusMoves
  <2> QED
    BY <1>2, <1>10, <2>1 DEF FocusMoves
<1>11. CASE UNCHANGED vars
  BY <1>2, <1>11 DEF vars
<1> QED
  BY NextCases, <1>3, <1>4, <1>5, <1>6, <1>8, <1>9, <1>10, <1>11

\* What a journey holds of a session.
Written(s) ==
    /\ \A i, j \in 1..Len(recorded[s]) :
           i < j => Before(recorded[s][i].event, recorded[s][j].event)
    /\ \A i \in 1..Len(recorded[s]) :
           /\ \A n \in due[s] : n < recorded[s][i].event.at => Told(s, n)
           /\ Clear(recorded[s][i]) => recorded[s][i].event.into = "plain" \/ recorded[s][i].late

Account(s) == Line(s) /\ Kept(s) /\ Written(s)

\* The invariants on the journey and on redaction, recording by recording.
LEMMA BySession == TypeOK => (LineInv /\ JourneyIsFaithful /\ ClearOnlyIfMoved
                              <=> \A s \in Sessions : Account(s))
<1> SUFFICES ASSUME TypeOK
             PROVE  LineInv /\ JourneyIsFaithful /\ ClearOnlyIfMoved
                    <=> \A s \in Sessions : Account(s)
  OBVIOUS
<1>1. \A s \in Sessions : DOMAIN recorded[s] = 1..Len(recorded[s])
  BY DEF TypeOK
<1> QED
  BY <1>1 DEF LineInv, JourneyIsFaithful, ClearOnlyIfMoved, Written, Told, Account

\* What kinds of things a session's sequences hold.
LEMMA Typed ==
    ASSUME TypeOK, NEW s \in Sessions
    PROVE  /\ buffer[s] \in Seq(Items) /\ recorded[s] \in Seq(Records)
           /\ Len(buffer[s]) \in Nat /\ Len(recorded[s]) \in Nat
           /\ \A i \in 1..Len(buffer[s]) : buffer[s][i] \in Items
           /\ \A i \in 1..Len(recorded[s]) : recorded[s][i].event \in Raw
           /\ \A e \in Raw : e.at \in Nat /\ e.moved \in Nat
           /\ events \in Nat /\ moved \in Nat /\ \A n \in due[s] : n \in Nat
<1>1. buffer[s] \in Seq(Items) /\ recorded[s] \in Seq(Records)
  BY DEF TypeOK, Records, Items
<1>2. events \in Nat /\ moved \in Nat /\ \A n \in due[s] : n \in Nat
  BY BoundsAssumption DEF TypeOK
<1>3. \A r \in Records : r.event \in Raw
  BY DEF Records
<1> QED
  BY <1>1, <1>2, <1>3, Distinct

\* Steps that touch neither the events of a session nor the world, and the start of a
\* recording or its end.
LEMMA AccountKept ==
    ASSUME NEW s \in Sessions, Account(s),
           UNCHANGED <<recorded[s], current[s], due[s], focus, moved, events, doubled>>,
           UNCHANGED buffer[s] \/ (buffer'[s] = <<>> /\ pc'[s] \notin Early),
           pc'[s] = "enriching" <=> pc[s] = "enriching",
           pc'[s] \in Early => pc[s] \in Early
    PROVE  Account(s)'
<1>1. CASE UNCHANGED buffer[s]
  BY <1>1 DEF Account, Line, Kept, Told, Written, Fresh, Clear, Before, Places
<1>2. CASE buffer'[s] = <<>> /\ pc'[s] \notin Early
  <2>1. Places(buffer[s])' = {} /\ pc'[s] # "enriching"
    BY <1>2 DEF Places, Early
  <2>2. Line(s)'
    BY <2>1 DEF Account, Line
  <2>3. Kept(s)'
    BY <1>2 DEF Kept
  <2>4. Written(s)'
    BY DEF Account, Written, Told, Clear, Before
  <2> QED
    BY <2>2, <2>3, <2>4 DEF Account
<1> QED
  BY <1>1, <1>2

\* Taking an event passes it on, and the rest of the buffer moves up.
LEMMA AccountTaken ==
    ASSUME IInv, TypeOK, NEW s \in Sessions, Account(s), TakeEvent(s)
    PROVE  Account(s)'
<1> DEFINE q == buffer[s]
           t == Tail(q)
<1>1. /\ buffer'[s] = t /\ q # <<>> /\ pc[s] = "recording"
      /\ UNCHANGED <<recorded, focus, moved, events, doubled, due>>
      /\ \/ pc'[s] = "stopping"
         \/ pc'[s] = "recording" /\ Head(q).kind = "silent"
         \/ pc'[s] = "enriching" /\ current'[s] = Head(q) /\ Head(q).kind # "silent"
  BY DEF TakeEvent, Go, TypeOK, data, world
<1>2. /\ Head(q) \in Items /\ Head(q) = q[1] /\ 1 \in 1..Len(q) /\ Len(t) = Len(q) - 1
      /\ Len(t) \in Nat
      /\ \A i \in 1..Len(t) : i + 1 \in 1..Len(q) /\ t[i] = q[i + 1]
  BY <1>1, TakenFrom, Typed
<1>3. Head(q).kind = "silent" <=> Head(q) \notin Raw
  BY <1>2, Distinct DEF Items, Silent, Kinds
<1>4. /\ \A i \in Places(t) : i + 1 \in Places(q) /\ t[i] = q[i + 1] /\ i \in Nat
      /\ \A i \in Places(q) : i = 1 \/ (i - 1 \in Places(t) /\ t[i - 1] = q[i])
      /\ 1 \in Places(q) <=> Head(q) \in Raw
      /\ Places(buffer[s])' = Places(t)
  <2>1. \A i \in 1..Len(q) : i = 1 \/ (i - 1 \in 1..Len(t) /\ (i - 1) + 1 = i)
    BY <1>2
  <2> HIDE DEF q, t
  <2>2. \A i \in Places(q) : i = 1 \/ (i - 1 \in Places(t) /\ t[i - 1] = q[i])
    BY <1>2, <2>1 DEF Places
  <2>3. \A i \in Places(t) : i + 1 \in Places(q) /\ t[i] = q[i + 1] /\ i \in Nat
    BY <1>2 DEF Places
  <2>4. Places(buffer[s])' = Places(t)
    BY <1>1 DEF Places
  <2> QED
    BY <1>2, <2>2, <2>3, <2>4 DEF Places
<1> HIDE DEF q, t
<1>5. Written(s)'
  BY <1>1 DEF Account, Written, Told, Clear, Before
<1>6. Line(s)'
  <2>1. ASSUME NEW i \in Places(t)
        PROVE  /\ Fresh(t[i])
               /\ \A j \in Places(t) : i < j => Before(t[i], t[j])
               /\ 1 \in Places(q) => Before(q[1], t[i])
    <3>1. i + 1 \in Places(q) /\ t[i] = q[i + 1] /\ \A j \in Places(t) : i < j => i + 1 < j + 1
      BY <1>4
    <3>2. 1 < i + 1
      BY <1>2 DEF Places
    <3> QED
      BY <1>4, <3>1, <3>2 DEF Account, Line, q
  <2>2. pc'[s] = "enriching" => current'[s] \in Raw /\ current'[s] = q[1] /\ 1 \in Places(q) /\ Fresh(q[1])
    BY <1>1, <1>2, <1>3, <1>4 DEF Account, Line, q
  <2>3. \A i \in 1..Len(recorded[s]) :
          /\ recorded[s][i].event.at <= events
          /\ 1 \in Places(q) => Before(recorded[s][i].event, q[1])
          /\ \A j \in Places(t) : Before(recorded[s][i].event, t[j])
    BY <1>4 DEF Account, Line, q
  <2>4. \A i \in Places(t) : Fresh(buffer[s][i])'
    BY <1>1, <2>1 DEF Fresh
  <2>5. pc'[s] = "enriching" => Fresh(current[s])'
    BY <1>1, <2>2 DEF Fresh
  <2> QED
    BY <1>1, <1>4, <2>1, <2>2, <2>3, <2>4, <2>5 DEF Line, Before
<1>7. Kept(s)'
  <2> SUFFICES ASSUME pc'[s] \in Early, NEW n \in due'[s]
               PROVE  \/ Told(s, n)'
                      \/ pc'[s] = "enriching" /\ current'[s].at = n
                      \/ \E i \in Places(buffer[s])' : buffer'[s][i].at = n
    BY DEF Kept
  <2>1. Told(s, n) \/ \E i \in Places(q) : q[i].at = n
    BY <1>1 DEF Account, Kept, Early, q
  <2>2. CASE Told(s, n)
    BY <1>1, <2>2 DEF Told
  <2>3. ASSUME NEW i \in Places(q), q[i].at = n
        PROVE  \/ pc'[s] = "enriching" /\ current'[s].at = n
               \/ \E j \in Places(buffer[s])' : buffer'[s][j].at = n
    <3>1. CASE i = 1
      BY <1>1, <1>2, <1>3, <1>4, <2>3, <3>1 DEF Early, q
    <3>2. CASE i # 1
      BY <1>1, <1>4, <2>3, <3>2
    <3> QED
      BY <3>1, <3>2
  <2> QED
    BY <2>1, <2>2, <2>3
<1> QED
  BY <1>5, <1>6, <1>7 DEF Account

\* Emitting puts the event that was taken last at the end of the journey.
LEMMA AccountEmitted ==
    ASSUME IInv, TypeOK, NEW s \in Sessions, Account(s), Emit(s)
    PROVE  Account(s)'
<1> DEFINE q == recorded[s]
           q1 == recorded'[s]
<1>1. PICK r \in Records : /\ recorded' = [recorded EXCEPT ![s] = Append(recorded[s], r)]
                           /\ r.event = current[s]
                           /\ Clear(r) => r.event.into = "plain" \/ r.late
  BY NewRecord
<1>2. /\ q1 = Append(q, r) /\ UNCHANGED <<buffer, focus, moved, events, doubled, due>>
      /\ pc'[s] = "recording" /\ pc[s] = "enriching"
  BY <1>1 DEF Emit, Go, TypeOK, world
<1>3. /\ Len(q1) = Len(q) + 1 /\ Len(q) \in Nat /\ \A i \in 1..Len(q) : q1[i] = q[i]
      /\ q1[Len(q) + 1] = r
  BY <1>2, Typed, PutInto
<1>4. /\ r.event \in Raw /\ r.event.at <= events
      /\ \A i \in Places(buffer[s]) : Before(r.event, buffer[s][i])
      /\ \A i \in 1..Len(q) : Before(q[i].event, r.event)
  BY <1>1, <1>2 DEF Account, Line, Fresh
<1> HIDE DEF q, q1
<1>5. /\ \A i \in 1..Len(q1) : i \in 1..Len(q) \/ (i = Len(q) + 1 /\ i \notin 1..Len(q))
      /\ Len(q) + 1 \in 1..Len(q1) /\ \A i \in 1..Len(q) : i \in 1..Len(q1)
  BY <1>3
<1>6. \A n : (Told(s, n) \/ r.event.at = n) => Told(s, n)'
  BY <1>3, <1>5 DEF Told, q, q1
<1>7. \A i, j \in 1..Len(q1) : i < j => Before(q1[i].event, q1[j].event)
  <2> SUFFICES ASSUME NEW i \in 1..Len(q1), NEW j \in 1..Len(q1), i < j
               PROVE  Before(q1[i].event, q1[j].event)
    OBVIOUS
  <2>1. i \in 1..Len(q)
    BY <1>3
  <2>2. CASE j \in 1..Len(q)
    BY <1>3, <2>1, <2>2 DEF Account, Written, q
  <2>3. CASE j = Len(q) + 1
    BY <1>3, <1>4, <2>1, <2>3
  <2> QED
    BY <1>5, <2>2, <2>3
<1>8. ASSUME NEW n \in due[s], n < r.event.at PROVE Told(s, n)
  <2>1. \/ Told(s, n) \/ r.event.at = n
        \/ \E i \in Places(buffer[s]) : buffer[s][i].at = n
    BY <1>1, <1>2 DEF Account, Kept, Early
  <2>2. n \in Nat /\ r.event.at \in Nat
    BY <1>4, Typed
  <2>3. ASSUME NEW i \in Places(buffer[s]), buffer[s][i].at = n PROVE FALSE
    <3>1. Before(r.event, buffer[s][i])
      BY <1>4
    <3> QED
      BY <1>8, <2>2, <2>3, <3>1 DEF Before
  <2> QED
    BY <1>8, <2>1, <2>2, <2>3
<1>9. Written(s)'
  <2>1. ASSUME NEW i \in 1..Len(q1)
        PROVE  /\ \A n \in due[s] : n < q1[i].event.at => Told(s, n)'
               /\ Clear(q1[i]) => q1[i].event.into = "plain" \/ q1[i].late
    <3>1. CASE i \in 1..Len(q)
      BY <1>3, <1>6, <3>1 DEF Account, Written, q
    <3>2. CASE i = Len(q) + 1
      BY <1>1, <1>3, <1>6, <1>8, <3>2
    <3> QED
      BY <1>5, <3>1, <3>2
  <2> QED
    BY <1>2, <1>7, <2>1 DEF Written, Clear, Before, q1
<1>10. Line(s)'
  <2>1. \A i \in 1..Len(q1) :
          /\ q1[i].event.at <= events
          /\ \A j \in Places(buffer[s]) : Before(q1[i].event, buffer[s][j])
    BY <1>3, <1>4, <1>5 DEF Account, Line, q
  <2>2. Places(buffer[s])' = Places(buffer[s]) /\ \A i \in Places(buffer[s]) : Fresh(buffer[s][i])'
    BY <1>2 DEF Account, Line, Fresh, Places
  <2> QED
    BY <1>2, <2>1, <2>2 DEF Account, Line, Before, q1
<1>11. Kept(s)'
  <2>1. \A n \in due[s] : Told(s, n) \/ r.event.at = n \/ \E i \in Places(buffer[s]) : buffer[s][i].at = n
    BY <1>1, <1>2 DEF Account, Kept, Early
  <2> QED
    BY <1>2, <1>6, <2>1 DEF Kept, Places
<1> QED
  BY <1>9, <1>10, <1>11 DEF Account

\* Copies at the end of a buffer are behind everything that is in it.
LEMMA AccountDelivered ==
    ASSUME IInv, TypeOK, NEW s \in Sessions, Account(s), NEW e \in Items, NEW n \in Nat,
           buffer'[s] = buffer[s] \o [i \in 1..n |-> e],
           UNCHANGED <<pc, current, recorded, focus, moved>>,
           events <= events', events' \in Nat, doubled \subseteq doubled',
           e \in Raw => /\ e.at = events' /\ events < events'
                        /\ e.kind = "char" => e.into = focus /\ e.moved = moved
                        /\ n > 1 => e.at \in doubled',
           \/ due'[s] = due[s]
           \/ due'[s] = due[s] \cup {events'} /\ e \in Raw /\ n > 0 /\ events < events'
    PROVE  Account(s)'
<1> DEFINE q == buffer[s]
           b == buffer'[s]
           rs == recorded[s]
           Later(x, y) == x.at < y.at \/ (x.at = y.at /\ x.at \in doubled')
           Good(x) == /\ x.at <= events'
                      /\ x.kind = "char" => x.moved <= moved' /\ (x.moved = moved' => x.into = focus')
<1>1. /\ Len(b) \in Nat /\ Len(b) = Len(q) + n /\ Len(q) \in Nat
      /\ \A i \in 1..Len(q) : b[i] = q[i]
      /\ \A i \in 1..Len(b) : i \notin 1..Len(q) => b[i] = e
  BY Typed, Extended
<1>2. /\ \A i \in Places(q) : q[i].at <= events /\ q[i] \in Raw
      /\ \A i \in 1..Len(rs) : rs[i].event.at <= events /\ rs[i].event \in Raw
      /\ pc[s] = "enriching" => current[s].at <= events /\ current[s] \in Raw
  BY Typed DEF Account, Line, Fresh, Places
<1>3. /\ \A x \in Raw : x.at \in Nat
      /\ events \in Nat /\ events' \in Nat /\ moved \in Nat /\ \A m \in due[s] : m \in Nat
  BY Typed
<1>4. \A x, y : Before(x, y) => Later(x, y)
  BY DEF Before
<1>5. \A x \in Raw : Fresh(x) => Good(x)
  BY <1>3 DEF Fresh
<1>6. e \in Raw => Good(e)
  BY <1>3 DEF Fresh
<1>7. ASSUME NEW x \in Raw, x.at <= events, e \in Raw PROVE Later(x, e)
  <2>1. x.at \in Nat /\ e.at = events' /\ events < events'
    BY <1>3, <1>7
  <2> QED
    BY <1>3, <1>7, <2>1 DEF Before
<1>8. /\ \A i \in Places(b) : (i \in Places(q) /\ b[i] = q[i]) \/ (i \notin 1..Len(q) /\ b[i] = e /\ e \in Raw)
      /\ \A i \in Places(q) : i \in Places(b) /\ b[i] = q[i]
      /\ Places(buffer[s])' = Places(b)
  <2>1. \A i \in 1..Len(q) : i \in 1..Len(b)
    BY <1>1
  <2>2. Places(buffer[s])' = Places(b)
    BY DEF Places
  <2> HIDE DEF q, b
  <2>3. \A i \in Places(b) : (i \in Places(q) /\ b[i] = q[i]) \/ (i \notin 1..Len(q) /\ b[i] = e /\ e \in Raw)
    BY <1>1 DEF Places
  <2>4. \A i \in Places(q) : i \in Places(b) /\ b[i] = q[i]
    BY <1>1, <2>1 DEF Places
  <2> QED
    BY <2>2, <2>3, <2>4
<1> HIDE DEF q, b, rs
<1>9. \A i \in Places(b) : b[i] \in Raw /\ Good(b[i])
  BY <1>2, <1>5, <1>6, <1>8 DEF Account, Line, q
<1>10. \A i, j \in Places(b) : i < j => Later(b[i], b[j])
  <2> SUFFICES ASSUME NEW i \in Places(b), NEW j \in Places(b), i < j PROVE Later(b[i], b[j])
    OBVIOUS
  <2>1. i \in 1..Len(b) /\ j \in 1..Len(b)
    BY DEF Places
  <2>2. CASE j \in Places(q)
    <3>1. i \in 1..Len(q)
      BY <1>1, <2>1, <2>2 DEF Places
    <3>2. i \in Places(q)
      BY <1>8, <3>1
    <3> QED
      BY <1>4, <1>8, <2>2, <3>2 DEF Account, Line, q
  <2>3. CASE j \notin 1..Len(q) /\ i \in Places(q)
    <3>1. b[j] = e /\ e \in Raw
      BY <1>8, <2>3 DEF Places
    <3>2. b[i] = q[i] /\ q[i] \in Raw /\ q[i].at <= events
      BY <1>2, <1>8, <2>3
    <3> QED
      BY <1>7, <3>1, <3>2
  <2>4. CASE j \notin 1..Len(q) /\ i \notin 1..Len(q)
    <3>1. b[i] = e /\ b[j] = e /\ e \in Raw
      BY <1>8, <2>4 DEF Places
    <3>2. n > 1
      BY <1>1, <2>1, <2>4
    <3> QED
      BY <3>1, <3>2 DEF Before
  <2> QED
    BY <1>8, <2>2, <2>3, <2>4
<1>11. pc[s] = "enriching" => /\ current[s] \in Raw /\ Good(current[s])
                              /\ \A i \in Places(b) : Later(current[s], b[i])
  <2> SUFFICES ASSUME pc[s] = "enriching"
               PROVE  /\ current[s] \in Raw /\ Good(current[s])
                      /\ \A i \in Places(b) : Later(current[s], b[i])
    OBVIOUS
  <2>1. current[s] \in Raw /\ Fresh(current[s]) /\ \A i \in Places(q) : Before(current[s], q[i])
    BY DEF Account, Line, q
  <2>2. Good(current[s])
    BY <1>3, <2>1 DEF Fresh
  <2>3. ASSUME NEW i \in Places(b) PROVE Later(current[s], b[i])
    <3>1. CASE i \in Places(q) /\ b[i] = q[i]
      BY <2>1, <3>1 DEF Before
    <3>2. CASE b[i] = e /\ e \in Raw
      <4>1. current[s].at <= events /\ current[s].at \in Nat /\ e.at = events' /\ events < events'
        BY <1>2, <1>3, <3>2
      <4> QED
        BY <1>3, <3>2, <4>1 DEF Before
    <3> QED
      BY <1>8, <3>1, <3>2
  <2> QED
    BY <2>1, <2>2, <2>3
<1>12. ASSUME NEW i \in 1..Len(rs)
       PROVE  /\ rs[i].event.at <= events'
              /\ pc[s] = "enriching" => Later(rs[i].event, current[s])
              /\ \A j \in Places(b) : Later(rs[i].event, b[j])
  <2>1. rs[i].event \in Raw /\ rs[i].event.at <= events /\ rs[i].event.at \in Nat
    BY <1>2, <1>3
  <2>2. /\ pc[s] = "enriching" => Before(rs[i].event, current[s])
        /\ \A j \in Places(q) : Before(rs[i].event, q[j])
    BY DEF Account, Line, q, rs
  <2>3. \A j \in Places(b) : Later(rs[i].event, b[j])
    BY <1>4, <1>7, <1>8, <2>1, <2>2
  <2>4. pc[s] = "enriching" => Later(rs[i].event, current[s])
    BY <2>2 DEF Before
  <2> QED
    BY <1>3, <2>1, <2>3, <2>4
<1>13. Line(s)'
  BY <1>8, <1>9, <1>10, <1>11, <1>12 DEF Line, Fresh, Before, b, rs
<1>14. \A m : Told(s, m) <=> Told(s, m)'
  BY DEF Told
<1>15. Kept(s)'
  <2> SUFFICES ASSUME pc[s] \in Early, NEW m \in due'[s]
               PROVE  \/ Told(s, m)
                      \/ pc[s] = "enriching" /\ current[s].at = m
                      \/ \E i \in Places(b) : b[i].at = m
    BY <1>8, <1>14 DEF Kept, b
  <2>1. CASE m \in due[s]
    <3>1. \/ Told(s, m)
          \/ pc[s] = "enriching" /\ current[s].at = m
          \/ \E i \in Places(q) : q[i].at = m
      BY <2>1 DEF Account, Kept, q
    <3> QED
      BY <1>8, <3>1
  <2>2. CASE m = events' /\ e \in Raw /\ n > 0
    <3>1. Len(b) \in 1..Len(b) /\ Len(b) \notin 1..Len(q)
      BY <1>1, <2>2
    <3>2. b[Len(b)] = e /\ e.at = m
      BY <1>1, <2>2, <3>1
    <3> QED
      BY <2>2, <3>1, <3>2 DEF Places
  <2> QED
    BY <2>1, <2>2
<1>16. Written(s)'
  <2>1. \A i \in 1..Len(rs) : \A m \in due'[s] : m < rs[i].event.at => Told(s, m)'
    <3> SUFFICES ASSUME NEW i \in 1..Len(rs), NEW m \in due'[s], m < rs[i].event.at
                 PROVE  Told(s, m)'
      OBVIOUS
    <3>1. rs[i].event.at <= events /\ rs[i].event.at \in Nat
      BY <1>2, <1>3
    <3>2. m \in due[s]
      BY <1>3, <3>1
    <3> QED
      BY <1>14, <3>2 DEF Account, Written, rs
  <2>2. \A i, j \in 1..Len(rs) : i < j => Later(rs[i].event, rs[j].event)
    BY <1>4 DEF Account, Written, rs
  <2>3. \A i \in 1..Len(rs) : Clear(rs[i]) => rs[i].event.into = "plain" \/ rs[i].late
    BY DEF Account, Written, rs
  <2> QED
    BY <2>1, <2>2, <2>3 DEF Written, Clear, Before, rs
<1> QED
  BY <1>13, <1>15, <1>16 DEF Account

\* Every step keeps times in order, loses nothing, and keeps the clear text with its
\* field.
LEMMA LineStep ==
    ASSUME IInv, [Next]_vars
    PROVE  LineInv' /\ JourneyIsFaithful' /\ ClearOnlyIfMoved'
<1> USE DEF session, data, world
<1>1. TypeOK /\ HookInv /\ \A s \in Sessions : Account(s)
  BY BySession DEF IInv
<1>2. TypeOK'
  BY TypeStep
<1> SUFFICES ASSUME NEW s \in Sessions PROVE Account(s)'
  <2>1. (\A s \in Sessions : Account(s))'
    OBVIOUS
  <2> QED
    BY <1>2, <2>1, BySession, PTL
<1>3. CASE \E t \in Sessions : Sessional(t) \/ Cancel(t) \/ ((TakeEvent(t) \/ Emit(t)) /\ t # s)
  <2>1. PICK t \in Sessions : Sessional(t) \/ Cancel(t) \/ ((TakeEvent(t) \/ Emit(t)) /\ t # s)
    BY <1>3
  <2>2. UNCHANGED <<recorded[s], current[s], due[s], focus, moved, events, doubled>>
    BY <1>1, <2>1 DEF Sessional, Start, InstallHook, InstallFails, Started, Stop, Unhook, Stopped,
                      SeeCancel, Cancel, TakeEvent, Emit, TypeOK
  <2>3. UNCHANGED buffer[s] \/ (buffer'[s] = <<>> /\ pc'[s] \notin Early)
    BY <1>1, <2>1 DEF Sessional, Start, InstallHook, InstallFails, Started, Stop, Unhook, Stopped,
                      SeeCancel, Cancel, TakeEvent, Emit, Go, TypeOK, Early
  <2>4. /\ pc'[s] = "enriching" <=> pc[s] = "enriching"
        /\ pc'[s] \in Early => pc[s] \in Early
    BY <1>1, <2>1 DEF Sessional, Start, InstallHook, InstallFails, Started, Stop, Unhook, Stopped,
                      SeeCancel, Cancel, TakeEvent, Emit, Go, TypeOK, Early
  <2> QED
    BY <1>1, <2>2, <2>3, <2>4, AccountKept
<1>4. CASE TakeEvent(s)
  BY <1>1, <1>4, AccountTaken
<1>5. CASE Emit(s)
  BY <1>1, <1>5, AccountEmitted
<1>6. CASE Input
  <2>1. PICK e \in Raw : /\ Deliver(e) /\ e.at = events + 1
                         /\ e.kind = "char" => e.into = focus /\ e.moved = moved
                         /\ doubled' \in {doubled, doubled \cup {e.at}}
                         /\ Cardinality(Seen(e.kind)) > 1 => e.at \in doubled'
    BY <1>6, NewEvent
  <2>2. PICK n \in Nat : /\ buffer'[s] = buffer[s] \o [i \in 1..n |-> e]
                         /\ n > 1 => Cardinality(Seen(e.kind)) > 1
                         /\ s \in active /\ hooks[s] = "both" /\ Len(buffer[s]) < BufferCap => n > 0
    BY <2>1, Delivered DEF Items
  <2>3. /\ UNCHANGED <<pc, current, recorded, focus, moved>>
        /\ events' = events + 1 /\ events \in Nat /\ events <= events' /\ events < events'
    BY <1>1, <1>6, Typed DEF Input
  <2>4. \/ due'[s] = due[s]
        \/ due'[s] = due[s] \cup {events'} /\ s \in active /\ hooks[s] = "both" /\ Len(buffer[s]) < BufferCap
    BY <1>6 DEF Input
  <2>5. events' \in Nat /\ doubled \subseteq doubled' /\ e \in Items
    BY <2>1, <2>3 DEF Items
  <2> QED
    BY <1>1, <2>1, <2>2, <2>3, <2>4, <2>5, AccountDelivered
<1>7. CASE SilentInput
  <2>1. Deliver(Silent) /\ UNCHANGED <<pc, current, recorded, focus, moved, events, doubled, due>>
    BY <1>7 DEF SilentInput
  <2>2. Silent \in Items /\ Silent \notin Raw
    BY Distinct DEF Items
  <2>3. PICK n \in Nat : buffer'[s] = buffer[s] \o [i \in 1..n |-> Silent]
    BY <2>1, <2>2, Delivered
  <2>4. events <= events' /\ events' \in Nat
    BY <1>1, <2>1, Typed
  <2> QED
    BY <1>1, <2>1, <2>2, <2>3, <2>4, AccountDelivered
<1>8. CASE FocusMoves
  <2>1. UNCHANGED <<pc, buffer, current, recorded, events, doubled, due>> /\ moved' = moved + 1
    BY <1>8 DEF FocusMoves
  <2>2. \A e \in Raw : Fresh(e) => Fresh(e)'
    <3>1. moved \in Nat /\ \A e \in Raw : e.moved \in Nat
      BY <1>1, Typed
    <3> QED
      BY <2>1, <3>1 DEF Fresh
  <2>3. Line(s)'
    <3>1. \A i \in Places(buffer[s]) : Fresh(buffer[s][i])'
      BY <1>1, <2>1, <2>2 DEF Account, Line, Places, Fresh
    <3>2. pc[s] = "enriching" => Fresh(current[s])'
      BY <1>1, <2>1, <2>2 DEF Account, Line, Fresh
    <3>3. Places(buffer[s])' = Places(buffer[s])
      BY <2>1 DEF Places
    <3> QED
      BY <1>1, <2>1, <3>1, <3>2, <3>3 DEF Account, Line, Before
  <2>4. Kept(s)' /\ Written(s)'
    BY <1>1, <2>1 DEF Account, Kept, Written, Told, Clear, Before, Places
  <2> QED
    BY <2>3, <2>4 DEF Account
<1>9. CASE UNCHANGED vars
  <2>1. UNCHANGED <<buffer[s], recorded[s], current[s], due[s], focus, moved, events, doubled, pc[s]>>
    BY <1>9 DEF vars
  <2> QED
    BY <1>1, <2>1, AccountKept
<1> QED
  BY NextCases, <1>3, <1>4, <1>5, <1>6, <1>7, <1>8, <1>9

\* The inductive invariant always holds.
LEMMA Inductive == Spec => []IInv
<1>1. IInv /\ [Next]_vars => IInv'
  <2> SUFFICES ASSUME IInv, [Next]_vars PROVE IInv'
    OBVIOUS
  <2> QED
    BY TypeStep, HookStep, HookedStep, LineStep DEF IInv
<1> QED
  BY InitHolds, <1>1, PTL DEF Spec

\* Every variable keeps its type; in particular no buffer is ever overfull, however
\* many sets of hooks deliver to it.
THEOREM TypeCorrect == Spec => []TypeOK
<1>1. IInv => TypeOK
  BY DEF IInv
<1> QED
  BY Inductive, <1>1, PTL

\* A call of RecordInput that has returned has left no hook installed, and does not
\* stand in the way of the next one.
THEOREM HooksGone == Spec => []HooksRemoved
<1>1. IInv => HooksRemoved
  BY DEF IInv, TypeOK, HookInv, HooksRemoved
<1> QED
  BY Inductive, <1>1, PTL

\* A journey has what the person did in order, nothing twice that one set of hooks
\* saw, and no gap that a full buffer does not account for.
THEOREM JourneyInOrder == Spec => []JourneyIsFaithful
<1>1. IInv => JourneyIsFaithful
  BY DEF IInv
<1> QED
  BY Inductive, <1>1, PTL

\* A character typed into a password field is recorded in clear only if the focus has
\* moved since it was typed.
THEOREM RedactionFailsClosed == Spec => []ClearOnlyIfMoved
<1>1. IInv => ClearOnlyIfMoved
  BY DEF IInv
<1> QED
  BY Inductive, <1>1, PTL
============================================================================
