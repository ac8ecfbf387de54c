---------------------------- MODULE EngineProofs ----------------------------
(***************************************************************************)
(* Proofs about Engine, for any number of calls and elements and any size  *)
(* of snapshot: every reference is accounted for and what a pattern job    *)
(* acts on is alive; and every step of the engine is one that JobService   *)
(* allows, so that jobs run one at a time and none is begun after Close.   *)
(***************************************************************************)
EXTENDS Engine, FiniteSetTheorems, FunctionTheorems, TLAPS

\* A pattern job's target is an element of the last snapshot for as long as it runs,
\* and nothing of a replaced snapshot is left when its job ends.
TargetInv ==
    /\ target = {} \/ (phase = "use" /\ \E i \in 1..Len(last) : target = {last[i]})
    /\ phase # "release" => old = <<>>

RefInv == TypeOK /\ TargetInv /\ RefsAccounted

----------------------------------------------------------------------------
(***************************************************************************)
(* How often an element occurs in a sequence.                              *)
(***************************************************************************)
At(e, s) == { i \in DOMAIN s : s[i] = e }

\* Occurrences counts the places where an element is, which are finitely many.
LEMMA OccurrencesType ==
    ASSUME NEW s \in Seq(Elements), NEW e
    PROVE  IsFiniteSet(At(e, s)) /\ Occurrences(e, s) \in Nat
           /\ Occurrences(e, s) = Cardinality(At(e, s))
<1>1. Len(s) \in Nat /\ DOMAIN s = 1..Len(s)
  OBVIOUS
<1>2. IsFiniteSet(1..Len(s))
  BY <1>1, FS_Interval
<1>3. At(e, s) \subseteq 1..Len(s)
  BY <1>1 DEF At
<1>4. IsFiniteSet(At(e, s))
  BY <1>2, <1>3, FS_Subset
<1> QED
  BY <1>4, FS_CardinalityType DEF Occurrences, At

\* Nothing occurs in the empty sequence.
LEMMA OccurrencesEmpty == \A e : Occurrences(e, <<>>) = 0
<1> SUFFICES ASSUME NEW e PROVE Occurrences(e, <<>>) = 0
  OBVIOUS
<1>1. { i \in DOMAIN <<>> : <<>>[i] = e } = {}
  OBVIOUS
<1> QED
  BY <1>1, FS_EmptySet DEF Occurrences

\* Appending an element makes it occur once more.
LEMMA OccurrencesAppend ==
    ASSUME NEW s \in Seq(Elements), NEW x \in Elements, NEW e \in Elements
    PROVE  Occurrences(e, Append(s, x)) = Occurrences(e, s) + IF e = x THEN 1 ELSE 0
<1> DEFINE t == Append(s, x)
           n == Len(s)
<1>1. /\ t \in Seq(Elements) /\ Len(t) = n + 1 /\ n \in Nat
      /\ \A i \in 1..n : t[i] = s[i]
      /\ t[n + 1] = x /\ DOMAIN t = 1..(n + 1) /\ DOMAIN s = 1..n
  OBVIOUS
<1> HIDE DEF t, n
<1>2. /\ IsFiniteSet(At(e, s)) /\ Occurrences(e, s) = Cardinality(At(e, s))
      /\ Occurrences(e, t) = Cardinality(At(e, t)) /\ Occurrences(e, s) \in Nat
  BY <1>1, OccurrencesType
<1>3. CASE e = x
  <2>1. At(e, t) = At(e, s) \cup {n + 1}
    BY <1>1, <1>3 DEF At
  <2>2. n + 1 \notin At(e, s)
    BY <1>1 DEF At
  <2>3. Cardinality(At(e, s) \cup {n + 1}) = Cardinality(At(e, s)) + 1
    BY <1>2, <2>2, FS_AddElement
  <2> QED
    BY <1>2, <1>3, <2>1, <2>3 DEF t
<1>4. CASE e # x
  <2>1. At(e, t) = At(e, s)
    BY <1>1, <1>4 DEF At
  <2> QED
    BY <1>2, <1>4, <2>1 DEF t
<1> QED
  BY <1>3, <1>4

\* Taking the head off makes it occur once less.
LEMMA OccurrencesTail ==
    ASSUME NEW s \in Seq(Elements), s # <<>>, NEW e \in Elements
    PROVE  Occurrences(e, s) = Occurrences(e, Tail(s)) + IF e = Head(s) THEN 1 ELSE 0
<1> DEFINE t == Tail(s)
           n == Len(s)
<1>1. /\ t \in Seq(Elements) /\ n \in Nat \ {0} /\ Len(t) = n - 1
      /\ \A i \in 1..(n - 1) : t[i] = s[i + 1]
      /\ Head(s) = s[1] /\ DOMAIN t = 1..(n - 1) /\ DOMAIN s = 1..n
  OBVIOUS
<1> HIDE DEF t, n
<1>2. /\ IsFiniteSet(At(e, s)) /\ Occurrences(e, s) = Cardinality(At(e, s))
      /\ IsFiniteSet(At(e, t)) /\ Occurrences(e, t) = Cardinality(At(e, t))
      /\ Occurrences(e, t) \in Nat
  BY <1>1, OccurrencesType
<1> DEFINE later == At(e, s) \ {1}
           shift == [i \in At(e, t) |-> i + 1]
<1>3. shift \in Bijection(At(e, t), later)
  <2>1. \A i \in At(e, t) : i \in Nat /\ i + 1 \in later
    BY <1>1 DEF At
  <2>2. \A j \in later : j - 1 \in At(e, t) /\ j \in Nat
    BY <1>1 DEF At
  <2>3. shift \in [At(e, t) -> later]
    BY <2>1
  <2>4. \A i, j \in At(e, t) : shift[i] = shift[j] => i = j
    BY <2>1
  <2>5. \A j \in later : \E i \in At(e, t) : shift[i] = j
    <3> TAKE j \in later
    <3>1. j - 1 \in At(e, t) /\ shift[j - 1] = j
      BY <2>2
    <3> QED
      BY <3>1
  <2> QED
    BY <2>3, <2>4, <2>5, Fun_IsBij
<1>4. Cardinality(later) = Cardinality(At(e, t))
  BY <1>2, <1>3, Fun_ExistsBij, FS_Bijection
<1>5. Cardinality(later) = IF 1 \in At(e, s) THEN Cardinality(At(e, s)) - 1 ELSE Cardinality(At(e, s))
  BY <1>2, FS_RemoveElement
<1>6. 1 \in At(e, s) <=> e = Head(s)
  BY <1>1 DEF At
<1>7. Cardinality(At(e, s)) \in Nat
  BY <1>2, FS_CardinalityType
<1> QED
  BY <1>2, <1>4, <1>5, <1>6, <1>7 DEF t

\* What is in a sequence occurs in it.
LEMMA Occurring ==
    ASSUME NEW s \in Seq(Elements), NEW i \in 1..Len(s)
    PROVE  Occurrences(s[i], s) > 0
<1>1. i \in At(s[i], s) /\ IsFiniteSet(At(s[i], s)) /\ Occurrences(s[i], s) = Cardinality(At(s[i], s))
  BY OccurrencesType DEF At
<1>2. Cardinality(At(s[i], s)) # 0 /\ Cardinality(At(s[i], s)) \in Nat
  BY <1>1, FS_EmptySet, FS_CardinalityType
<1> QED
  BY <1>1, <1>2

----------------------------------------------------------------------------
(***************************************************************************)
(* Calls and threads find each other.                                      *)
(***************************************************************************)
\* A thread runs the job of the one call that waits for it; queries have the
\* workers and everything else has the STA thread.
MeetInv ==
    /\ \A t \in Threads : thread[t] = "running" =>
           serving[t] \in Callers /\ step[serving[t]] = "waiting" /\ on[serving[t]] = t
    /\ \A c \in Callers : step[c] = "waiting" => thread[on[c]] = "running" /\ serving[on[c]] = c
    /\ \A c \in Callers :
           /\ kind[c] # "query" => on[c] = "sta" /\ step[c] # "connect"
           /\ kind[c] = "query" /\ step[c] \in {"send", "parked", "waiting"} => on[c] \in Workers
    /\ phase # "none" => thread["sta"] = "running"

\* Closing the engine is closing its quit channel, after which nobody is parked.
QuitInv ==
    /\ closer = "closed" <=> "sta" \in quit
    /\ closer = "closed" => /\ thread["sta"] # "parked"
                            /\ \A c \in Callers : step[c] = "parked" => on[c] # "sta"

\* Close ends the first worker at most, and only after that a second one is started.
WorkerInv ==
    /\ thread["wmi2"] = "none" \/ (wmi = "wmi2" /\ closer \in {"quit", "closed"})
    /\ thread["wmi1"] = "none" \/ wmi # "none" \/ closer \in {"quit", "closed"}

IInv == RefInv /\ MeetInv /\ QuitInv /\ WorkerInv

\* The workers are threads of their own.
LEMMA ThreadFacts == /\ Threads = {"sta", "wmi1", "wmi2"} /\ Workers = {"wmi1", "wmi2"}
                     /\ "sta" \notin Workers /\ Workers \subseteq Threads
BY DEF Threads, Workers

\* The invariant holds at the start.
LEMMA InitHolds == Init => IInv
<1> SUFFICES ASSUME Init PROVE IInv
  OBVIOUS
<1>1. kind \in Workloads /\ kind \in [Callers -> Kinds]
  BY WorkloadsAssumption DEF Init
<1>2. <<>> \in Seq(Elements) /\ Len(<<>>) = 0 /\ 1 \in 1..MaxNodes /\ 0 <= MaxNodes
  BY MaxNodesAssumption
<1>3. TypeOK
  <2>1. thread \in [Threads -> {"none", "arriving", "parked", "running", "gone"}]
    BY DEF Init
  <2>2. serving \in [Threads -> Callers \cup {NoCall}] /\ on \in [Callers -> Threads]
    BY ThreadFacts DEF Init
  <2>3. refs \in [Elements -> Nat] /\ leaked \in [Elements -> Nat]
    BY DEF Init
  <2> QED
    BY <1>1, <1>2, <2>1, <2>2, <2>3 DEF Init, TypeOK
<1>4. TargetInv /\ RefsAccounted
  BY OccurrencesEmpty DEF Init, TargetInv, RefsAccounted
<1>5. MeetInv
  <2>1. \A t \in Threads : thread[t] # "running"
    BY DEF Init
  <2> QED
    BY <2>1 DEF Init, MeetInv
<1>6. QuitInv
  BY ThreadFacts DEF Init, QuitInv
<1>7. WorkerInv
  BY ThreadFacts DEF Init, WorkerInv
<1> QED
  BY <1>3, <1>4, <1>5, <1>6, <1>7 DEF IInv, RefInv

\* A step that starts no worker and does not close leaves the workers as they were.
LEMMA WorkersUntouched ==
    ASSUME WorkerInv, UNCHANGED <<wmi, closer>>,
           thread["wmi1"] = "none" => thread'["wmi1"] = "none",
           thread["wmi2"] = "none" => thread'["wmi2"] = "none"
    PROVE  WorkerInv'
BY DEF WorkerInv

\* A step that leaves the elements alone leaves what is said of them alone.
LEMMA ElementsUntouched ==
    ASSUME RefInv, TypeOK', UNCHANGED elements
    PROVE  RefInv'
BY DEF RefInv, TargetInv, RefsAccounted, elements

\* What Accept does: it makes a thread and a call meet.
LEMMA AcceptStep ==
    ASSUME TypeOK, MeetInv, QuitInv, NEW c \in Callers, Accept(c, on[c]),
           step[c] \in {"send", "parked"}, thread[on[c]] \in {"arriving", "parked"},
           UNCHANGED <<on, kind, phase, closer, quit>>
    PROVE  /\ MeetInv' /\ QuitInv'
           /\ step' \in [Callers -> {"idle", "connect", "send", "parked", "waiting", "done"}]
           /\ thread' \in [Threads -> {"none", "arriving", "parked", "running", "gone"}]
           /\ serving' \in [Threads -> Callers \cup {NoCall}]
<1> DEFINE t == on[c]
<1>1. /\ t \in Threads /\ step \in [Callers -> {"idle", "connect", "send", "parked", "waiting", "done"}]
      /\ thread \in [Threads -> {"none", "arriving", "parked", "running", "gone"}]
      /\ serving \in [Threads -> Callers \cup {NoCall}]
  BY DEF TypeOK
<1>2. /\ thread' = [thread EXCEPT ![t] = "running"]
      /\ serving' = [serving EXCEPT ![t] = c] /\ step' = [step EXCEPT ![c] = "waiting"]
  BY DEF Accept
<1>3. \A d \in Callers : step[d] = "waiting" => on[d] # t /\ d # c
  BY DEF MeetInv
<1>4. MeetInv'
  <2>1. ASSUME NEW u \in Threads, thread'[u] = "running"
        PROVE  serving'[u] \in Callers /\ step'[serving'[u]] = "waiting" /\ on'[serving'[u]] = u
    BY <1>1, <1>2, <1>3, <2>1 DEF MeetInv
  <2>2. ASSUME NEW d \in Callers, step'[d] = "waiting"
        PROVE  thread'[on'[d]] = "running" /\ serving'[on'[d]] = d
    BY <1>1, <1>2, <1>3, <2>2 DEF MeetInv, TypeOK
  <2>3. ASSUME NEW d \in Callers
        PROVE  /\ kind'[d] # "query" => on'[d] = "sta" /\ step'[d] # "connect"
               /\ kind'[d] = "query" /\ step'[d] \in {"send", "parked", "waiting"} => on'[d] \in Workers
    BY <1>1, <1>2 DEF MeetInv
  <2>4. phase' # "none" => thread'["sta"] = "running"
    BY <1>1, <1>2, ThreadFacts DEF MeetInv
  <2> QED
    BY <2>1, <2>2, <2>3, <2>4 DEF MeetInv
<1>5. QuitInv'
  BY <1>1, <1>2, ThreadFacts DEF QuitInv
<1> QED
  BY <1>1, <1>2, <1>4, <1>5

\* What Finish does: the call has its answer, and the thread looks for the next.
LEMMA FinishStep ==
    ASSUME TypeOK, MeetInv, QuitInv, NEW t \in Threads, NEW r \in {"ok", "error"},
           thread[t] = "running", Finish(t, r),
           UNCHANGED <<on, kind, closer, quit>>,
           t = "sta" => phase' = "none", t # "sta" => UNCHANGED phase
    PROVE  /\ MeetInv' /\ QuitInv'
           /\ step' \in [Callers -> {"idle", "connect", "send", "parked", "waiting", "done"}]
           /\ result' \in [Callers -> {"none", "ok", "error", "closed"}]
           /\ thread' \in [Threads -> {"none", "arriving", "parked", "running", "gone"}]
           /\ serving' \in [Threads -> Callers \cup {NoCall}]
<1> DEFINE c == serving[t]
<1>1. /\ step \in [Callers -> {"idle", "connect", "send", "parked", "waiting", "done"}]
      /\ thread \in [Threads -> {"none", "arriving", "parked", "running", "gone"}]
      /\ serving \in [Threads -> Callers \cup {NoCall}]
      /\ result \in [Callers -> {"none", "ok", "error", "closed"}]
      /\ c \in Callers /\ step[c] = "waiting" /\ on[c] = t
  BY DEF TypeOK, MeetInv
<1>2. /\ thread' = [thread EXCEPT ![t] = "arriving"] /\ serving' = [serving EXCEPT ![t] = NoCall]
      /\ step' = [step EXCEPT ![c] = "done"] /\ result' = [result EXCEPT ![c] = r]
  BY DEF Finish
<1>3. MeetInv'
  <2>1. ASSUME NEW u \in Threads, thread'[u] = "running"
        PROVE  serving'[u] \in Callers /\ step'[serving'[u]] = "waiting" /\ on'[serving'[u]] = u
    <3>1. u # t /\ thread[u] = "running" /\ serving'[u] = serving[u]
      BY <1>1, <1>2, <2>1
    <3>2. serving[u] \in Callers /\ step[serving[u]] = "waiting" /\ on[serving[u]] = u
      BY <3>1 DEF MeetInv
    <3> QED
      BY <1>1, <1>2, <3>1, <3>2
  <2>2. ASSUME NEW d \in Callers, step'[d] = "waiting"
        PROVE  thread'[on'[d]] = "running" /\ serving'[on'[d]] = d
    <3>1. d # c /\ step[d] = "waiting"
      BY <1>1, <1>2, <2>2
    <3>2. thread[on[d]] = "running" /\ serving[on[d]] = d /\ on[d] # t
      BY <3>1 DEF MeetInv
    <3> QED
      BY <1>1, <1>2, <3>2 DEF TypeOK
  <2>3. ASSUME NEW d \in Callers
        PROVE  /\ kind'[d] # "query" => on'[d] = "sta" /\ step'[d] # "connect"
               /\ kind'[d] = "query" /\ step'[d] \in {"send", "parked", "waiting"} => on'[d] \in Workers
    BY <1>1, <1>2 DEF MeetInv
  <2>4. phase' # "none" => thread'["sta"] = "running"
    BY <1>1, <1>2, ThreadFacts DEF MeetInv
  <2> QED
    BY <2>1, <2>2, <2>3, <2>4 DEF MeetInv
<1>4. QuitInv'
  BY <1>1, <1>2, ThreadFacts DEF QuitInv
<1> QED
  BY <1>1, <1>2, <1>3, <1>4

----------------------------------------------------------------------------
(***************************************************************************)
(* The steps.                                                              *)
(***************************************************************************)
LEMMA CallingStep ==
    ASSUME IInv, NEW c \in Callers, StartCall(c) \/ Connect(c)
    PROVE  IInv'
<1> USE DEF calls
<1>0. /\ step \in [Callers -> {"idle", "connect", "send", "parked", "waiting", "done"}]
      /\ on \in [Callers -> Threads] /\ serving \in [Threads -> Callers \cup {NoCall}]
      /\ thread \in [Threads -> {"none", "arriving", "parked", "running", "gone"}]
  BY DEF IInv, RefInv, TypeOK
<1>1. /\ UNCHANGED <<kind, serving, quit, closer, elements, phase>>
      /\ step[c] \in {"idle", "connect"}
      /\ \E s \in {"connect", "send", "done"} : step' = [step EXCEPT ![c] = s]
      /\ step'[c] = "connect" => kind[c] = "query"
  BY <1>0 DEF StartCall, Connect, elements
<1>2. /\ on' \in [Callers -> Threads] /\ label' \in [Callers -> 1..MaxNodes]
      /\ result' \in [Callers -> {"none", "ok", "error", "closed"}]
      /\ wmi' \in Workers \cup {"none"}
      /\ \A d \in Callers \ {c} : on'[d] = on[d]
      /\ kind[c] # "query" => on'[c] = on[c]
      /\ kind[c] = "query" /\ step'[c] = "send" => on'[c] \in Workers
  <2>1. CASE StartCall(c)
    <3>1. on' = on /\ result' = result /\ wmi' = wmi /\ (kind[c] = "query" => step'[c] = "connect")
      BY <1>0, <2>1 DEF StartCall
    <3>2. label' \in [Callers -> 1..MaxNodes]
      BY <2>1 DEF StartCall, IInv, RefInv, TypeOK
    <3> QED
      BY <3>1, <3>2 DEF IInv, RefInv, TypeOK
  <2>2. CASE Connect(c)
    <3>1. kind[c] = "query"
      BY <2>2 DEF Connect, IInv, MeetInv
    <3>2. on' = on \/ \E w \in Workers : on' = [on EXCEPT ![c] = w]
      BY <2>2, ThreadFacts DEF Connect, IInv, RefInv, TypeOK
    <3>3. result' = result \/ result' = [result EXCEPT ![c] = "error"]
      BY <2>2 DEF Connect
    <3>4. wmi' \in Workers \cup {"none"} /\ label' = label
      BY <2>2, ThreadFacts DEF Connect, IInv, RefInv, TypeOK
    <3>5. step'[c] = "send" => on'[c] \in Workers
      BY <1>0, <2>2, ThreadFacts DEF Connect, IInv, RefInv, TypeOK
    <3>6. on' \in [Callers -> Threads] /\ \A d \in Callers \ {c} : on'[d] = on[d]
      BY <1>0, <3>2, ThreadFacts
    <3>7. result' \in [Callers -> {"none", "ok", "error", "closed"}] /\ label' \in [Callers -> 1..MaxNodes]
      BY <3>3, <3>4 DEF IInv, RefInv, TypeOK
    <3> QED
      BY <3>1, <3>4, <3>5, <3>6, <3>7
  <2> QED
    BY <2>1, <2>2
<1>3. /\ \/ thread' = thread /\ (wmi' = wmi)
         \/ \E w \in Workers : /\ thread' = [thread EXCEPT ![w] = "arriving"] /\ wmi' = w
                               /\ thread[w] = "none" /\ wmi = "none"
                               /\ w = "wmi2" => thread["wmi1"] # "none"
  <2>1. CASE thread' = thread /\ wmi' = wmi
    BY <2>1
  <2>2. CASE ~(thread' = thread /\ wmi' = wmi)
    <3>1. PICK w \in Workers : /\ thread' = [thread EXCEPT ![w] = "arriving"] /\ wmi' = w
                               /\ w = IF thread["wmi1"] = "none" THEN "wmi1" ELSE "wmi2"
                               /\ wmi = "none"
      BY <2>2, ThreadFacts DEF StartCall, Connect
    <3>2. thread[w] = "none"
      BY <3>1 DEF IInv, WorkerInv
    <3> QED
      BY <3>1, <3>2
  <2> QED
    BY <2>1, <2>2
<1>4. /\ thread' \in [Threads -> {"none", "arriving", "parked", "running", "gone"}]
      /\ \A t \in Threads : thread'[t] = "running" <=> thread[t] = "running"
      /\ thread'["sta"] = thread["sta"]
  BY <1>0, <1>3, ThreadFacts
<1>5. TypeOK'
  <2>1. step' \in [Callers -> {"idle", "connect", "send", "parked", "waiting", "done"}]
    BY <1>0, <1>1
  <2> QED
    BY <1>1, <1>2, <1>4, <2>1 DEF IInv, RefInv, TypeOK, elements
<1>6. RefInv'
  BY <1>1, <1>5, ElementsUntouched DEF IInv
<1>7. MeetInv'
  <2>1. ASSUME NEW t \in Threads, thread'[t] = "running"
        PROVE  serving'[t] \in Callers /\ step'[serving'[t]] = "waiting" /\ on'[serving'[t]] = t
    <3>1. serving[t] \in Callers /\ step[serving[t]] = "waiting" /\ on[serving[t]] = t
      BY <1>4, <2>1 DEF IInv, MeetInv
    <3>2. serving[t] # c
      BY <1>1, <3>1
    <3> QED
      BY <1>0, <1>1, <1>2, <3>1, <3>2
  <2>2. ASSUME NEW d \in Callers, step'[d] = "waiting"
        PROVE  thread'[on'[d]] = "running" /\ serving'[on'[d]] = d
    <3>1. d # c /\ step[d] = "waiting" /\ on'[d] = on[d]
      BY <1>0, <1>1, <1>2, <2>2
    <3>2. thread[on[d]] = "running" /\ serving[on[d]] = d /\ on[d] \in Threads
      BY <1>0, <3>1 DEF IInv, MeetInv
    <3> QED
      BY <1>1, <1>4, <3>1, <3>2
  <2>3. ASSUME NEW d \in Callers
        PROVE  /\ kind'[d] # "query" => on'[d] = "sta" /\ step'[d] # "connect"
               /\ kind'[d] = "query" /\ step'[d] \in {"send", "parked", "waiting"} => on'[d] \in Workers
    BY <1>0, <1>1, <1>2 DEF IInv, MeetInv
  <2> QED
    BY <1>1, <1>4, <2>1, <2>2, <2>3 DEF IInv, MeetInv
<1>8. QuitInv'
  <2>1. \A d \in Callers : step'[d] = "parked" => d # c /\ step[d] = "parked" /\ on'[d] = on[d]
    BY <1>0, <1>1, <1>2
  <2> QED
    BY <1>1, <1>4, <2>1 DEF IInv, QuitInv
<1>9. WorkerInv'
  BY <1>0, <1>1, <1>3, ThreadFacts DEF IInv, WorkerInv
<1> QED
  BY <1>6, <1>7, <1>8, <1>9 DEF IInv

\* A call and a thread at their selects.
LEMMA SelectStep ==
    ASSUME IInv, (\E c \in Callers : Send(c)) \/ (\E t \in Threads : Receive(t))
    PROVE  IInv'
<1> USE DEF calls
<1>0. /\ step \in [Callers -> {"idle", "connect", "send", "parked", "waiting", "done"}]
      /\ on \in [Callers -> Threads] /\ serving \in [Threads -> Callers \cup {NoCall}]
      /\ thread \in [Threads -> {"none", "arriving", "parked", "running", "gone"}]
      /\ result \in [Callers -> {"none", "ok", "error", "closed"}]
  BY DEF IInv, RefInv, TypeOK
<1>1. UNCHANGED <<on, kind, label, quit, wmi, closer, elements, phase>>
  BY DEF Send, Receive, elements
<1>2. CASE \E c \in Callers : /\ step[c] \in {"send", "parked"}
                               /\ thread[on[c]] \in {"arriving", "parked"}
                               /\ Accept(c, on[c]) /\ result' = result
  <2>1. PICK c \in Callers : /\ step[c] \in {"send", "parked"}
                             /\ thread[on[c]] \in {"arriving", "parked"}
                             /\ Accept(c, on[c]) /\ result' = result
    BY <1>2
  <2>2. /\ MeetInv' /\ QuitInv'
        /\ step' \in [Callers -> {"idle", "connect", "send", "parked", "waiting", "done"}]
        /\ thread' \in [Threads -> {"none", "arriving", "parked", "running", "gone"}]
        /\ serving' \in [Threads -> Callers \cup {NoCall}]
    BY <1>1, <2>1, AcceptStep DEF IInv, RefInv
  <2>3. TypeOK'
    BY <1>1, <2>1, <2>2 DEF IInv, RefInv, TypeOK, elements
  <2>4. WorkerInv'
    <3>1. \A t \in Threads : thread[t] = "none" => thread'[t] = "none"
      BY <1>0, <2>1 DEF Accept
    <3> QED
      BY <1>1, <3>1, ThreadFacts, WorkersUntouched DEF IInv
  <2> QED
    BY <1>1, <2>2, <2>3, <2>4, ElementsUntouched DEF IInv
<1>3. CASE \E c \in Callers, s \in {"done", "parked"}, r \in {"none", "closed"} :
              /\ step[c] = "send" /\ step' = [step EXCEPT ![c] = s]
              /\ s = "parked" => thread[on[c]] # "parked" /\ on[c] \notin quit
              /\ result' = result \/ result' = [result EXCEPT ![c] = r]
              /\ UNCHANGED <<thread, serving>>
  <2>1. PICK c \in Callers, s \in {"done", "parked"}, r \in {"none", "closed"} :
              /\ step[c] = "send" /\ step' = [step EXCEPT ![c] = s]
              /\ s = "parked" => thread[on[c]] # "parked" /\ on[c] \notin quit
              /\ result' = result \/ result' = [result EXCEPT ![c] = r]
              /\ UNCHANGED <<thread, serving>>
    BY <1>3
  <2>2. TypeOK'
    BY <1>0, <1>1, <2>1 DEF IInv, RefInv, TypeOK, elements
  <2>3. MeetInv'
    <3>1. \A d \in Callers : step'[d] = "waiting" <=> step[d] = "waiting"
      BY <1>0, <2>1
    <3>2. \A d \in Callers : /\ step'[d] = "connect" => step[d] = "connect"
                            /\ step'[d] \in {"send", "parked", "waiting"} => step[d] \in {"send", "parked", "waiting"}
      BY <1>0, <2>1
    <3> QED
      BY <1>1, <2>1, <3>1, <3>2 DEF IInv, MeetInv
  <2>4. QuitInv'
    BY <1>0, <1>1, <2>1 DEF IInv, QuitInv
  <2>5. WorkerInv'
    BY <1>1, <2>1, WorkersUntouched DEF IInv
  <2> QED
    BY <1>1, <2>2, <2>3, <2>4, <2>5, ElementsUntouched DEF IInv
<1>4. CASE \E t \in Threads, a \in {"gone", "parked"} :
              /\ thread[t] = "arriving" /\ thread' = [thread EXCEPT ![t] = a]
              /\ a = "parked" => t \notin quit
              /\ UNCHANGED <<step, serving, result>>
  <2>1. PICK t \in Threads, a \in {"gone", "parked"} :
              /\ thread[t] = "arriving" /\ thread' = [thread EXCEPT ![t] = a]
              /\ a = "parked" => t \notin quit
              /\ UNCHANGED <<step, serving, result>>
    BY <1>4
  <2>2. /\ \A u \in Threads : thread'[u] = "running" <=> thread[u] = "running"
        /\ \A u \in Threads : thread'[u] = "none" <=> thread[u] = "none"
        /\ thread'["sta"] = "parked" => thread["sta"] = "parked" \/ "sta" \notin quit
    BY <1>0, <2>1, ThreadFacts
  <2>3. TypeOK'
    BY <1>0, <1>1, <2>1 DEF IInv, RefInv, TypeOK, elements
  <2>4. MeetInv'
    BY <1>0, <1>1, <2>1, <2>2, ThreadFacts DEF IInv, MeetInv
  <2>5. QuitInv' /\ WorkerInv'
    BY <1>1, <2>1, <2>2, ThreadFacts, WorkersUntouched DEF IInv, QuitInv
  <2> QED
    BY <1>1, <2>3, <2>4, <2>5, ElementsUntouched DEF IInv
<1>5. ASSUME NEW c \in Callers, Send(c)
      PROVE  IInv'
  BY <1>2, <1>3, <1>5 DEF Send
<1>6. ASSUME NEW t \in Threads, Receive(t)
      PROVE  IInv'
  BY <1>2, <1>4, <1>6 DEF Receive, Waiting
<1> QED
  BY <1>5, <1>6

\* A job of the STA thread, or a query, is answered.
LEMMA AnswerStep ==
    ASSUME IInv, NEW t \in Threads, NEW r \in {"ok", "error"}, thread[t] = "running",
           Finish(t, r), UNCHANGED <<on, calls, quit, wmi, closer>>,
           t = "sta" => phase' = "none", t # "sta" => UNCHANGED phase, RefInv'
    PROVE  IInv'
<1> USE DEF calls
<1>1. MeetInv' /\ QuitInv'
  BY FinishStep DEF IInv, RefInv
<1>2. thread["wmi1"] = "none" => thread'["wmi1"] = "none"
  BY ThreadFacts DEF Finish, IInv, RefInv, TypeOK
<1>3. thread["wmi2"] = "none" => thread'["wmi2"] = "none"
  BY ThreadFacts DEF Finish, IInv, RefInv, TypeOK
<1> QED
  BY <1>1, <1>2, <1>3, WorkersUntouched DEF IInv

\* What the answer to a job leaves of the types.
LEMMA AnswerTypes ==
    ASSUME IInv, NEW t \in Threads, NEW r \in {"ok", "error"}, thread[t] = "running",
           Finish(t, r), UNCHANGED <<on, calls, quit, wmi, closer>>,
           t = "sta" => phase' = "none", t # "sta" => UNCHANGED phase,
           /\ building' \in Seq(Elements) /\ old' \in Seq(Elements) /\ last' \in Seq(Elements)
           /\ Len(building') <= MaxNodes /\ Len(last') <= MaxNodes /\ target' \subseteq Elements
           /\ refs' \in [Elements -> Nat] /\ leaked' \in [Elements -> Nat]
    PROVE  TypeOK'
<1> USE DEF calls
<1>1. /\ step' \in [Callers -> {"idle", "connect", "send", "parked", "waiting", "done"}]
      /\ result' \in [Callers -> {"none", "ok", "error", "closed"}]
      /\ thread' \in [Threads -> {"none", "arriving", "parked", "running", "gone"}]
      /\ serving' \in [Threads -> Callers \cup {NoCall}]
  BY FinishStep DEF IInv, RefInv
<1>2. phase' \in {"none", "build", "release", "use"}
  BY DEF IInv, RefInv, TypeOK
<1> QED
  BY <1>1, <1>2 DEF IInv, RefInv, TypeOK

\* The steps of a job between its beginning and its answer.
LEMMA WithinJobStep ==
    ASSUME IInv, BeginSnapshot \/ Visit \/ Swap \/ ReleaseOld \/ LookUp
    PROVE  IInv'
<1>1. UNCHANGED <<step, on, result, calls, thread, quit, serving, wmi, closer>>
  BY DEF BeginSnapshot, Visit, Swap, ReleaseOld, LookUp
<1>2. thread["sta"] = "running" /\ phase' \in {"build", "release", "use"}
  BY DEF BeginSnapshot, Visit, Swap, ReleaseOld, LookUp, Running, IInv, MeetInv
<1>3. MeetInv' /\ QuitInv' /\ WorkerInv'
  BY <1>1, <1>2 DEF IInv, MeetInv, QuitInv, WorkerInv, calls
<1>4. /\ building \in Seq(Elements) /\ old \in Seq(Elements) /\ last \in Seq(Elements)
      /\ refs \in [Elements -> Nat] /\ leaked \in [Elements -> Nat] /\ target \subseteq Elements
      /\ MaxNodes \in Nat /\ Len(building) <= MaxNodes /\ Len(last) <= MaxNodes
      /\ <<>> \in Seq(Elements) /\ Len(<<>>) = 0
      /\ \A e \in Elements : refs[e] = Occurrences(e, building) + Occurrences(e, old)
                                        + Occurrences(e, last) + leaked[e]
      /\ \A e \in Elements : /\ Occurrences(e, building) \in Nat /\ Occurrences(e, old) \in Nat
                              /\ Occurrences(e, last) \in Nat
  BY MaxNodesAssumption, OccurrencesType DEF IInv, RefInv, TypeOK, RefsAccounted
<1>5. TypeOK' /\ TargetInv' /\ RefsAccounted'
  <2>1. CASE BeginSnapshot
    <3>1. UNCHANGED <<building, old, last, target, refs, leaked>> /\ phase = "none"
      BY <2>1 DEF BeginSnapshot
    <3> QED
      BY <1>1, <1>2, <3>1 DEF IInv, RefInv, TypeOK, TargetInv, RefsAccounted, calls
  <2>2. CASE Visit
    <3>1. PICK e \in Elements : /\ building' = Append(building, e)
                                /\ refs' = [refs EXCEPT ![e] = refs[e] + 1]
      BY <2>2 DEF Visit
    <3>2. /\ phase = "build" /\ phase' = "build" /\ Len(building) < MaxNodes
          /\ UNCHANGED <<old, last, target, leaked>>
      BY <2>2 DEF Visit
    <3>3. building' \in Seq(Elements) /\ Len(building') <= MaxNodes /\ refs' \in [Elements -> Nat]
      <4>1. Append(building, e) \in Seq(Elements) /\ Len(Append(building, e)) = Len(building) + 1
            /\ Len(building) \in Nat
        BY <1>4
      <4>2. refs' \in [Elements -> Nat]
        BY <1>4, <3>1
      <4> QED
        BY <1>4, <3>1, <3>2, <4>1, <4>2
    <3>4. RefsAccounted'
      <4> SUFFICES ASSUME NEW x \in Elements
                   PROVE  refs'[x] = Occurrences(x, building') + Occurrences(x, old)
                                     + Occurrences(x, last) + leaked[x]
        BY <3>2 DEF RefsAccounted
      <4>1. Occurrences(x, building') = Occurrences(x, building) + IF x = e THEN 1 ELSE 0
        BY <1>4, <3>1, OccurrencesAppend
      <4>2. refs'[x] = refs[x] + IF x = e THEN 1 ELSE 0
        <5>1. CASE x = e
          BY <1>4, <3>1, <5>1
        <5>2. CASE x # e
          <6>1. refs'[x] = refs[x] /\ refs[x] \in Nat
            BY <1>4, <3>1, <5>2
          <6> QED
            BY <5>2, <6>1
        <5> QED
          BY <5>1, <5>2
      <4> DEFINE b == Occurrences(x, building)  o == Occurrences(x, old)  l == Occurrences(x, last)
      <4>3. /\ b \in Nat /\ o \in Nat /\ l \in Nat /\ leaked[x] \in Nat
            /\ refs[x] = b + o + l + leaked[x] /\ Occurrences(x, building') = b + IF x = e THEN 1 ELSE 0
        BY <1>4, <4>1
      <4> HIDE DEF b, o, l
      <4>4. refs'[x] = Occurrences(x, building') + o + l + leaked[x]
        BY <4>2, <4>3
      <4> QED
        BY <4>4 DEF o, l
    <3>5. TypeOK'
      BY <1>1, <1>2, <3>2, <3>3 DEF IInv, RefInv, TypeOK, calls
    <3>6. TargetInv'
      BY <3>2 DEF IInv, RefInv, TargetInv
    <3> QED
      BY <3>4, <3>5, <3>6
  <2>3. CASE Swap
    <3>1. /\ phase = "build" /\ last' = building /\ old' = last /\ building' = <<>>
          /\ phase' = "release" /\ UNCHANGED <<target, refs, leaked>>
      BY <2>3 DEF Swap
    <3>2. target = {}
      BY <3>1 DEF IInv, RefInv, TargetInv
    <3>3. TypeOK'
      BY <1>1, <1>4, <3>1 DEF IInv, RefInv, TypeOK, calls
    <3>4. TargetInv'
      BY <3>1, <3>2 DEF TargetInv
    <3>5. RefsAccounted'
      <4> SUFFICES ASSUME NEW x \in Elements
                   PROVE  refs[x] = Occurrences(x, <<>>) + Occurrences(x, last)
                                    + Occurrences(x, building) + leaked[x]
        BY <3>1 DEF RefsAccounted
      <4>1. old = <<>>
        BY <3>1 DEF IInv, RefInv, TargetInv
      <4>2. Occurrences(x, <<>>) = 0 /\ Occurrences(x, old) = 0
        BY <4>1, OccurrencesEmpty
      <4> DEFINE b == Occurrences(x, building)  l == Occurrences(x, last)  z == Occurrences(x, <<>>)
      <4>3. b \in Nat /\ l \in Nat /\ leaked[x] \in Nat /\ refs[x] = b + 0 + l + leaked[x] /\ z = 0
        BY <1>4, <4>2
      <4> HIDE DEF b, l, z
      <4>4. refs[x] = z + l + b + leaked[x]
        BY <4>3
      <4> QED
        BY <4>4 DEF b, l, z
    <3> QED
      BY <3>3, <3>4, <3>5
  <2>4. CASE ReleaseOld
    <3>0. PICK h \in Elements : h = Head(old)
      <4>1. old \in Seq(Elements) /\ old # <<>>
        BY <1>4, <2>4 DEF ReleaseOld
      <4>2. Head(old) \in Elements
        BY <4>1
      <4> QED
        BY <4>2
    <3>1. /\ phase = "release" /\ phase' = "release" /\ old # <<>> /\ old' = Tail(old)
          /\ refs' = [refs EXCEPT ![h] = refs[h] - 1]
          /\ UNCHANGED <<building, last, target, leaked>>
      BY <2>4, <3>0 DEF ReleaseOld
    <3>2. old' \in Seq(Elements) /\ h \in Elements
      BY <1>4, <3>1
    <3>3. \A x \in Elements : Occurrences(x, old) = Occurrences(x, old') + IF x = h THEN 1 ELSE 0
      BY <1>4, <3>0, <3>1, OccurrencesTail
    <3>4. \A x \in Elements : Occurrences(x, old') \in Nat
      BY <3>2, OccurrencesType
    <3>5. refs'[h] \in Nat
      <4> DEFINE b == Occurrences(h, building)  o == Occurrences(h, old')  l == Occurrences(h, last)
      <4>1. /\ b \in Nat /\ o \in Nat /\ l \in Nat /\ leaked[h] \in Nat
            /\ refs[h] = b + (o + 1) + l + leaked[h] /\ refs'[h] = refs[h] - 1
        BY <1>4, <3>1, <3>2, <3>3, <3>4
      <4> HIDE DEF b, o, l
      <4> QED
        BY <4>1
    <3>6. refs' \in [Elements -> Nat]
      BY <1>4, <3>1, <3>2, <3>5
    <3>7. RefsAccounted'
      <4> SUFFICES ASSUME NEW x \in Elements
                   PROVE  refs'[x] = Occurrences(x, building) + Occurrences(x, old')
                                     + Occurrences(x, last) + leaked[x]
        BY <3>1 DEF RefsAccounted
      <4> DEFINE b == Occurrences(x, building)  o == Occurrences(x, old')  l == Occurrences(x, last)
      <4>1. /\ b \in Nat /\ o \in Nat /\ l \in Nat /\ leaked[x] \in Nat
            /\ refs[x] = b + (o + IF x = h THEN 1 ELSE 0) + l + leaked[x]
            /\ refs'[x] = refs[x] - IF x = h THEN 1 ELSE 0
        <5>1. refs'[x] = IF x = h THEN refs[x] - 1 ELSE refs[x]
          BY <1>4, <3>1
        <5>2. refs[x] \in Nat
          BY <1>4
        <5>3. refs'[x] = refs[x] - IF x = h THEN 1 ELSE 0
          BY <5>1, <5>2
        <5>4. /\ b \in Nat /\ o \in Nat /\ l \in Nat /\ leaked[x] \in Nat
              /\ Occurrences(x, old) = o + IF x = h THEN 1 ELSE 0
              /\ refs[x] = b + Occurrences(x, old) + l + leaked[x]
          BY <1>4, <3>3, <3>4
        <5>5. refs[x] = b + (o + IF x = h THEN 1 ELSE 0) + l + leaked[x]
          BY <5>4
        <5> QED
          BY <5>3, <5>4, <5>5
      <4> HIDE DEF b, o, l
      <4>2. refs'[x] = b + o + l + leaked[x]
        BY <4>1
      <4> QED
        BY <4>2 DEF b, o, l
    <3>8. TypeOK'
      BY <1>1, <1>2, <3>1, <3>2, <3>6 DEF IInv, RefInv, TypeOK, calls
    <3>9. TargetInv'
      BY <3>1 DEF IInv, RefInv, TargetInv
    <3> QED
      BY <3>7, <3>8, <3>9
  <2>5. CASE LookUp
    <3>1. PICK i \in 1..Len(last) : target' = {last[i]}
      <4> DEFINE i == label[serving["sta"]]
      <4>1. i \in DOMAIN last /\ target' = {last[i]}
        BY <2>5 DEF LookUp
      <4>2. DOMAIN last = 1..Len(last)
        BY <1>4
      <4> QED
        BY <4>1, <4>2
    <3>2. phase = "none" /\ phase' = "use" /\ UNCHANGED <<building, old, last, refs, leaked>>
      BY <2>5 DEF LookUp
    <3>3. last[i] \in Elements
      BY <1>4
    <3>4. TypeOK'
      BY <1>1, <3>1, <3>2, <3>3 DEF IInv, RefInv, TypeOK, calls
    <3>5. TargetInv' /\ RefsAccounted'
      BY <3>1, <3>2 DEF IInv, RefInv, TargetInv, RefsAccounted
    <3> QED
      BY <3>4, <3>5
  <2> QED
    BY <2>1, <2>2, <2>3, <2>4, <2>5
<1> QED
  BY <1>3, <1>5 DEF IInv, RefInv

\* The steps that answer: the end of a snapshot, a snapshot that fails or panics, a
\* pattern job with or without its element, and a query.
LEMMA EndJobStep ==
    ASSUME IInv, EndSnapshot \/ AbandonSnapshot \/ LabelNotFound \/ UsePattern
    PROVE  /\ IInv'
           /\ thread["sta"] = "running" /\ UNCHANGED <<on, calls, quit, wmi, closer>>
           /\ \E r \in {"ok", "error"} : Finish("sta", r)
<1>1. /\ thread["sta"] = "running" /\ phase' = "none"
      /\ UNCHANGED <<on, calls, quit, wmi, closer>>
      /\ \E r \in {"ok", "error"} : Finish("sta", r)
  BY DEF EndSnapshot, AbandonSnapshot, LabelNotFound, UsePattern, Running, IInv, MeetInv, elements
<1>2. PICK r \in {"ok", "error"} : Finish("sta", r)
  BY <1>1
<1>3. /\ building \in Seq(Elements) /\ old \in Seq(Elements) /\ last \in Seq(Elements)
      /\ refs \in [Elements -> Nat] /\ leaked \in [Elements -> Nat] /\ target \subseteq Elements
      /\ MaxNodes \in Nat /\ Len(building) <= MaxNodes /\ Len(last) <= MaxNodes
      /\ <<>> \in Seq(Elements) /\ Len(<<>>) = 0
      /\ \A e \in Elements : refs[e] = Occurrences(e, building) + Occurrences(e, old)
                                        + Occurrences(e, last) + leaked[e]
      /\ \A e \in Elements : /\ Occurrences(e, building) \in Nat /\ Occurrences(e, old) \in Nat
                              /\ Occurrences(e, last) \in Nat
  BY MaxNodesAssumption, OccurrencesType DEF IInv, RefInv, TypeOK, RefsAccounted
<1>4. /\ old' = <<>> /\ target' = {} /\ last' = last /\ refs' = refs
  <2>1. CASE EndSnapshot
    BY <2>1 DEF EndSnapshot, IInv, RefInv, TargetInv
  <2>2. CASE AbandonSnapshot
    BY <2>2 DEF AbandonSnapshot, IInv, RefInv, TargetInv
  <2>3. CASE LabelNotFound
    BY <2>3 DEF LabelNotFound, elements, IInv, RefInv, TargetInv
  <2>4. CASE UsePattern
    BY <2>4 DEF UsePattern, IInv, RefInv, TargetInv
  <2> QED
    BY <2>1, <2>2, <2>3, <2>4
<1>5. /\ building' \in Seq(Elements) /\ Len(building') <= MaxNodes /\ leaked' \in [Elements -> Nat]
      /\ RefsAccounted'
  <2>1. CASE UNCHANGED <<building, leaked, old>>
    BY <1>3, <1>4, <2>1 DEF RefsAccounted
  <2>2. CASE /\ building' = <<>> /\ old' = old
             /\ leaked' = [e \in Elements |-> leaked[e] + Occurrences(e, building)]
    <3>1. leaked' \in [Elements -> Nat]
      BY <1>3, <2>2
    <3>2. RefsAccounted'
      <4> SUFFICES ASSUME NEW x \in Elements
                   PROVE  refs[x] = Occurrences(x, <<>>) + Occurrences(x, old)
                                    + Occurrences(x, last) + leaked'[x]
        BY <1>4, <2>2 DEF RefsAccounted
      <4> DEFINE b == Occurrences(x, building)  o == Occurrences(x, old)  l == Occurrences(x, last)
                 z == Occurrences(x, <<>>)
      <4>1. /\ b \in Nat /\ o \in Nat /\ l \in Nat /\ leaked[x] \in Nat /\ z = 0
            /\ refs[x] = b + o + l + leaked[x] /\ leaked'[x] = leaked[x] + b
        BY <1>3, <2>2, OccurrencesEmpty
      <4> HIDE DEF b, o, l, z
      <4>2. refs[x] = z + o + l + leaked'[x]
        BY <4>1
      <4> QED
        BY <4>2 DEF o, l, z
    <3> QED
      BY <1>3, <2>2, <3>1, <3>2
  <2> QED
    BY <2>1, <2>2 DEF EndSnapshot, AbandonSnapshot, LabelNotFound, UsePattern, elements
<1>6. TypeOK'
  <2>1. old' \in Seq(Elements) /\ target' \subseteq Elements
    BY <1>3, <1>4
  <2> QED
    BY <1>1, <1>2, <1>3, <1>4, <1>5, <2>1, ThreadFacts, AnswerTypes
<1>7. RefInv'
  BY <1>1, <1>4, <1>5, <1>6 DEF RefInv, TargetInv
<1>8. IInv'
  BY <1>1, <1>2, <1>7, ThreadFacts, AnswerStep
<1> QED
  BY <1>1, <1>8

\* A WMI worker that answers a query keeps the invariant.
LEMMA QueryStep == ASSUME IInv, NEW w \in Workers, RunQuery(w) PROVE IInv'
<1>1. PICK r \in {"ok", "error"} : Finish(w, r)
  BY DEF RunQuery
<1>2. /\ thread[w] = "running" /\ w \in Threads /\ w # "sta"
      /\ UNCHANGED <<on, calls, quit, wmi, closer, elements>>
  BY ThreadFacts DEF RunQuery
<1>3. TypeOK'
  BY <1>1, <1>2, AnswerTypes DEF elements, IInv, RefInv, TypeOK
<1>4. RefInv'
  BY <1>2, <1>3, ElementsUntouched DEF IInv
<1> QED
  BY <1>1, <1>2, <1>4, AnswerStep DEF elements

\* Desktop.Close.
LEMMA CloseStep == ASSUME IInv, StartClose \/ CloseWMI \/ CloseEngine PROVE IInv'
<1> USE DEF calls
<1>0. /\ step \in [Callers -> {"idle", "connect", "send", "parked", "waiting", "done"}]
      /\ on \in [Callers -> Threads] /\ quit \subseteq Threads
      /\ thread \in [Threads -> {"none", "arriving", "parked", "running", "gone"}]
      /\ result \in [Callers -> {"none", "ok", "error", "closed"}]
      /\ wmi \in Workers \cup {"none"}
  BY DEF IInv, RefInv, TypeOK
<1>1. CASE StartClose \/ (CloseWMI /\ wmi = "none")
  <2>1. /\ UNCHANGED <<step, on, result, calls, thread, quit, serving, wmi, elements, phase>>
        /\ closer \in {"idle", "wmi"} /\ closer' \in {"wmi", "quit"}
        /\ closer = "wmi" => closer' = "quit"
    BY <1>1 DEF StartClose, CloseWMI, elements
  <2>2. TypeOK'
    BY <2>1 DEF IInv, RefInv, TypeOK, elements
  <2>3. MeetInv' /\ QuitInv' /\ WorkerInv'
    BY <2>1 DEF IInv, MeetInv, QuitInv, WorkerInv
  <2> QED
    BY <2>1, <2>2, <2>3, ElementsUntouched DEF IInv
<1>2. CASE \E t \in Threads : /\ CloseQuit(t) /\ UNCHANGED <<on, calls, serving, elements>>
                              /\ \/ /\ t = "sta" /\ closer = "quit" /\ closer' = "closed" /\ wmi' = wmi
                                 \/ /\ t # "sta" /\ closer = "wmi" /\ closer' = "quit"
                                    /\ wmi = t /\ wmi' = "none"
  <2>1. PICK t \in Threads :
               /\ CloseQuit(t) /\ UNCHANGED <<on, calls, serving, elements>>
               /\ \/ /\ t = "sta" /\ closer = "quit" /\ closer' = "closed" /\ wmi' = wmi
                  \/ /\ t # "sta" /\ closer = "wmi" /\ closer' = "quit"
                     /\ wmi = t /\ wmi' = "none"
    BY <1>2
  <2>2. /\ quit' = quit \cup {t}
        /\ thread' = [thread EXCEPT ![t] = IF thread[t] = "parked" THEN "gone" ELSE thread[t]]
        /\ step' = [c \in Callers |-> IF c \in Waiting(t) THEN "done" ELSE step[c]]
        /\ result' = [c \in Callers |-> IF c \in Waiting(t) THEN "closed" ELSE result[c]]
        /\ \A c \in Callers : c \in Waiting(t) <=> step[c] = "parked" /\ on[c] = t
    BY <2>1 DEF CloseQuit, Waiting
  <2>3. /\ step' \in [Callers -> {"idle", "connect", "send", "parked", "waiting", "done"}]
        /\ result' \in [Callers -> {"none", "ok", "error", "closed"}]
        /\ thread' \in [Threads -> {"none", "arriving", "parked", "running", "gone"}]
        /\ quit' \subseteq Threads
    BY <1>0, <2>2
  <2>4. TypeOK'
    BY <2>1, <2>3 DEF IInv, RefInv, TypeOK, elements
  <2>5. /\ \A u \in Threads : thread'[u] = "running" <=> thread[u] = "running"
        /\ \A u \in Threads : thread'[u] = "none" <=> thread[u] = "none"
        /\ \A c \in Callers : step'[c] = step[c] \/ (step[c] = "parked" /\ step'[c] = "done")
    BY <1>0, <2>2
  <2>6. MeetInv'
    <3>1. ASSUME NEW u \in Threads, thread'[u] = "running"
          PROVE  serving'[u] \in Callers /\ step'[serving'[u]] = "waiting" /\ on'[serving'[u]] = u
      BY <2>1, <2>5, <3>1 DEF IInv, MeetInv
    <3>2. ASSUME NEW c \in Callers, step'[c] = "waiting"
          PROVE  thread'[on'[c]] = "running" /\ serving'[on'[c]] = c
      BY <1>0, <2>1, <2>5, <3>2 DEF IInv, MeetInv
    <3>3. \A c \in Callers :
             /\ kind'[c] # "query" => on'[c] = "sta" /\ step'[c] # "connect"
             /\ kind'[c] = "query" /\ step'[c] \in {"send", "parked", "waiting"} => on'[c] \in Workers
      BY <2>1, <2>5 DEF IInv, MeetInv
    <3>4. phase' # "none" => thread'["sta"] = "running"
      BY <2>1, <2>5, ThreadFacts DEF IInv, MeetInv, elements
    <3> QED
      BY <3>1, <3>2, <3>3, <3>4 DEF MeetInv
  <2>7. QuitInv'
    BY <1>0, <2>1, <2>2, <2>5, ThreadFacts DEF IInv, QuitInv
  <2>8. WorkerInv'
    BY <2>1, <2>5, ThreadFacts DEF IInv, WorkerInv
  <2> QED
    BY <2>1, <2>4, <2>6, <2>7, <2>8, ElementsUntouched DEF IInv
<1>3. CASE CloseWMI /\ wmi # "none"
  BY <1>0, <1>2, <1>3, ThreadFacts DEF CloseWMI
<1>4. CASE CloseEngine
  BY <1>2, <1>4, ThreadFacts DEF CloseEngine
<1> QED
  BY <1>1, <1>3, <1>4

\* A stuttering step keeps it.
LEMMA StutterStep == IInv /\ UNCHANGED vars => IInv'
BY DEF vars, calls, elements, IInv, RefInv, TypeOK, TargetInv, RefsAccounted, MeetInv, QuitInv,
       WorkerInv

\* The inductive invariant: calls and threads that have met, the closed channel, the
\* workers, and the references.
THEOREM Invariance == Spec => []IInv
<1>1. IInv /\ [Next]_vars => IInv'
  BY CallingStep, SelectStep, WithinJobStep, EndJobStep, QueryStep, CloseStep, StutterStep
     DEF Next, Calling, Snapshot, Pattern, Close, Finished
<1> QED
  BY <1>1, InitHolds, PTL DEF Spec

\* The state stays of its types.
THEOREM TypeCorrect == Spec => []TypeOK
<1>1. IInv => TypeOK
  BY DEF IInv, RefInv
<1> QED
  BY <1>1, Invariance, PTL

\* Every reference is accounted for, for snapshots of any size.
THEOREM EveryReferenceCounts == Spec => []RefsAccounted
<1>1. IInv => RefsAccounted
  BY DEF IInv, RefInv
<1> QED
  BY <1>1, Invariance, PTL

\* A pattern job's element is alive, whichever snapshot its label is from.
THEOREM TargetsAreAlive == Spec => []LiveElements
<1>1. IInv => LiveElements
  <2> SUFFICES ASSUME IInv, NEW e \in target PROVE refs[e] > 0
    BY DEF LiveElements
  <2>1. PICK i \in 1..Len(last) : e = last[i]
    BY DEF IInv, RefInv, TargetInv
  <2>2. e \in Elements /\ building \in Seq(Elements) /\ old \in Seq(Elements) /\ last \in Seq(Elements)
        /\ leaked[e] \in Nat
    BY DEF IInv, RefInv, TypeOK
  <2> DEFINE b == Occurrences(e, building)  o == Occurrences(e, old)  l == Occurrences(e, last)
  <2>3. l > 0 /\ b \in Nat /\ o \in Nat /\ l \in Nat
    BY <2>1, <2>2, Occurring, OccurrencesType
  <2>4. refs[e] = b + o + l + leaked[e]
    BY <2>2 DEF IInv, RefInv, RefsAccounted
  <2> HIDE DEF b, o, l
  <2> QED
    BY <2>2, <2>3, <2>4
<1> QED
  BY <1>1, Invariance, PTL

----------------------------------------------------------------------------
(***************************************************************************)
(* Engine implements the steps of JobService.                              *)
(***************************************************************************)
JobsOf == [c \in Callers |-> JobOf(c)]

\* The job of a call, by the step the call is at.
LEMMA JobCases ==
    ASSUME IInv, NEW c \in Callers
    PROVE  /\ kind[c] = "query" => JobOf(c) = "none"
           /\ kind[c] # "query" =>
                /\ step[c] # "connect"
                /\ step[c] = "idle" => JobOf(c) = "none"
                /\ step[c] \in {"send", "parked"} => JobOf(c) = "asked"
                /\ step[c] = "waiting" => JobOf(c) = "running"
                /\ step[c] = "done" => JobOf(c) = IF result[c] = "closed" THEN "refused" ELSE "answered"
BY DEF IInv, RefInv, TypeOK, MeetInv, JobOf

\* A call whose step, result and kind stay as they were has the job it had.
LEMMA SameJob ==
    ASSUME NEW c \in Callers, step'[c] = step[c], result'[c] = result[c], kind'[c] = kind[c]
    PROVE  JobOf(c)' = JobOf(c)
BY DEF JobOf

\* A query is nobody's business here.
LEMMA QueryJob ==
    ASSUME NEW c \in Callers, kind[c] = "query", kind'[c] = kind[c]
    PROVE  JobOf(c)' = JobOf(c)
BY DEF JobOf

\* A step that changes no job and does not finish the close is a stutter of JobService.
LEMMA NoJobStep ==
    ASSUME \A c \in Callers : JobOf(c)' = JobOf(c), (closer' = "closed") <=> (closer = "closed")
    PROVE  UNCHANGED Jobs!vars
BY DEF Jobs!vars

\* Only one call's job changes.
LEMMA OneJobStep ==
    ASSUME NEW c \in Callers, NEW j, JobOf(c)' = j,
           \A d \in Callers \ {c} : JobOf(d)' = JobOf(d)
    PROVE  JobsOf' = [JobsOf EXCEPT ![c] = j]
BY DEF JobsOf

\* A call that starts, or has connected, asks for its job; a query is no job of
\* JobService.
LEMMA AskRefines ==
    ASSUME IInv, IInv', NEW c \in Callers, StartCall(c) \/ Connect(c)
    PROVE  [Jobs!Next]_(Jobs!vars)
<1>1. /\ kind' = kind /\ closer' = closer
      /\ \A d \in Callers \ {c} : step'[d] = step[d] /\ result'[d] = result[d]
  BY DEF StartCall, Connect, calls, IInv, RefInv, TypeOK
<1>2. \A d \in Callers \ {c} : JobOf(d)' = JobOf(d)
  BY <1>1, SameJob
<1>3. CASE kind[c] = "query"
  <2>1. JobOf(c)' = JobOf(c)
    BY <1>1, <1>3, QueryJob
  <2>2. \A d \in Callers : JobOf(d)' = JobOf(d)
    BY <1>2, <2>1
  <2> QED
    BY <1>1, <2>2, NoJobStep
<1>4. CASE kind[c] # "query"
  <2>1. step[c] = "idle" /\ step'[c] = "send"
    BY <1>4 DEF StartCall, Connect, IInv, RefInv, TypeOK, MeetInv
  <2>2. JobOf(c) = "none"
    BY <1>4, <2>1, JobCases
  <2>3. JobOf(c)' = "asked"
    BY <1>1, <1>4, <2>1 DEF JobOf
  <2>4. JobsOf' = [JobsOf EXCEPT ![c] = "asked"]
    BY <1>2, <2>3, OneJobStep
  <2>5. Jobs!Ask(c)
    BY <1>1, <2>2, <2>4 DEF Jobs!Ask, JobsOf
  <2> QED
    BY <2>5 DEF Jobs!Next
<1> QED
  BY <1>3, <1>4

\* A thread that was not running takes a job: no other is running, and the engine
\* has not been closed.
LEMMA BeginRefines ==
    ASSUME IInv, NEW c \in Callers, Accept(c, on[c]), step[c] \in {"send", "parked"},
           \/ thread[on[c]] = "parked"
           \/ step[c] = "parked" /\ thread[on[c]] = "arriving",
           UNCHANGED <<on, kind, closer, result>>
    PROVE  [Jobs!Next]_(Jobs!vars)
<1>1. step' = [step EXCEPT ![c] = "waiting"]
  BY DEF Accept
<1>2. \A d \in Callers \ {c} : JobOf(d)' = JobOf(d)
  <2>1. \A d \in Callers \ {c} : step'[d] = step[d]
    BY <1>1 DEF IInv, RefInv, TypeOK
  <2> QED
    BY <2>1, SameJob
<1>3. CASE kind[c] = "query"
  <2>1. JobOf(c)' = JobOf(c)
    BY <1>3, QueryJob
  <2>2. \A d \in Callers : JobOf(d)' = JobOf(d)
    BY <1>2, <2>1
  <2> QED
    BY <2>2, NoJobStep
<1>4. CASE kind[c] # "query"
  <2>1. on[c] = "sta"
    BY <1>4 DEF IInv, MeetInv
  <2>2. closer # "closed"
    BY <2>1 DEF IInv, QuitInv
  <2>3. \A d \in Callers : JobOf(d) # "running"
    <3> SUFFICES ASSUME NEW d \in Callers, JobOf(d) = "running" PROVE FALSE
      OBVIOUS
    <3>1. kind[d] # "query" /\ step[d] = "waiting"
      BY DEF JobOf, IInv, RefInv, TypeOK, MeetInv
    <3>2. thread["sta"] = "running"
      BY <3>1 DEF IInv, MeetInv
    <3> QED
      BY <2>1, <3>2
  <2>4. JobOf(c) = "asked"
    BY <1>4, JobCases
  <2>5. JobOf(c)' = "running"
    BY <1>1, <1>4 DEF JobOf, IInv, RefInv, TypeOK
  <2>6. JobsOf' = [JobsOf EXCEPT ![c] = "running"]
    BY <1>2, <2>5, OneJobStep
  <2>7. Jobs!Begin(c)
    BY <2>2, <2>3, <2>4, <2>6 DEF Jobs!Begin, JobsOf
  <2> QED
    BY <2>7 DEF Jobs!Next
<1> QED
  BY <1>3, <1>4

\* A call that sends: its job begins, or is refused by a closed engine, or goes on
\* being asked for.
LEMMA SendRefines ==
    ASSUME IInv, NEW c \in Callers, Send(c)
    PROVE  [Jobs!Next]_(Jobs!vars)
<1>1. UNCHANGED <<on, kind, closer>> /\ step[c] = "send"
  BY DEF Send, calls
<1>2. CASE thread[on[c]] = "parked" /\ Accept(c, on[c]) /\ UNCHANGED result
  BY <1>1, <1>2, BeginRefines
<1>3. CASE /\ on[c] \in quit
           /\ step' = [step EXCEPT ![c] = "done"] /\ result' = [result EXCEPT ![c] = "closed"]
  <2>1. \A d \in Callers \ {c} : JobOf(d)' = JobOf(d)
    <3>1. \A d \in Callers \ {c} : step'[d] = step[d] /\ result'[d] = result[d]
      BY <1>3 DEF IInv, RefInv, TypeOK
    <3> QED
      BY <1>1, <3>1, SameJob
  <2>2. CASE kind[c] = "query"
    <3>1. JobOf(c)' = JobOf(c)
      BY <1>1, <2>2, QueryJob
    <3>2. \A d \in Callers : JobOf(d)' = JobOf(d)
      BY <2>1, <3>1
    <3> QED
      BY <1>1, <3>2, NoJobStep
  <2>3. CASE kind[c] # "query"
    <3>1. closer = "closed" /\ JobOf(c) = "asked"
      <4>1. on[c] = "sta"
        BY <2>3 DEF IInv, MeetInv
      <4> QED
        BY <1>1, <1>3, <2>3, <4>1, JobCases DEF IInv, QuitInv
    <3>2. JobOf(c)' = "refused"
      BY <1>1, <1>3, <2>3 DEF JobOf, IInv, RefInv, TypeOK
    <3>3. JobsOf' = [JobsOf EXCEPT ![c] = "refused"]
      BY <2>1, <3>2, OneJobStep
    <3>4. Jobs!Refuse(c)
      BY <1>1, <3>1, <3>3 DEF Jobs!Refuse, JobsOf
    <3> QED
      BY <3>4 DEF Jobs!Next
  <2> QED
    BY <2>2, <2>3
<1>4. CASE step' = [step EXCEPT ![c] = "parked"] /\ UNCHANGED result
  <2>1. JobOf(c)' = JobOf(c)
    <3>1. step'[c] = "parked" /\ kind'[c] = kind[c]
      BY <1>1, <1>4 DEF IInv, RefInv, TypeOK
    <3>2. CASE kind[c] = "query"
      BY <3>1, <3>2, QueryJob
    <3>3. CASE kind[c] # "query"
      <4>1. JobOf(c) = "asked"
        BY <1>1, <3>3, JobCases
      <4>2. JobOf(c)' = "asked"
        BY <3>1, <3>3 DEF JobOf
      <4> QED
        BY <4>1, <4>2
    <3> QED
      BY <3>2, <3>3
  <2>2. ASSUME NEW d \in Callers \ {c} PROVE JobOf(d)' = JobOf(d)
    <3>1. step'[d] = step[d] /\ result'[d] = result[d] /\ kind'[d] = kind[d]
      BY <1>1, <1>4 DEF IInv, RefInv, TypeOK
    <3> QED
      BY <3>1, SameJob
  <2>3. \A d \in Callers : JobOf(d)' = JobOf(d)
    BY <2>1, <2>2
  <2> QED
    BY <1>1, <2>3, NoJobStep
<1> QED
  BY <1>2, <1>3, <1>4 DEF Send

\* A thread that receives begins a job that is asked for, or none; a WMI worker begins
\* none.
LEMMA ReceiveRefines ==
    ASSUME IInv, NEW t \in Threads, Receive(t)
    PROVE  [Jobs!Next]_(Jobs!vars)
<1>1. UNCHANGED <<on, kind, closer, result>> /\ thread[t] = "arriving"
  BY DEF Receive, calls
<1>2. CASE \E c \in Waiting(t) : Accept(c, t)
  <2>1. PICK c \in Callers : step[c] = "parked" /\ on[c] = t /\ Accept(c, t)
    BY <1>2 DEF Waiting
  <2> QED
    BY <1>1, <2>1, BeginRefines
<1>3. CASE UNCHANGED step
  <2>1. \A d \in Callers : JobOf(d)' = JobOf(d)
    BY <1>1, <1>3, SameJob
  <2> QED
    BY <1>1, <2>1, NoJobStep
<1> QED
  BY <1>2, <1>3 DEF Receive

\* The answer to a job of the STA thread, or to a query.
LEMMA AnswerRefines ==
    ASSUME IInv, NEW t \in Threads, NEW r \in {"ok", "error"}, thread[t] = "running",
           Finish(t, r), UNCHANGED <<kind, closer>>
    PROVE  [Jobs!Next]_(Jobs!vars)
<1>1. PICK c \in Callers : c = serving[t] /\ step[c] = "waiting" /\ on[c] = t
  BY DEF IInv, MeetInv
<1>2. step' = [step EXCEPT ![c] = "done"] /\ result' = [result EXCEPT ![c] = r]
  BY <1>1 DEF Finish
<1>3. \A d \in Callers \ {c} : JobOf(d)' = JobOf(d)
  <2>1. \A d \in Callers \ {c} : step'[d] = step[d] /\ result'[d] = result[d]
    BY <1>2 DEF IInv, RefInv, TypeOK
  <2> QED
    BY <2>1, SameJob
<1>4. CASE kind[c] = "query"
  <2>1. JobOf(c)' = JobOf(c)
    BY <1>1, <1>4, QueryJob
  <2>2. \A d \in Callers : JobOf(d)' = JobOf(d)
    BY <1>3, <2>1
  <2> QED
    BY <2>2, NoJobStep
<1>5. CASE kind[c] # "query"
  <2>1. JobOf(c) = "running"
    BY <1>1, <1>5, JobCases
  <2>2. JobOf(c)' = "answered"
    BY <1>1, <1>2, <1>5 DEF JobOf, IInv, RefInv, TypeOK
  <2>3. JobsOf' = [JobsOf EXCEPT ![c] = "answered"]
    BY <1>1, <1>3, <2>2, OneJobStep
  <2>4. Jobs!Answer(c)
    BY <1>1, <2>1, <2>3 DEF Jobs!Answer, JobsOf
  <2> QED
    BY <1>1, <2>4 DEF Jobs!Next
<1> QED
  BY <1>4, <1>5

\* Closing the engine refuses the calls that are parked, and no others.
LEMMA CloseRefines ==
    ASSUME IInv, CloseEngine
    PROVE  [Jobs!Next]_(Jobs!vars)
<1>1. /\ closer = "quit" /\ closer' = "closed" /\ kind' = kind
      /\ step' = [c \in Callers |-> IF c \in Waiting("sta") THEN "done" ELSE step[c]]
      /\ result' = [c \in Callers |-> IF c \in Waiting("sta") THEN "closed" ELSE result[c]]
  BY DEF CloseEngine, CloseQuit, calls
<1>2. \A c \in Callers : c \in Waiting("sta") => kind[c] # "query" /\ step[c] = "parked"
  BY ThreadFacts DEF Waiting, IInv, MeetInv
<1>3. \A c \in Callers : c \in Waiting("sta") => JobOf(c) = "asked"
  BY <1>2, JobCases
<1>4. ASSUME NEW c \in Callers
      PROVE  JobOf(c)' = IF c \in Waiting("sta") THEN "refused" ELSE JobOf(c)
  <2>1. CASE c \in Waiting("sta")
    BY <1>1, <1>2, <2>1 DEF JobOf
  <2>2. CASE c \notin Waiting("sta")
    BY <1>1, <2>2, SameJob
  <2> QED
    BY <2>1, <2>2
<1>5. Waiting("sta") \in SUBSET { c \in Callers : JobsOf[c] = "asked" }
  BY <1>3 DEF JobsOf, Waiting
<1>6. JobsOf' = [c \in Callers |-> IF c \in Waiting("sta") THEN "refused" ELSE JobsOf[c]]
  BY <1>4 DEF JobsOf
<1>7. Jobs!Close
  BY <1>1, <1>5, <1>6 DEF Jobs!Close, JobsOf
<1> QED
  BY <1>7 DEF Jobs!Next

\* A close that has not reached the engine is no step of JobService.
LEMMA CloseWMIRefines ==
    ASSUME IInv, StartClose \/ CloseWMI
    PROVE  [Jobs!Next]_(Jobs!vars)
<1>1. closer # "closed" /\ closer' # "closed" /\ kind' = kind
  BY DEF StartClose, CloseWMI, calls
<1>2. CASE UNCHANGED <<step, result>>
  <2>1. \A c \in Callers : JobOf(c)' = JobOf(c)
    BY <1>1, <1>2, SameJob
  <2> QED
    BY <1>1, <2>1, NoJobStep
<1>3. CASE CloseWMI /\ wmi # "none"
  <2>1. wmi \in Workers /\ CloseQuit(wmi)
    BY <1>3 DEF CloseWMI, IInv, RefInv, TypeOK
  <2>2. ASSUME NEW c \in Callers PROVE JobOf(c)' = JobOf(c)
    <3>1. CASE c \in Waiting(wmi)
      <4>1. kind[c] = "query"
        BY <2>1, <3>1, ThreadFacts DEF Waiting, IInv, MeetInv
      <4> QED
        BY <1>1, <4>1, QueryJob
    <3>2. CASE c \notin Waiting(wmi)
      BY <1>1, <2>1, <3>2, SameJob DEF CloseQuit
    <3> QED
      BY <3>1, <3>2
  <2> QED
    BY <1>1, <2>2, NoJobStep
<1> QED
  BY <1>2, <1>3 DEF StartClose, CloseWMI

\* The steps within a job are no step of JobService.
LEMMA WithinJobRefines ==
    ASSUME BeginSnapshot \/ Visit \/ Swap \/ ReleaseOld \/ LookUp \/ UNCHANGED vars
    PROVE  [Jobs!Next]_(Jobs!vars)
<1>1. UNCHANGED <<step, result, kind, closer>>
  BY DEF BeginSnapshot, Visit, Swap, ReleaseOld, LookUp, vars, calls
<1>2. \A c \in Callers : JobOf(c)' = JobOf(c)
  BY <1>1, SameJob
<1> QED
  BY <1>1, <1>2, NoJobStep

\* The engine is a job service: its calls' jobs run one at a time, are answered or
\* refused, and are not begun once it is closed; however calls, snapshots, queries
\* and the close interleave.  (That each is answered in the end is model-checked.)
THEOREM EngineServesJobs == Spec => Jobs!Init /\ [][Jobs!Next]_(Jobs!vars)
<1>1. Init => Jobs!Init
  <2> SUFFICES ASSUME Init PROVE Jobs!Init
    OBVIOUS
  <2>1. \A c \in Callers : JobOf(c) = "none"
    BY DEF Init, JobOf
  <2>2. closer # "closed"
    BY DEF Init
  <2> QED
    BY <2>1, <2>2 DEF Jobs!Init
<1>2. IInv /\ IInv' /\ [Next]_vars => [Jobs!Next]_(Jobs!vars)
  <2> SUFFICES ASSUME IInv, IInv', [Next]_vars PROVE [Jobs!Next]_(Jobs!vars)
    OBVIOUS
  <2>1. CASE EndSnapshot \/ AbandonSnapshot \/ LabelNotFound \/ UsePattern
    <3>1. /\ thread["sta"] = "running" /\ UNCHANGED <<kind, closer>>
          /\ \E r \in {"ok", "error"} : Finish("sta", r)
      BY <2>1, EndJobStep DEF calls
    <3> QED
      BY <3>1, ThreadFacts, AnswerRefines
  <2>2. CASE \E w \in Workers : RunQuery(w)
    <3>1. PICK w \in Workers : RunQuery(w)
      BY <2>2
    <3>2. /\ thread[w] = "running" /\ UNCHANGED <<kind, closer>>
          /\ \E r \in {"ok", "error"} : Finish(w, r)
      BY <3>1 DEF RunQuery, calls
    <3> QED
      BY <3>2, ThreadFacts, AnswerRefines
  <2> QED
    BY <2>1, <2>2, AskRefines, SendRefines, ReceiveRefines, CloseRefines, CloseWMIRefines,
       WithinJobRefines DEF Next, Calling, Snapshot, Pattern, Close, Finished
<1> QED
  BY <1>1, <1>2, Invariance, PTL DEF Spec
=============================================================================
