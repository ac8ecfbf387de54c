------------------------------- MODULE Engine -------------------------------
(***************************************************************************)
(* The desktop engine: tool calls hand jobs to the STA thread that owns    *)
(* UI Automation, or to the WMI worker, until Desktop.Close; snapshots     *)
(* replace the retained UI elements that pattern jobs act on               *)
(* (internal/desktop/com.go, wmi.go, snapshot.go, tree.go, pattern.go).    *)
(*                                                                         *)
(* Both threads take jobs from an unbuffered channel in a select with a    *)
(* quit channel.  A goroutine at such a select looks at what is ready, the *)
(* other side parked or the quit channel closed, and parks when neither    *)
(* is; a close of the quit channel wakes everyone parked with that case.   *)
(***************************************************************************)
EXTENDS Naturals, Sequences, FiniteSets

CONSTANTS
    Callers,     \* tool calls
    Workloads,   \* what the calls may be: functions from Callers to Kinds
    Elements,    \* UI elements on the screen
    MaxNodes     \* elements a snapshot may retain

ASSUME MaxNodesAssumption == MaxNodes \in Nat \ {0}

Workers == {"wmi1", "wmi2"}            \* Close ends at most one of them
Threads == {"sta"} \cup Workers
Kinds   == {"snapshot", "pattern", "query"}

ASSUME WorkloadsAssumption == Workloads \subseteq [Callers -> Kinds]

VARIABLES
    step,      \* calls: "idle", "connect", "send", "parked", "waiting", "done"
    kind,      \* what each call does
    on,        \* the thread it needs
    label,     \* the label a pattern call was given, or resolved before its job
    result,    \* what the call got: "none", "ok", "error", "closed"
    thread,    \* threads: "none", "arriving", "parked", "running", "gone"
    quit,      \* quit channels that are closed
    serving,   \* the call each thread runs the job of
    wmi,       \* the current WMI worker, or "none"
    closer,    \* Desktop.Close: "idle", "wmi", "quit", "closed"
    phase,     \* the running STA job: "none", "build", "release", "use"
    building,  \* elements retained by the snapshot under construction
    old,       \* elements of the replaced snapshot, still to be released
    last,      \* elements of the last snapshot; a label is a position
    target,    \* elements the running pattern job looked up: none or one
    refs,      \* references held on each element
    leaked     \* references lost when a snapshot job panicked

calls    == <<kind, label>>
elements == <<phase, building, old, last, target, refs, leaked>>
vars     == <<step, on, result, calls, thread, quit, serving, wmi, closer, elements>>

NoCall == "nobody"

Init ==
    /\ step = [c \in Callers |-> "idle"] /\ on = [c \in Callers |-> "sta"]
    /\ kind \in Workloads /\ label = [c \in Callers |-> 1]
    /\ result = [c \in Callers |-> "none"]
    /\ thread = [t \in Threads |-> IF t = "sta" THEN "arriving" ELSE "none"]
    /\ quit = {} /\ serving = [t \in Threads |-> NoCall]
    /\ wmi = "none" /\ closer = "idle"
    /\ phase = "none" /\ building = <<>> /\ old = <<>> /\ last = <<>>
    /\ target = {} /\ refs = [e \in Elements |-> 0] /\ leaked = [e \in Elements |-> 0]

----------------------------------------------------------------------------
(***************************************************************************)
(* Handing over a job: Do and wmiWorker.do, and the two loops.             *)
(***************************************************************************)
StartCall(c) ==
    /\ step[c] = "idle"
    /\ step' = [step EXCEPT ![c] = IF kind[c] = "query" THEN "connect" ELSE "send"]
    /\ IF kind[c] = "pattern"
       THEN \E l \in 1..MaxNodes : label' = [label EXCEPT ![c] = l]
       ELSE UNCHANGED label
    /\ UNCHANGED <<on, kind, result, thread, quit, serving, wmi, closer, elements>>

\* withWMI, under its mutex: the worker is started by the first call that needs it.
Connect(c) ==
    /\ step[c] = "connect"
    /\ \/ /\ wmi # "none"
          /\ on' = [on EXCEPT ![c] = wmi] /\ step' = [step EXCEPT ![c] = "send"]
          /\ UNCHANGED <<result, thread, wmi>>
       \/ /\ wmi = "none"
          /\ LET w == IF thread["wmi1"] = "none" THEN "wmi1" ELSE "wmi2" IN
                 /\ wmi' = w /\ thread' = [thread EXCEPT ![w] = "arriving"]
                 /\ on' = [on EXCEPT ![c] = w]
          /\ step' = [step EXCEPT ![c] = "send"]
          /\ UNCHANGED result
       \/ /\ wmi = "none"
          /\ step' = [step EXCEPT ![c] = "done"] /\ result' = [result EXCEPT ![c] = "error"]
          /\ UNCHANGED <<on, thread, wmi>>
    /\ UNCHANGED <<calls, quit, serving, closer, elements>>

Accept(c, t) ==
    /\ thread'  = [thread EXCEPT ![t] = "running"]
    /\ serving' = [serving EXCEPT ![t] = c]
    /\ step'    = [step EXCEPT ![c] = "waiting"]

\* Mutant: Do sends without looking at the quit channel.
SendOnly(c) ==
    /\ step[c] = "send"
    /\ \/ /\ thread[on[c]] = "parked"
          /\ Accept(c, on[c])
       \/ /\ thread[on[c]] # "parked"
          /\ step' = [step EXCEPT ![c] = "parked"]
          /\ UNCHANGED <<thread, serving>>
    /\ UNCHANGED <<on, result, calls, quit, wmi, closer, elements>>

Send(c) ==
    /\ step[c] = "send"
    /\ \/ /\ thread[on[c]] = "parked"
          /\ Accept(c, on[c])
          /\ UNCHANGED result
       \/ /\ on[c] \in quit
          /\ step' = [step EXCEPT ![c] = "done"] /\ result' = [result EXCEPT ![c] = "closed"]
          /\ UNCHANGED <<thread, serving>>
       \/ /\ thread[on[c]] # "parked" /\ on[c] \notin quit
          /\ step' = [step EXCEPT ![c] = "parked"]
          /\ UNCHANGED <<result, thread, serving>>
    /\ UNCHANGED <<on, calls, quit, wmi, closer, elements>>

Waiting(t) == { c \in Callers : step[c] = "parked" /\ on[c] = t }

\* Mutant: the loop ranges over its jobs and never looks at the quit channel.
ReceiveOnly(t) ==
    /\ thread[t] = "arriving"
    /\ \/ \E c \in Waiting(t) : Accept(c, t)
       \/ /\ Waiting(t) = {}
          /\ thread' = [thread EXCEPT ![t] = "parked"]
          /\ UNCHANGED <<step, serving>>
    /\ UNCHANGED <<on, result, calls, quit, wmi, closer, elements>>

Receive(t) ==
    /\ thread[t] = "arriving"
    /\ \/ \E c \in Waiting(t) : Accept(c, t)
       \/ /\ t \in quit
          /\ thread' = [thread EXCEPT ![t] = "gone"]
          /\ UNCHANGED <<step, serving>>
       \/ /\ Waiting(t) = {} /\ t \notin quit
          /\ thread' = [thread EXCEPT ![t] = "parked"]
          /\ UNCHANGED <<step, serving>>
    /\ UNCHANGED <<on, result, calls, quit, wmi, closer, elements>>

\* close(quit): a parked thread ends, parked calls return ErrClosed.
CloseQuit(t) ==
    /\ quit' = quit \cup {t}
    /\ thread' = [thread EXCEPT ![t] = IF @ = "parked" THEN "gone" ELSE @]
    /\ step' = [c \in Callers |-> IF c \in Waiting(t) THEN "done" ELSE step[c]]
    /\ result' = [c \in Callers |-> IF c \in Waiting(t) THEN "closed" ELSE result[c]]

\* The job's outcome reaches the call, and the thread goes back to its select. A
\* panic on the STA thread is an outcome too (safeCall).
Finish(t, r) ==
    /\ thread'  = [thread EXCEPT ![t] = "arriving"]
    /\ serving' = [serving EXCEPT ![t] = NoCall]
    /\ step'    = [step EXCEPT ![serving[t]] = "done"]
    /\ result'  = [result EXCEPT ![serving[t]] = r]

----------------------------------------------------------------------------
(***************************************************************************)
(* Jobs.                                                                   *)
(***************************************************************************)
Running(k) == thread["sta"] = "running" /\ kind[serving["sta"]] = k

BeginSnapshot ==
    /\ Running("snapshot") /\ phase = "none"
    /\ phase' = "build"
    /\ UNCHANGED <<step, on, result, calls, thread, quit, serving, wmi, closer,
                   building, old, last, target, refs, leaked>>

Occurrences(e, s) == Cardinality({ i \in DOMAIN s : s[i] = e })

\* Mutant: the element is kept without a reference of its own.
VisitBorrowed ==
    /\ phase = "build" /\ Len(building) < MaxNodes
    /\ \E e \in { x \in Elements : Occurrences(x, building) = 0 } :
           building' = Append(building, e)
    /\ UNCHANGED <<step, on, result, calls, thread, quit, serving, wmi, closer,
                   phase, old, last, target, refs, leaked>>

\* visit: an interactive element the walk has reached is labelled and retained.
Visit ==
    /\ phase = "build" /\ Len(building) < MaxNodes
    /\ \E e \in { x \in Elements : Occurrences(x, building) = 0 } :
           /\ building' = Append(building, e)
           /\ refs' = [refs EXCEPT ![e] = @ + 1]
    /\ UNCHANGED <<step, on, result, calls, thread, quit, serving, wmi, closer,
                   phase, old, last, target, leaked>>

\* Mutants: the state that is released is read after the swap, or not kept.
SwapReleasesNew ==
    /\ phase = "build"
    /\ last' = building /\ old' = building /\ building' = <<>>
    /\ phase' = "release"
    /\ UNCHANGED <<step, on, result, calls, thread, quit, serving, wmi, closer,
                   target, refs, leaked>>
SwapForgetsOld ==
    /\ phase = "build"
    /\ last' = building /\ old' = <<>> /\ building' = <<>>
    /\ phase' = "release"
    /\ UNCHANGED <<step, on, result, calls, thread, quit, serving, wmi, closer,
                   target, refs, leaked>>

Swap ==
    /\ phase = "build"
    /\ last' = building /\ old' = last /\ building' = <<>>
    /\ phase' = "release"
    /\ UNCHANGED <<step, on, result, calls, thread, quit, serving, wmi, closer,
                   target, refs, leaked>>

\* releaseStateElements over the replaced snapshot.
ReleaseOld ==
    /\ phase = "release" /\ old # <<>>
    /\ refs' = [refs EXCEPT ![Head(old)] = @ - 1]
    /\ old' = Tail(old)
    /\ UNCHANGED <<step, on, result, calls, thread, quit, serving, wmi, closer,
                   phase, building, last, target, leaked>>

EndSnapshot ==
    /\ phase = "release" /\ old = <<>>
    /\ Finish("sta", "ok")
    /\ phase' = "none"
    /\ UNCHANGED <<on, calls, quit, wmi, closer, building, old, last, target, refs, leaked>>

\* An error before the walk starts, or a panic in the middle of it: what was
\* retained so far is in no state that a later snapshot would release.
AbandonSnapshot ==
    /\ Running("snapshot") /\ phase \in {"none", "build"}
    /\ Finish("sta", "error")
    /\ phase' = "none" /\ building' = <<>>
    /\ leaked' = [e \in Elements |-> leaked[e] + Occurrences(e, building)]
    /\ UNCHANGED <<on, calls, quit, wmi, closer, old, last, target, refs>>

\* elementForLabel, in the job.
LookUp ==
    /\ Running("pattern") /\ phase = "none"
    /\ LET l == label[serving["sta"]] IN
           /\ l \in DOMAIN last
           /\ target' = {last[l]}
    /\ phase' = "use"
    /\ UNCHANGED <<step, on, result, calls, thread, quit, serving, wmi, closer,
                   building, old, last, refs, leaked>>

LabelNotFound ==
    /\ Running("pattern") /\ phase = "none"
    /\ label[serving["sta"]] \notin DOMAIN last
    /\ Finish("sta", "error")
    /\ UNCHANGED <<on, calls, quit, wmi, closer, elements>>

\* The pattern call on the element, which may fail.
UsePattern ==
    /\ phase = "use"
    /\ Finish("sta", "ok") \/ Finish("sta", "error")
    /\ phase' = "none" /\ target' = {}
    /\ UNCHANGED <<on, calls, quit, wmi, closer, building, old, last, refs, leaked>>

RunQuery(w) ==
    /\ thread[w] = "running"
    /\ Finish(w, "ok") \/ Finish(w, "error")
    /\ UNCHANGED <<on, calls, quit, wmi, closer, elements>>

----------------------------------------------------------------------------
(***************************************************************************)
(* Desktop.Close, once: the recorder and the overlay are Recording's       *)
(* subject; then the WMI worker, then the STA thread.  Neither thread is   *)
(* waited for.                                                             *)
(***************************************************************************)
StartClose ==
    /\ closer = "idle"
    /\ closer' = "wmi"
    /\ UNCHANGED <<step, on, result, calls, thread, quit, serving, wmi, elements>>

CloseWMI ==
    /\ closer = "wmi"
    /\ closer' = "quit" /\ wmi' = "none"
    /\ IF wmi = "none" THEN UNCHANGED <<step, result, thread, quit>> ELSE CloseQuit(wmi)
    /\ UNCHANGED <<on, calls, serving, elements>>

\* Mutant: the engine is marked closed and its channel left open.
CloseMarked ==
    /\ closer = "quit"
    /\ closer' = "closed"
    /\ UNCHANGED <<step, on, result, calls, thread, quit, serving, wmi, elements>>

CloseEngine ==
    /\ closer = "quit"
    /\ closer' = "closed"
    /\ CloseQuit("sta")
    /\ UNCHANGED <<on, calls, serving, wmi, elements>>

----------------------------------------------------------------------------
Snapshot == BeginSnapshot \/ Visit \/ Swap \/ ReleaseOld \/ EndSnapshot \/ AbandonSnapshot
Pattern  == LookUp \/ LabelNotFound \/ UsePattern
Close    == CloseWMI \/ CloseEngine
Calling(c) == Connect(c) \/ Send(c)

Finished == closer = "closed" /\ (\A c \in Callers : step[c] = "done") /\ UNCHANGED vars

Next ==
    \/ \E c \in Callers : StartCall(c) \/ Calling(c)
    \/ \E t \in Threads : Receive(t)
    \/ \E w \in Workers : RunQuery(w)
    \/ Snapshot \/ Pattern \/ StartClose \/ Close \/ Finished

\* Goroutines run, and a COM or WMI call returns; a call may never be made, and
\* Close may never be called.
Spec ==
    /\ Init /\ [][Next]_vars
    /\ \A c \in Callers : WF_vars(Calling(c))
    /\ \A t \in Threads : WF_vars(Receive(t))
    /\ \A w \in Workers : WF_vars(RunQuery(w))
    /\ WF_vars(Snapshot \/ Pattern) /\ WF_vars(Close)

----------------------------------------------------------------------------
(***************************************************************************)
(* Properties                                                              *)
(***************************************************************************)
\* Every variable has its type.
TypeOK ==
    /\ step \in [Callers -> {"idle", "connect", "send", "parked", "waiting", "done"}]
    /\ kind \in Workloads /\ on \in [Callers -> Threads]
    /\ label \in [Callers -> 1..MaxNodes]
    /\ result \in [Callers -> {"none", "ok", "error", "closed"}]
    /\ thread \in [Threads -> {"none", "arriving", "parked", "running", "gone"}]
    /\ quit \subseteq Threads /\ serving \in [Threads -> Callers \cup {NoCall}]
    /\ wmi \in Workers \cup {"none"} /\ closer \in {"idle", "wmi", "quit", "closed"}
    /\ phase \in {"none", "build", "release", "use"}
    /\ building \in Seq(Elements) /\ old \in Seq(Elements) /\ last \in Seq(Elements)
    /\ Len(building) <= MaxNodes /\ Len(last) <= MaxNodes
    /\ target \subseteq Elements
    /\ refs \in [Elements -> Nat] /\ leaked \in [Elements -> Nat]

\* A pattern job acts on an element this program still holds a reference on,
\* however calls and snapshots interleave and whichever snapshot its label is from.
LiveElements == \A e \in target : refs[e] > 0

\* Every reference is accounted for: it belongs to the last snapshot, to the one
\* being built, to the one being released, or was lost to a panic; none is
\* released twice and none outlives the snapshot that replaces it.
RefsAccounted ==
    \A e \in Elements :
        refs[e] = Occurrences(e, building) + Occurrences(e, old)
                  + Occurrences(e, last) + leaked[e]

\* The engine serves its callers as JobService promises: what Do returns is the
\* answer to a job that ran alone, or ErrClosed for one that will never run, "After
\* Close, Do returns ErrClosed" (the comment of Do), also when the thread was busy at
\* the time of the close and both cases of a select could be ready later; and no
\* caller is passed over for ever.  Queries have a thread of their own.
JobOf(c) ==
    IF kind[c] = "query" THEN "none"
    ELSE CASE step[c] = "idle"               -> "none"
           [] step[c] \in {"send", "parked"} -> "asked"
           [] step[c] = "waiting"            -> "running"
           [] step[c] = "done"               -> IF result[c] = "closed" THEN "refused" ELSE "answered"

Jobs == INSTANCE JobService WITH
            job <- [c \in Callers |-> JobOf(c)], open <- closer # "closed"
ServesJobs == Jobs!Spec

\* Every call to Do and withWMI returns: nobody waits for a thread that has gone,
\* or for an answer to a job that nobody took.
CallsReturn == \A c \in Callers : step[c] # "idle" ~> step[c] = "done"

\* The STA thread ends after Close, whatever it was doing.
ThreadEnds == closer = "closed" ~> thread["sta"] = "gone"
=============================================================================
