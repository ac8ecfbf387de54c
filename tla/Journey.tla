------------------------------ MODULE Journey ------------------------------
(***************************************************************************)
(* Recording a journey: low-level hooks on a pumped thread put what the    *)
(* person does into a buffer, and the recorder takes the events out,       *)
(* enriches each from the live UI and emits it, until it is cancelled or   *)
(* sees the stop key (internal/desktop/journeyhook_windows.go,             *)
(* journeyrecord.go).                                                      *)
(*                                                                         *)
(* The hook procedures are package-level: they reach the session that is   *)
(* active, whichever session's hooks called them.                          *)
(***************************************************************************)
EXTENDS Naturals, Sequences, FiniteSets

CONSTANTS
    Sessions,    \* calls of RecordInput, numbered in the order they begin
    BufferCap,   \* capacity of a session's event buffer
    MaxEvents,   \* bound: input events in a behaviour that are for the journey
    MaxMoves     \* bound: how often the focus moves

ASSUME SessionsAssumption  == Sessions \subseteq Nat
ASSUME BufferCapAssumption == BufferCap \in Nat \ {0}
ASSUME BoundsAssumption    == MaxEvents \in Nat /\ MaxMoves \in Nat

\* What reaches the recorder: a click, a printable key, the stop key.  The mark key
\* and the named keys are emitted as a click is, without a look at the focus.
Kinds  == {"click", "char", "stop"}
Fields == {"password", "plain"}

Raw == [ kind : Kinds, at : 1..MaxEvents,
         into : Fields,             \* a character: what had the focus when it was typed,
         moved : 0..MaxMoves ]      \* and how often the focus had moved by then

\* A key that means nothing to a journey, a Shift that is held down and repeats say,
\* goes through the buffer like the others.
Silent == [kind |-> "silent"]

VARIABLES
    pc,        \* sessions: "idle", "starting", "recording", "enriching", "stopping",
               \*   "waiting", "returned", "refused"
    hooks,     \* hook threads: "none", "mouse", "both", "quitting", "removed"
    active,    \* activeHooks: at most one session
    buffer,    \* events a session's hooks delivered
    current,   \* the event a session is enriching
    recorded,  \* what a session has emitted
    ctx,       \* sessions whose context is cancelled
    focus,     \* what has the focus
    moved,     \* how often the focus has moved
    events,    \* input events so far
    doubled,   \* history: events that two sets of hooks saw
    due        \* history: events a recording session had hooks and room for

session == <<pc, hooks, active>>
data    == <<buffer, current, recorded>>
world   == <<focus, moved, events, doubled, due>>
vars    == <<session, data, ctx, world>>

NoEvent == [kind |-> "none"]

Init ==
    /\ pc = [s \in Sessions |-> "idle"] /\ hooks = [s \in Sessions |-> "none"]
    /\ active = {} /\ buffer = [s \in Sessions |-> <<>>]
    /\ current = [s \in Sessions |-> NoEvent] /\ recorded = [s \in Sessions |-> <<>>]
    /\ ctx = {}
    /\ focus \in Fields /\ moved = 0
    /\ events = 0 /\ doubled = {} /\ due = [s \in Sessions |-> {}]

Go(s, p) == pc' = [pc EXCEPT ![s] = p]

----------------------------------------------------------------------------
(***************************************************************************)
(* A session's hooks.                                                      *)
(***************************************************************************)
\* startInputHooks: one session at a time.
Start(s) ==
    /\ pc[s] = "idle" /\ \A t \in Sessions : t < s => pc[t] # "idle"
    /\ IF active = {} THEN Go(s, "starting") /\ active' = {s}
       ELSE Go(s, "refused") /\ UNCHANGED active
    /\ UNCHANGED <<hooks, data, ctx, world>>

\* SetWindowsHookEx, for the mouse and then for the keyboard.
InstallHook(s) ==
    /\ pc[s] = "starting" /\ hooks[s] \in {"none", "mouse"}
    /\ hooks' = [hooks EXCEPT ![s] = IF @ = "none" THEN "mouse" ELSE "both"]
    /\ UNCHANGED <<pc, active, data, ctx, world>>

\* Either hook fails: what was installed is removed, and the session is released.
InstallFails(s) ==
    /\ pc[s] = "starting" /\ hooks[s] \in {"none", "mouse"}
    /\ hooks' = [hooks EXCEPT ![s] = "removed"]
    /\ active' = {} /\ Go(s, "refused")
    /\ UNCHANGED <<data, ctx, world>>

Started(s) ==
    /\ pc[s] = "starting" /\ hooks[s] = "both"
    /\ Go(s, "recording")
    /\ UNCHANGED <<hooks, active, data, ctx, world>>

\* Mutant: stop posts WM_QUIT and does not wait for the thread.
StopAsync(s) ==
    /\ pc[s] = "stopping"
    /\ active' = active \ {s}
    /\ hooks' = [hooks EXCEPT ![s] = "quitting"]
    /\ Go(s, "returned")
    /\ buffer' = [buffer EXCEPT ![s] = <<>>]
    /\ UNCHANGED <<current, recorded, ctx, world>>

\* stop, deferred: the session is released, the thread told to quit, waited for.
\* Nothing looks at the session's buffer any more.
Stop(s) ==
    /\ pc[s] = "stopping"
    /\ active' = active \ {s}
    /\ hooks' = [hooks EXCEPT ![s] = "quitting"]
    /\ Go(s, "waiting")
    /\ buffer' = [buffer EXCEPT ![s] = <<>>]
    /\ UNCHANGED <<current, recorded, ctx, world>>

Unhook(s) ==
    /\ hooks[s] = "quitting"
    /\ hooks' = [hooks EXCEPT ![s] = "removed"]
    /\ UNCHANGED <<pc, active, data, ctx, world>>

Stopped(s) ==
    /\ pc[s] = "waiting" /\ hooks[s] = "removed"
    /\ Go(s, "returned")
    /\ UNCHANGED <<hooks, active, data, ctx, world>>

----------------------------------------------------------------------------
(***************************************************************************)
(* The hook procedures: every installed set sees the event, and delivers   *)
(* it to the active session unless its buffer is full.                     *)
(***************************************************************************)
Seen(kind) ==
    { s \in Sessions : hooks[s] \in {"both", "quitting"}
                       \/ (kind = "click" /\ hooks[s] = "mouse") }

Limited(n, room) == IF n < room THEN n ELSE room

\* Mutants: the channel is unbuffered; the buffer has no limit.
DeliverUnbuffered(e) ==
    buffer' = [s \in Sessions |->
        IF s \in active /\ pc[s] = "recording" /\ buffer[s] = <<>> /\ Seen(e.kind) # {}
        THEN <<e>> ELSE buffer[s]]
DeliverAll(e) ==
    buffer' = [s \in Sessions |->
        buffer[s] \o [i \in 1..(IF s \in active THEN Cardinality(Seen(e.kind)) ELSE 0) |-> e]]

\* A copy for each set of hooks that is installed, as far as there is room.
Deliver(e) ==
    buffer' = [s \in Sessions |->
        buffer[s] \o
        [i \in 1..(IF s \in active THEN Limited(Cardinality(Seen(e.kind)), BufferCap - Len(buffer[s]))
                   ELSE 0) |-> e]]

\* The person acts and a hook sees it: synthetic keys are skipped by the hook and
\* not modelled.
Input ==
    /\ events < MaxEvents
    /\ events' = events + 1
    /\ \E k \in Kinds :
           /\ Seen(k) # {}
           /\ Deliver([kind |-> k, at |-> events',
                       into |-> IF k = "char" THEN focus ELSE "plain",
                       moved |-> IF k = "char" THEN moved ELSE 0])
           /\ doubled' = IF Cardinality(Seen(k)) > 1 THEN doubled \cup {events'} ELSE doubled
    /\ due' = [s \in Sessions |->
                  IF s \in active /\ hooks[s] = "both" /\ Len(buffer[s]) < BufferCap
                  THEN due[s] \cup {events'} ELSE due[s]]
    /\ UNCHANGED <<session, current, recorded, ctx, focus, moved>>

\* There is no bound to these.
SilentInput ==
    /\ Deliver(Silent)
    /\ UNCHANGED <<session, current, recorded, ctx, world>>

\* A click, a Tab or another window: the focus is somewhere else.
FocusMoves ==
    /\ moved < MaxMoves
    /\ moved' = moved + 1 /\ focus' \in Fields
    /\ UNCHANGED <<session, data, ctx, events, doubled, due>>

\* A context that is cancelled earlier is seen no sooner.
Cancel(s) ==
    /\ s \notin ctx /\ pc[s] \in {"recording", "enriching"}
    /\ ctx' = ctx \cup {s}
    /\ UNCHANGED <<session, data, world>>

----------------------------------------------------------------------------
(***************************************************************************)
(* RecordInput's loop.                                                     *)
(***************************************************************************)
\* Mutant: the buffer is drained before the context is looked at.
SeeCancelDrained(s) ==
    /\ pc[s] = "recording" /\ s \in ctx /\ buffer[s] = <<>>
    /\ Go(s, "stopping")
    /\ UNCHANGED <<hooks, active, data, ctx, world>>

SeeCancel(s) ==
    /\ pc[s] = "recording" /\ s \in ctx
    /\ Go(s, "stopping")
    /\ UNCHANGED <<hooks, active, data, ctx, world>>

\* The stop key is consumed, and so is what means nothing; everything else is
\* enriched by a job of its own.
TakeEvent(s) ==
    /\ pc[s] = "recording" /\ buffer[s] # <<>>
    /\ LET e == Head(buffer[s]) IN
           CASE e.kind = "stop"   -> Go(s, "stopping") /\ UNCHANGED current
             [] e.kind = "silent" -> UNCHANGED <<pc, current>>
             [] OTHER -> Go(s, "enriching") /\ current' = [current EXCEPT ![s] = e]
    /\ buffer' = [buffer EXCEPT ![s] = Tail(@)]
    /\ UNCHANGED <<hooks, active, recorded, ctx, world>>

\* Mutant: not known is not secret.
SecureOpen(kind) ==
    IF kind = "char" THEN {focus = "password", FALSE} ELSE {FALSE}

\* focusedIsPassword, asked now. It may fail to tell, and a closed engine refuses
\* the job: both count as a password field.
Secure(kind) ==
    IF kind = "char" THEN {focus = "password", TRUE} ELSE {FALSE}

Emit(s) ==
    /\ pc[s] = "enriching"
    /\ Go(s, "recording")
    /\ \E secure \in Secure(current[s].kind) :
           recorded' = [recorded EXCEPT ![s] =
               Append(@, [event |-> current[s], secure |-> secure,
                          late |-> current[s].moved # moved])]
    /\ current' = [current EXCEPT ![s] = NoEvent]
    /\ UNCHANGED <<hooks, active, buffer, ctx, world>>

----------------------------------------------------------------------------
Hooking(s)   == InstallHook(s) \/ InstallFails(s) \/ Started(s) \/ Unhook(s)
Recorder(s)  == TakeEvent(s) \/ Emit(s) \/ Stop(s) \/ Stopped(s)

Next ==
    \/ \E s \in Sessions : Start(s) \/ Hooking(s) \/ Recorder(s) \/ SeeCancel(s) \/ Cancel(s)
    \/ Input \/ SilentInput \/ FocusMoves

\* Goroutines and the hook thread run. The context and the buffer are cases of one
\* select, which chooses at random: a cancelled context is not passed over for ever.
Spec ==
    /\ Init /\ [][Next]_vars
    /\ \A s \in Sessions :
           WF_vars(Hooking(s)) /\ WF_vars(Recorder(s)) /\ SF_vars(SeeCancel(s))

----------------------------------------------------------------------------
(***************************************************************************)
(* Properties                                                              *)
(***************************************************************************)
\* Every variable has its type.
TypeOK ==
    /\ pc \in [Sessions -> {"idle", "starting", "recording", "enriching", "stopping",
                            "waiting", "returned", "refused"}]
    /\ hooks \in [Sessions -> {"none", "mouse", "both", "quitting", "removed"}]
    /\ active \subseteq Sessions
    /\ buffer \in [Sessions -> Seq(Raw \cup {Silent})] /\ \A s \in Sessions : Len(buffer[s]) <= BufferCap
    /\ current \in [Sessions -> Raw \cup {NoEvent}]
    /\ recorded \in [Sessions -> Seq([event : Raw, secure : BOOLEAN, late : BOOLEAN])]
    /\ ctx \subseteq Sessions
    /\ focus \in Fields /\ moved \in 0..MaxMoves /\ events \in 0..MaxEvents
    /\ doubled \subseteq 1..MaxEvents /\ due \in [Sessions -> SUBSET (1..MaxEvents)]

\* When RecordInput has returned, with or without an error, its hooks are gone and
\* the next session can start.
HooksRemoved ==
    \A s \in Sessions : pc[s] \in {"returned", "refused"} =>
        hooks[s] \in {"none", "removed"} /\ s \notin active

\* A journey tells what the person did: in order and each event once, unless the
\* hooks of an earlier session were still installed and saw it too; and up to its
\* last event it lacks none that happened while its session had hooks and room,
\* however long the enriching of the events before took.
Before(e, f) == e.at < f.at \/ (e.at = f.at /\ e.at \in doubled)

JourneyIsFaithful ==
    \A s \in Sessions : \A i \in DOMAIN recorded[s] :
        /\ \A j \in DOMAIN recorded[s] : i < j => Before(recorded[s][i].event, recorded[s][j].event)
        /\ \A n \in due[s] : n < recorded[s][i].event.at =>
               \E j \in DOMAIN recorded[s] : recorded[s][j].event.at = n

Clear(r) == r.event.kind = "char" /\ ~r.secure

\* Redaction fails closed: a character that was typed into a password field is in
\* clear only if the focus has moved since, whatever else the engine was doing.
ClearOnlyIfMoved ==
    \A s \in Sessions : \A i \in DOMAIN recorded[s] :
        Clear(recorded[s][i]) => recorded[s][i].event.into = "plain" \/ recorded[s][i].late

\* A cancelled recording returns, although keys that repeat keep its buffer from
\* ever being empty, and although others' hooks fill it too.
CancelReturns ==
    \A s \in Sessions : s \in ctx /\ pc[s] = "recording" ~> pc[s] = "returned"

\* RecordedInput.Secure: "the char was typed into a password field".
TypedSecretsRedacted ==
    \A s \in Sessions : \A i \in DOMAIN recorded[s] :
        Clear(recorded[s][i]) => recorded[s][i].event.into = "plain"
=============================================================================
