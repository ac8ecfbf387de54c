----------------------------- MODULE Interaction -----------------------------
(***************************************************************************)
(* Concurrent tool calls acting on one desktop: the interaction and        *)
(* testing tools (pkg/windows/interaction.go, multi.go, testing.go,        *)
(* snapshot.go, actions.go) over the input synthesis, snapshots and        *)
(* element reads of internal/desktop (input.go, snapshot.go, selector.go,  *)
(* elementstate.go).                                                       *)
(*                                                                         *)
(* A call is a script of stages.  Stages outside a job read the last       *)
(* snapshot under its lock; a job is handed to the engine thread, which    *)
(* serves one at a time (JobService) and does its operations in order.     *)
(* Between any two operations the applications on the screen may change    *)
(* it, and between two jobs of one call another call may have its own.     *)
(* Every SendInput may inject only the beginning of what it was given.     *)
(***************************************************************************)
EXTENDS Selector, SequencesExt

CONSTANTS
    Callers,      \* tool calls
    MaxPoint,     \* points of the screen; 0 is a coordinate that fits no int32
    Elements,
    Screens,      \* what the applications may show
    First,        \* what they show when the calls begin
    Shows, Title, \* for each screen, the element at each point, and its window's title
    Tabs,         \* for each screen, where its window takes the focus on Tab
    Requests,     \* a function from names to requests
    Plans,        \* what the calls may ask for: functions from Callers to those names
    MaxBatch,     \* MaxBatchItems
    MaxText,      \* MaxTypeChars
    MaxMishaps    \* bound: failing Win32 calls and changes made by the applications

Nobody  == "nobody"
Nothing == "nothing"
None    == "none"

\* A target is a point, a label, a selector, or left out; an edit or a point of a batch
\* is never left out, a pattern call takes no point, a window is moved to a point.  A text
\* is made of characters, line feeds, tabs and carriage returns; edits share theirs.
ByPoint    == [by : {"point"}, at : Int]
ByLabel    == [by : {"label"}, label : Int]
BySelector == [by : {"selector"}, args : Arguments]
NoTarget   == [by |-> "none"]

Units == {"char", "newline", "tab", "return"}

Asks == [ tool : STRING, targets : Seq(ByPoint \cup ByLabel \cup BySelector \cup {NoTarget}),
          text : Seq(Units), size : Int,
          clear : BOOLEAN, enter : BOOLEAN, hold : BOOLEAN, keys : Seq(STRING),
          subject : STRING, wanted : [condition : STRING, text : Names] ]
Batches == {"MultiEdit", "MultiSelect"}

ASSUME InteractionAssumption ==
    /\ First \subseteq Screens /\ None \notin Screens /\ Nobody \notin Callers
    /\ Shows \in [Screens -> [1..MaxPoint -> Elements \cup {Nothing}]]
    /\ Tabs \in [Screens -> [Elements \cup {Nothing} -> Elements \cup {Nothing}]]
    /\ Plans \subseteq [Callers -> DOMAIN Requests]
    /\ MaxPoint \in Nat \ {0} /\ MaxBatch \in Nat /\ MaxText \in Nat /\ MaxMishaps \in Nat
ASSUME RequestsAssumption ==
    \A n \in DOMAIN Requests : LET r == Requests[n] IN
        /\ r \in Asks
        /\ IF r.tool \in Batches THEN r.targets \in Seq(ByPoint \cup ByLabel) ELSE r.targets # <<>>
        /\ r.tool = "Invoke" => r.targets[1] \in ByLabel \cup BySelector \cup {NoTarget}
        /\ r.tool = "Assert" => r.targets[1] \in BySelector \cup {NoTarget}
        /\ r.tool = "Resize" => r.targets[1] \in ByPoint \cup {NoTarget}

VARIABLES
    request,    \* what each call asks for
    at,         \* the stage each call is at; 0 before it starts
    points,     \* the points each call has resolved so far
    label,      \* the label each call resolved last
    own,        \* the screen whose snapshot was returned to the call, if any
    passes,     \* whether the element state it read satisfies the assertion
    expired,    \* calls whose deadline has passed
    cancelled,  \* calls whose context is done
    result,     \* "none", "ok", "error", "timeout", "cancelled"
    screen,     \* what the applications show
    last,       \* the screen of the last snapshot, if there is one
    desk,       \* cursor, focus, selection, text of each element, keys held, ...
    holder,     \* the call whose job the engine runs
    next, undo, \* the operation it is at, the keys it will release at the end
    broken,     \* an operation of it failed
    open,       \* Desktop.Close has not been called
    faults, changes,
    blamed,     \* history: keys whose release a short injection swallowed
    meant,      \* history: for each point or label, the elements it may stand for
    hits,       \* history: the elements acted on, with the index of the target
    muddled,    \* history: calls whose targets the screen or another snapshot overtook
    disturbed   \* history: calls that others got in the way of since their first click

call    == <<points, label, own, passes>>
world   == <<screen, last, desk, faults, changes>>
engine  == <<holder, next, undo, broken, open>>
history == <<blamed, meant, hits, muddled, disturbed>>
vars    == <<request, at, call, expired, cancelled, result, world, engine, history>>

----------------------------------------------------------------------------
(***************************************************************************)
(* Jobs, operation by operation, and the scripts of the tools.             *)
(***************************************************************************)
Down(key)   == [event |-> "down", key |-> key]
Up(key)     == [event |-> "up", key |-> key]
Char(i, j)  == [event |-> "char", key |-> <<i, j>>]
Send(b)     == [op |-> "send", target |-> 0, events |-> b]
Press(k)    == [op |-> "send", target |-> k, events |-> <<Down("button"), Up("button")>>]
Aim(k)      == [op |-> "aim", target |-> k]
Hold(key)   == [op |-> "hold", key |-> key]
Wheel       == Send(<<[event |-> "wheel", key |-> "wheel"]>>)
Walk        == [op |-> "walk"]
UseLabel    == [op |-> "use"]
Window(op, r) == [op |-> op, name |-> Trim(r.wanted.text), to |-> r.targets[1]]
Capture     == [op |-> "capture"]

Strict(ops) == [do |-> "job", strict |-> TRUE, ops |-> ops]
Lax(ops)    == [do |-> "job", strict |-> FALSE, ops |-> ops]
Judge       == [do |-> "judge"]
TooLarge    == [do |-> "refuse", strict |-> TRUE]
Times(n, x) == [i \in 1..n |-> x]

\* resolveTarget and pointForLabelOrLoc: a point, a label, or a selector whose
\* label is then looked up in a second read of the last snapshot.
ResolveLabel(t) == IF t.by = "selector" THEN <<[do |-> "resolve", target |-> t]>>
                   ELSE <<[do |-> "take", label |-> t.label]>>
ResolveTarget(t) ==
    CASE t.by = "point" -> <<[do |-> "point", at |-> t.at]>>
      [] t.by \in {"label", "selector"} -> ResolveLabel(t) \o <<[do |-> "locate"]>>
      [] OTHER -> <<>>
ResolveAll(ts) == FlattenSeq([k \in DOMAIN ts |-> ResolveTarget(ts[k])])

Click(k, n) == <<Strict(<<Aim(k)>> \o Times(n, Press(k)))>>

\* Mutant: Ctrl is released only when every point could be clicked.
ClickManyBare(n, hold) ==
    <<Strict(<<Send(<<Down("ctrl")>>)>> \o FlattenSeq([k \in 1..n |-> <<Aim(k), Press(k)>>])
             \o <<Send(<<Up("ctrl")>>)>>)>>
ClickMany(n, hold) ==
    LET clicks == FlattenSeq([k \in 1..n |-> <<Aim(k), Press(k)>>]) IN
    <<Strict(IF hold THEN <<Hold("ctrl")>> \o clicks ELSE clicks)>>

Shortcut(keys) ==
    LET n == Len(keys) IN
    Send([i \in 1..(2 * n) |-> IF i <= n THEN Down(keys[i]) ELSE Up(keys[2 * n + 1 - i])])

\* A line feed and a tab are keys, and a carriage return is dropped.
Stroke(i, j, unit) ==
    CASE unit = "newline" -> <<Down("enter"), Up("enter")>>
      [] unit = "tab"     -> <<Down("tab"), Up("tab")>>
      [] unit = "return"  -> <<>>
      [] OTHER            -> <<Char(i, j), Up("char")>>

\* Mutant: the text is typed in one job per unit.
TypeTextApart(i, text) == [j \in DOMAIN text |-> Strict(<<Send(Stroke(i, j, text[j]))>>)]

\* One SendInput for every unit, all in one job; a text over the limit is refused.
TypeText(i, text) ==
    IF Len(text) > MaxText THEN <<TooLarge>>
    ELSE <<Strict([j \in DOMAIN text |-> Send(Stroke(i, j, text[j]))])>>

\* Mutant: the field is not selected before it is cleared.
DeleteOnly == <<<<Shortcut(<<"delete">>)>>>>
ClearField == <<<<Shortcut(<<"ctrl", "a">>)>>, <<Shortcut(<<"delete">>)>>>>

Type(r) ==
    LET t == r.targets[1] IN
    ResolveTarget(t)
    \o (IF t.by = "none" THEN <<>> ELSE Click(1, 1))
    \o (IF r.clear THEN [i \in DOMAIN ClearField |-> Strict(ClearField[i])] ELSE <<>>)
    \o TypeText(1, r.text)
    \o (IF r.enter THEN <<Strict(<<Shortcut(<<"enter">>)>>)>> ELSE <<>>)

\* Each edit is resolved only when it is reached; errors of clearing are dropped.
MultiEdit(r) ==
    FlattenSeq([k \in DOMAIN r.targets |->
        ResolveTarget(r.targets[k]) \o Click(k, 1)
        \o [i \in DOMAIN ClearField |-> Lax(ClearField[i])] \o TypeText(k, r.text)])

MultiSelect(r) == ResolveAll(r.targets) \o ClickMany(Len(r.targets), r.hold)

Notches(n) == IF n < 1 THEN 1 ELSE IF n > MaxBatch THEN MaxBatch ELSE n

Scroll(r) ==
    LET notches == Times(Notches(r.size), Wheel) IN
    ResolveTarget(r.targets[1])
    \o <<Strict(<<Aim(1)>> \o (IF r.hold THEN <<Hold("shift")>> ELSE <<>>) \o notches)>>

\* What an assertion reads decides how far it goes past its snapshot.
Assertion(r) ==
    <<Strict(<<Walk>>)>>
    \o (IF r.subject = "state" THEN ResolveLabel(r.targets[1]) \o <<Strict(<<UseLabel>>)>>
        ELSE <<>>)
    \o <<Judge>>

ClickOn(r)      == ResolveTarget(r.targets[1]) \o Click(1, r.size)
Move(r)         == ResolveTarget(r.targets[1]) \o Click(1, 0)
TakeSnapshot    == <<Strict(<<Walk>>)>>
CaptureEvidence == TakeSnapshot \o <<Strict(<<Capture>>)>>
Invoke(r)       == ResolveLabel(r.targets[1]) \o <<Strict(<<UseLabel>>)>>
WaitFor         == <<Lax(<<Walk>>), Judge>>
App(r)          == <<Strict(<<Window(IF r.tool = "Switch" THEN "activate" ELSE "resize", r)>>)>>

Script(r) ==
    CASE r.tool = "Click"       -> ClickOn(r)
      [] r.tool = "Move"        -> Move(r)
      [] r.tool = "Type"        -> Type(r)
      [] r.tool = "MultiEdit"   -> MultiEdit(r)
      [] r.tool = "MultiSelect" -> MultiSelect(r)
      [] r.tool = "Scroll"      -> Scroll(r)
      [] r.tool = "Shortcut"    -> <<Strict(<<Shortcut(r.keys)>>)>>
      [] r.tool = "Snapshot"    -> TakeSnapshot
      [] r.tool = "Evidence"    -> CaptureEvidence
      [] r.tool = "Invoke"      -> Invoke(r)
      [] r.tool = "WaitFor"     -> WaitFor
      [] r.tool = "Assert"      -> Assertion(r)
      [] OTHER                  -> App(r)

Scripts == [n \in DOMAIN Requests |-> Script(Requests[n])]

\* What is refused before anything is done: a tool that lacks the target it needs,
\* an unknown key, a batch that is empty or over its limit.
KnownKeys == {"ctrl", "shift", "alt", "a", "delete", "enter", "tab"}
UnknownKey(keys)    == keys = <<>> \/ Range(keys) \cap KnownKeys # Range(keys)
BadBatch(targets)   == Len(targets) \notin 1..MaxBatch
BadSelector(r)      == r.subject # "title" /\ r.targets[1].by = "none"
Refused(r) ==
    \/ r.tool \in {"Click", "Move", "Scroll", "Invoke", "Resize"} /\ r.targets[1].by = "none"
    \/ r.tool = "Shortcut" /\ UnknownKey(r.keys)
    \/ r.tool \in {"MultiEdit", "MultiSelect"} /\ BadBatch(r.targets)
    \/ r.tool = "Assert" /\ BadSelector(r)

\* Snapshot: the elements shown, labelled in the order of the tree.
WalkOf(s) ==
    FlattenSeq([p \in 1..MaxPoint |-> IF Shows[s][p] = Nothing THEN <<>>
                                      ELSE <<[at |-> p, el |-> Shows[s][p]]>>])
Walks == [s \in Screens \cup {None} |-> IF s = None THEN <<>> ELSE WalkOf(s)]
snapshot == Walks[last]

\* The desktop may have been snapshotted before any of these calls.
Init ==
    /\ request \in Plans
    /\ at = [c \in Callers |-> 0] /\ points = [c \in Callers |-> <<>>]
    /\ label = [c \in Callers |-> 0] /\ own = [c \in Callers |-> None]
    /\ passes = [c \in Callers |-> FALSE] /\ expired = {} /\ cancelled = {}
    /\ result = [c \in Callers |-> "none"]
    /\ screen \in First /\ last \in Screens \cup {None}
    /\ desk = [cursor |-> 1, focus |-> Nothing, selected |-> Nothing, held |-> {},
               submitted |-> Nothing, text |-> [e \in Elements |-> <<<<Nobody, 0, 1>>>>]]
    /\ holder = Nobody /\ next = 1 /\ undo = {} /\ broken = FALSE /\ open = TRUE
    /\ faults = 0 /\ changes = 0 /\ blamed = {}
    /\ meant = [c \in Callers |-> <<>>] /\ hits = [c \in Callers |-> {}]
    /\ muddled = {} /\ disturbed = {}

----------------------------------------------------------------------------
(***************************************************************************)
(* The stages of a call outside the engine.                                *)
(***************************************************************************)
InFlight == { c \in Callers : at[c] > 0 /\ result[c] = "none" }
Asked(c) == Requests[request[c]]
Stage(c) == Scripts[request[c]][at[c]]
AtStage(c, do) == c \in InFlight /\ holder # c /\ Stage(c).do = do

End(c, r) == result' = [result EXCEPT ![c] = r] /\ UNCHANGED at
Goto(c, i) == at' = [at EXCEPT ![c] = i] /\ UNCHANGED result
Advance(c) == IF at[c] = Len(Scripts[request[c]]) THEN End(c, "ok") ELSE Goto(c, at[c] + 1)

StartCall(c) ==
    /\ at[c] = 0
    /\ at' = [at EXCEPT ![c] = 1]
    /\ result' = [result EXCEPT ![c] = IF Refused(Asked(c)) THEN "error" ELSE "none"]
    /\ muddled' = IF last = screen THEN muddled ELSE muddled \cup {c}
    /\ UNCHANGED <<request, call, expired, cancelled, world, engine,
                   blamed, meant, hits, disturbed>>

Means(c, els) == meant' = [meant EXCEPT ![c] = Append(@, els)]

\* A point or a label of the request itself.
Take(c) ==
    /\ \/ /\ AtStage(c, "point")
          /\ points' = [points EXCEPT ![c] = Append(@, Stage(c).at)]
          /\ Means(c, Elements \cup {Nothing})
          /\ UNCHANGED label
       \/ /\ AtStage(c, "take")
          /\ label' = [label EXCEPT ![c] = Stage(c).label]
          /\ Means(c, { snapshot[l].el : l \in {Stage(c).label} \cap DOMAIN snapshot })
          /\ UNCHANGED points
    /\ Advance(c)
    /\ UNCHANGED <<request, own, passes, expired, cancelled, world, engine,
                   blamed, hits, muddled, disturbed>>

\* The elements a selector stands for: of those that match it the only one, the one
\* with none before it, or the one with as many before it as its index says.
Chosen(occurrence, found) ==
    { l \in found : CASE occurrence.mode \in {"", "unique"} -> found = {l}
                      [] occurrence.mode = "first" -> \A k \in found : k >= l
                      [] OTHER -> Cardinality({ k \in found : k < l }) = occurrence.index }
Designated(spec) ==
    { snapshot[l].el : l \in Chosen(spec.occurrence, Matches(spec, snapshot)) }

\* An assertion about an element that is not there has an observation to judge;
\* anything else that does not resolve ends the call.
ResolveSelector(c) ==
    /\ AtStage(c, "resolve")
    /\ LET spec == SelectorFromArgs(Stage(c).target.args)
           r    == Resolve(spec, snapshot) IN
       IF r.error = "none"
       THEN /\ label' = [label EXCEPT ![c] = r.label]
            /\ Means(c, Designated(spec))
            /\ Advance(c) /\ UNCHANGED passes
       ELSE /\ IF Asked(c).tool = "Assert" /\ r.error = "no match"
               THEN /\ Goto(c, Len(Scripts[request[c]]))
                    /\ \E b \in BOOLEAN : passes' = [passes EXCEPT ![c] = b]
               ELSE End(c, "error") /\ UNCHANGED passes
            /\ UNCHANGED <<label, meant>>
    /\ UNCHANGED <<request, points, own, expired, cancelled, world, engine,
                   blamed, hits, muddled, disturbed>>

\* CoordinatesForLabel, against the last snapshot of now.
Locate(c) ==
    /\ AtStage(c, "locate")
    /\ IF label[c] \in DOMAIN snapshot
       THEN /\ points' = [points EXCEPT ![c] = Append(@, snapshot[label[c]].at)]
            /\ Advance(c)
       ELSE End(c, "error") /\ UNCHANGED points
    /\ UNCHANGED <<request, label, own, passes, expired, cancelled, world, engine, history>>

\* The text of a snapshot names the window in front and its elements.
ConditionMet(w, state) ==
    LET named == { Info[Walks[state][i].el].name : i \in DOMAIN Walks[state] } IN
    /\ state # None /\ ~NoWords(w.text)
    /\ CASE w.condition = "active_window"  -> ContainsFold(Title[state], w.text)
         [] w.condition = "element_exists" -> \E n \in named : MatchString(n, w.text)
         [] w.condition = "text_exists"    -> \E n \in named \cup {Title[state]} : MatchString(n, w.text)
         [] OTHER -> FALSE

\* A window is looked for among those of the call's own snapshot, an element in the last.
Met(c) ==
    LET r == Asked(c) IN
    IF r.tool = "WaitFor" THEN ConditionMet(r.wanted, own[c])
    ELSE CASE r.subject = "window"  -> \E t \in Range(Title) : WindowMatches(t, r.targets[1].args.spec)
           [] r.subject = "element" -> Matches(r.targets[1].args.spec, snapshot) # {}
           [] OTHER                 -> passes[c]

BadAssertion(c) ==
    /\ Asked(c).tool = "Assert" /\ Asked(c).subject \in {"element", "state"}
    /\ Malformed(Asked(c).targets[1].args.spec)

\* Mutant: the deadline is looked at only when there is a snapshot to judge.
EvaluateSeen(c) ==
    /\ AtStage(c, "judge")
    /\ CASE BadAssertion(c)                   -> End(c, "error")
         [] ~BadAssertion(c) /\ Met(c)        -> End(c, "ok")
         [] ~Met(c) /\ c \in expired /\ own[c] # None -> End(c, "timeout")
         [] OTHER -> IF c \in cancelled THEN End(c, "cancelled") ELSE Goto(c, 1)
    /\ UNCHANGED <<request, call, expired, cancelled, world, engine, history>>

\* One round of polling: WaitFor and runAssertion judge, then look at the
\* deadline, then wait for the interval or the end of the context.
Evaluate(c) ==
    /\ AtStage(c, "judge")
    /\ CASE BadAssertion(c)             -> End(c, "error")
         [] ~BadAssertion(c) /\ Met(c)  -> End(c, "ok")
         [] OTHER -> IF c \in expired THEN End(c, "timeout")
                     ELSE IF c \in cancelled THEN End(c, "cancelled") ELSE Goto(c, 1)
    /\ UNCHANGED <<request, call, expired, cancelled, world, engine, history>>

\* A deadline that passes, or a context that ends, earlier is seen no sooner.
Expire(c) ==
    /\ AtStage(c, "judge") /\ c \notin expired
    /\ expired' = expired \cup {c}
    /\ UNCHANGED <<request, at, call, cancelled, result, world, engine, history>>

Cancel(c) ==
    /\ AtStage(c, "judge") /\ c \notin cancelled
    /\ cancelled' = cancelled \cup {c}
    /\ UNCHANGED <<request, at, call, expired, result, world, engine, history>>

----------------------------------------------------------------------------
(***************************************************************************)
(* The jobs, on the engine thread.                                         *)
(***************************************************************************)
\* Its error ends a call, unless the tool drops it.
JobOver(c, failed) ==
    IF failed /\ Stage(c).strict THEN End(c, "error") ELSE Advance(c)

Begin(c) ==
    /\ AtStage(c, "job") /\ holder = Nobody /\ open
    /\ holder' = c /\ next' = 1 /\ undo' = {} /\ broken' = FALSE
    /\ UNCHANGED <<request, at, call, expired, cancelled, result, world, open, history>>

\* ErrClosed, or ErrInputTooLarge.
Refuse(c) ==
    /\ (AtStage(c, "job") /\ ~open) \/ AtStage(c, "refuse")
    /\ own' = [own EXCEPT ![c] = None]
    /\ JobOver(c, TRUE)
    /\ UNCHANGED <<request, points, label, passes, expired, cancelled, world, engine, history>>

Ops == Stage(holder).ops
Running(op) == holder # Nobody /\ next <= Len(Ops) /\ Ops[next].op = op
Done   == next' = next + 1 /\ UNCHANGED broken
Break  == next' = Len(Ops) + 1 /\ broken' = TRUE
Faulty == faults + changes < MaxMishaps /\ faults' = faults + 1

Interfere == disturbed' = disturbed \cup (InFlight \ {holder})

\* Mutant: a coordinate is narrowed without being checked.
FitsAlways(p) == TRUE

\* screenPoint: a coordinate that fits no int32 is refused, never wrapped.
Fits(p) == p \in 1..MaxPoint

AimCursor ==
    /\ Running("aim")
    /\ LET k == Ops[next].target
           p == points[holder][k] IN
       /\ \/ /\ Fits(p)
             /\ desk' = [desk EXCEPT !.cursor = p]
             /\ Done /\ UNCHANGED faults
          \/ /\ ~Fits(p)
             /\ Break /\ UNCHANGED <<desk, faults>>
          \/ Faulty /\ Break /\ UNCHANGED desk
       /\ disturbed' = (IF k = 1 THEN disturbed \ {holder} ELSE disturbed)
                       \cup (InFlight \ {holder})
    /\ UNCHANGED <<request, at, call, expired, cancelled, result, screen, last, changes,
                   holder, undo, open, blamed, meant, hits, muddled>>

\* What an injected event does to the desktop.
Typed(d, token) ==
    IF d.focus = Nothing \/ "ctrl" \in d.held THEN d
    ELSE [d EXCEPT !.text[d.focus] = IF d.selected = d.focus THEN <<token>> ELSE Append(@, token),
                   !.selected = Nothing]
Pressed(d, key) ==
    LET e == [d EXCEPT !.held = @ \cup {key}] IN
    CASE key = "button" -> [e EXCEPT !.focus = Shows[screen][d.cursor], !.selected = Nothing]
      [] key = "a" /\ "ctrl" \in d.held -> [e EXCEPT !.selected = d.focus]
      [] key = "delete" /\ d.focus # Nothing /\ d.selected = d.focus ->
             [e EXCEPT !.text[d.focus] = <<>>, !.selected = Nothing]
      [] key = "enter" -> [e EXCEPT !.submitted = d.focus]
      [] key = "tab" -> [e EXCEPT !.focus = Tabs[screen][d.focus], !.selected = Nothing]
      [] OTHER -> e
Happened(c, d, ev) ==
    CASE ev.event = "down" -> Pressed(d, ev.key)
      [] ev.event = "up"   -> [d EXCEPT !.held = @ \ {ev.key}]
      [] ev.event = "char" -> Typed(d, <<c, ev.key[1], ev.key[2]>>)
      [] OTHER             -> d
Injected(c, d, events) == FoldLeft(LAMBDA x, ev : Happened(c, x, ev), d, events)

\* sendInputs: all of the batch, or its beginning and an error.
SendBatch ==
    /\ Running("send")
    /\ LET b == Ops[next].events IN
       \E n \in 0..Len(b) :
           /\ IF n = Len(b) THEN Done /\ UNCHANGED faults ELSE Break /\ Faulty
           /\ desk' = Injected(holder, desk, SubSeq(b, 1, n))
           /\ blamed' = (blamed \cup { b[i].key : i \in { j \in (n + 1)..Len(b) : b[j].event = "up" } })
                        \cap desk'.held
           /\ hits' = IF Ops[next].target > 0 /\ n > 0
                      THEN [hits EXCEPT ![holder] =
                                @ \cup {<<Ops[next].target, Shows[screen][desk.cursor]>>}]
                      ELSE hits
    /\ Interfere
    /\ UNCHANGED <<request, at, call, expired, cancelled, result, screen, last, changes,
                   holder, undo, open, meant, muddled>>

\* A key held for the rest of the job: its release is deferred once it is down.
HoldKey ==
    /\ Running("hold")
    /\ LET key == Ops[next].key IN
       \/ /\ desk' = Injected(holder, desk, <<Down(key)>>)
          /\ undo' = undo \cup {key}
          /\ Done /\ UNCHANGED faults
       \/ Faulty /\ Break /\ UNCHANGED <<desk, undo>>
    /\ Interfere
    /\ UNCHANGED <<request, at, call, expired, cancelled, result, screen, last, changes,
                   holder, open, blamed, meant, hits, muddled>>

WalkScreen ==
    /\ Running("walk")
    /\ \/ /\ last' = screen
          /\ own' = [own EXCEPT ![holder] = screen]
          /\ muddled' = (IF last' = last THEN muddled ELSE muddled \cup InFlight) \ {holder}
          /\ hits' = [hits EXCEPT ![holder] = {}] /\ meant' = [meant EXCEPT ![holder] = <<>>]
          /\ Done /\ UNCHANGED faults
       \/ /\ own' = [own EXCEPT ![holder] = None]
          /\ Faulty /\ Break /\ UNCHANGED <<last, muddled, hits, meant>>
    /\ UNCHANGED <<request, at, points, label, passes, expired, cancelled, result, screen, desk,
                   changes, holder, undo, open, blamed, disturbed>>

\* ElementState, ReadLabel and the pattern calls look the label up in their job.
UseElement ==
    /\ Running("use")
    /\ LET l == label[holder] IN
       IF l \in DOMAIN snapshot
       THEN /\ hits' = [hits EXCEPT ![holder] = @ \cup {<<1, snapshot[l].el>>}]
            /\ \/ \E b \in IF Asked(holder).tool = "Assert" THEN BOOLEAN ELSE {TRUE} :
                     passes' = [passes EXCEPT ![holder] = b] /\ Done /\ UNCHANGED faults
               \/ Faulty /\ Break /\ UNCHANGED passes
       ELSE Break /\ UNCHANGED <<hits, passes, faults>>
    /\ UNCHANGED <<request, at, points, label, own, expired, cancelled, result, screen, last, desk,
                   changes, holder, undo, open, blamed, meant, muddled, disturbed>>

CaptureScreen ==
    /\ Running("capture")
    /\ \/ Done /\ UNCHANGED faults
       \/ Faulty /\ Break
    /\ UNCHANGED <<request, at, call, expired, cancelled, result, screen, last, desk, changes,
                   holder, undo, open, history>>

\* findWindowByTitle: the first of the windows whose title contains the name, in
\* an order that is Windows' own.
Found(name) == { s \in Screens : /\ ContainsFold(Title[s], name)
                                 /\ Title[s] = Title[screen] => s = screen }

\* Another window in front takes the focus, and overtakes what others look at.
InFront(s) ==
    /\ screen' = s
    /\ IF s = screen THEN UNCHANGED <<desk, muddled>>
       ELSE /\ \E f \in Range(Shows[s]) \cup {Nothing} : desk' = [desk EXCEPT !.focus = f]
            /\ muddled' = muddled \cup InFlight

\* ActivateWindow: that Windows may refuse the foreground is not looked at.
ActivateWindow ==
    /\ Running("activate")
    /\ LET found == Found(Ops[next].name) IN
       \/ found = {} /\ Break /\ UNCHANGED <<screen, desk, muddled, faults>>
       \/ \E s \in found : InFront(s) /\ Done /\ UNCHANGED faults
       \/ found # {} /\ Faulty /\ Done /\ UNCHANGED <<screen, desk, muddled>>
    /\ Interfere
    /\ UNCHANGED <<request, at, call, expired, cancelled, result, last, changes,
                   holder, undo, open, blamed, meant, hits>>

\* ResizeWindow: a minimised window is restored first, and stays so when the
\* geometry is refused; a window that is moved has its elements elsewhere.
ResizeWindow ==
    /\ Running("resize")
    /\ \/ Found(Ops[next].name) = {} /\ Break /\ UNCHANGED <<screen, desk, muddled, faults>>
       \/ \E s \in Found(Ops[next].name) : \E t \in {screen, s} :
              \/ /\ ~Fits(Ops[next].to.at)
                 /\ InFront(t) /\ Break /\ UNCHANGED faults
              \/ InFront(t) /\ Break /\ Faulty
              \/ /\ Fits(Ops[next].to.at)
                 /\ \E u \in IF t = s THEN { v \in Screens : Title[v] = Title[s] } ELSE {t} : InFront(u)
                 /\ Done /\ UNCHANGED faults
    /\ Interfere
    /\ UNCHANGED <<request, at, call, expired, cancelled, result, last, changes,
                   holder, undo, open, blamed, meant, hits>>

\* The deferred releases, whose error nobody looks at, and the answer to the call.
EndJob ==
    /\ holder # Nobody /\ next > Len(Ops)
    /\ \/ /\ desk' = [desk EXCEPT !.held = @ \ undo]
          /\ blamed' = blamed \ undo /\ UNCHANGED faults
       \/ /\ undo # {} /\ Faulty
          /\ blamed' = blamed \cup undo /\ UNCHANGED desk
    /\ JobOver(holder, broken)
    /\ holder' = Nobody /\ next' = 1 /\ undo' = {} /\ broken' = FALSE
    /\ UNCHANGED <<request, call, expired, cancelled, screen, last, changes, open,
                   meant, hits, muddled, disturbed>>

Operation == AimCursor \/ SendBatch \/ HoldKey \/ WalkScreen \/ UseElement \/ CaptureScreen
             \/ ActivateWindow \/ ResizeWindow

----------------------------------------------------------------------------
(***************************************************************************)
(* The applications, the end of the engine, and the specification.         *)
(***************************************************************************)
\* A window comes up, a list is rebuilt, a dialog takes the focus.
AppChanges ==
    /\ faults + changes < MaxMishaps /\ changes' = changes + 1 /\ InFlight # {}
    /\ \/ /\ \E s \in Screens \ {screen} : screen' = s
          /\ muddled' = muddled \cup InFlight /\ UNCHANGED desk
       \/ /\ \E f \in (Elements \cup {Nothing}) \ {desk.focus} : desk' = [desk EXCEPT !.focus = f]
          /\ UNCHANGED <<screen, muddled>>
    /\ disturbed' = disturbed \cup InFlight
    /\ UNCHANGED <<request, at, call, expired, cancelled, result, last, faults, engine,
                   blamed, meant, hits>>

Close ==
    /\ open /\ open' = FALSE /\ InFlight # {}
    /\ UNCHANGED <<request, at, call, expired, cancelled, result, world,
                   holder, next, undo, broken, history>>

Proceed(c) ==
    \/ Take(c) \/ ResolveSelector(c) \/ Locate(c) \/ Evaluate(c) \/ Begin(c) \/ Refuse(c)

Finished == (\A c \in Callers : result[c] # "none") /\ UNCHANGED vars

Next ==
    \/ \E c \in Callers : StartCall(c) \/ Proceed(c) \/ Expire(c) \/ Cancel(c)
    \/ Operation \/ EndJob \/ AppChanges \/ Close \/ Finished

\* Goroutines run, Win32 calls return and clocks advance.  A call may never be
\* made, its context never end, and Desktop.Close never come.
Spec ==
    /\ Init /\ [][Next]_vars
    /\ WF_vars(Operation \/ EndJob)
    /\ \A c \in Callers : WF_vars(Proceed(c)) /\ SF_vars(Expire(c))

----------------------------------------------------------------------------
(***************************************************************************)
(* Properties                                                              *)
(***************************************************************************)
\* Every variable has its type; a character knows who typed it, for which target, and
\* its place in the text.
Holdable == KnownKeys \cup {"button"}
Tokens == (Callers \cup {Nobody}) \X Nat \X Nat
Desks ==
    [ cursor : 1..MaxPoint, held : SUBSET Holdable, text : [Elements -> Seq(Tokens)],
      focus : Elements \cup {Nothing}, selected : Elements \cup {Nothing},
      submitted : Elements \cup {Nothing} ]

TypeOK ==
    /\ request \in Plans /\ at \in [Callers -> Nat]
    /\ \A c \in Callers : at[c] \in {0, 1} \cup 1..Len(Scripts[request[c]])
    /\ points \in [Callers -> Seq(Int)] /\ label \in [Callers -> Int]
    /\ passes \in [Callers -> BOOLEAN] /\ own \in [Callers -> Screens \cup {None}]
    /\ expired \subseteq Callers /\ cancelled \subseteq Callers
    /\ result \in [Callers -> {"none", "ok", "error", "timeout", "cancelled"}]
    /\ screen \in Screens /\ last \in Screens \cup {None}
    /\ desk \in Desks
    /\ holder \in Callers \cup {Nobody} /\ next \in Nat \ {0} /\ (holder = Nobody => next = 1)
    /\ undo \subseteq Holdable /\ blamed \subseteq Holdable
    /\ broken \in BOOLEAN /\ open \in BOOLEAN
    /\ {faults, changes, faults + changes} \subseteq 0..MaxMishaps
    /\ meant \in [Callers -> Seq(SUBSET (Elements \cup {Nothing}))]
    /\ hits \in [Callers -> SUBSET (Nat \X (Elements \cup {Nothing}))]
    /\ muddled \subseteq Callers /\ disturbed \subseteq Callers

\* No key or button stays down: whatever fails in a job, and whoever's job runs
\* next, the keys that are down are those the running job will release, except
\* where Windows refused to inject the release itself.
KeysComeUp == desk.held \subseteq blamed \cup undo

\* The text of one Type or of one edit is in one piece and in order in every field
\* it reached, however the calls of several clients are interleaved.
TextWhole ==
    \A e \in Elements : LET t == desk.text[e] IN
        \A i, j \in DOMAIN t : i < j /\ t[i][1] = t[j][1] /\ t[i][2] = t[j][2] =>
            /\ t[i][3] < t[j][3]
            /\ \A k \in i..j : t[k][1] = t[i][1] /\ t[k][2] = t[i][2]

\* A fill with a text of characters alone that reports success, and that nothing got
\* in the way of, has left exactly its text in every field it clicked, and pressed Enter
\* there.  A tab in a text takes its end to another field, a line feed presses Enter in
\* the middle.  MultiEdit does not look at the error of its clearing, so for it Windows
\* must have injected everything.
Plain(text) == \A j \in DOMAIN text : text[j] = "char"
FillsItsFields ==
    [][\A c \in Callers :
         LET r == Asked(c) IN
         /\ result[c] = "none" /\ result'[c] = "ok" /\ c \notin disturbed /\ Plain(r.text)
         /\ (r.tool = "Type" /\ r.clear) \/ (r.tool = "MultiEdit" /\ faults = 0)
         => \A h \in { x \in hits[c] : x[2] # Nothing /\ \A y \in hits[c] : y[2] = x[2] => y[1] <= x[1] } :
                /\ desk.text[h[2]] = [j \in DOMAIN r.text |-> <<c, h[1], j>>]
                /\ r.tool = "Type" /\ r.enter => desk.submitted = h[2]]_vars

\* A call acts on the element its label stands for, or on the one that its selector
\* chooses of those that match it, unless the applications change the screen or another
\* call's snapshot renumbers the labels while it is under way.
ActsOnMeant ==
    \A c \in Callers \ muddled : \A h \in hits[c] :
        h[1] \in DOMAIN meant[c] /\ h[2] \in meant[c][h[1]]

\* Every call returns: a wait ends at its deadline although its snapshots fail, and
\* no call is stuck behind another one or behind a closed engine.  Each is made once.
CallsEnd == <>[](InFlight = {})
=============================================================================
