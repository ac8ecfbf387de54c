---------------------------- MODULE MCInteraction ----------------------------
(***************************************************************************)
(* An instance of Interaction for TLC: two fields and a button on three    *)
(* screens, and pairs of calls that meet in every way the tools can.       *)
(***************************************************************************)
EXTENDS Interaction

CONSTANTS c1, c2

Name(words, case) == [words |-> words, case |-> case, padded |-> FALSE]
NoName == Name(<<>>, "lower")

Elems == {"user", "note", "save"}
Infos ==
    [user |-> [id |-> "uid", name |-> Name(<<"user", "name">>, "upper"), type |-> "Edit"],
     note |-> [id |-> "", name |-> [Name(<<"user", "note">>, "lower") EXCEPT !.padded = TRUE], type |-> "Edit"],
     save |-> [id |-> "", name |-> Name(<<"save">>, "upper"), type |-> "Button"]]

\* A form, the form after a field was put in front of the other, a dialog.
Views  == {"form", "moved", "dialog"}
Layout == [form |-> <<"user", "note">>, moved |-> <<"note", "user">>, dialog |-> <<Nothing, "save">>]
Titles == [form |-> Name(<<"form">>, "upper"), moved |-> Name(<<"form">>, "upper"),
           dialog |-> Name(<<"save", "form">>, "upper")]
Order  == [v \in Views |-> [f \in Elems \cup {Nothing} |->
              IF v = "dialog" THEN "save" ELSE IF f = "user" THEN "note" ELSE "user"]]

Unique == [mode |-> "unique", index |-> 0]
Spec0  == [id |-> "", name |-> NoName, type |-> "", match |-> "", compiles |-> TRUE,
           occurrence |-> [mode |-> "", index |-> 0]]
At1(s, nth)  == [by |-> "selector", args |-> [spec |-> s, nth |-> nth]]
Sel(s)       == At1(s, {})
Called(w)    == [Spec0 EXCEPT !.name = Name(w, "lower")]
Named(w, m)  == [Called(w) EXCEPT !.match = m]
ById(i)      == [Spec0 EXCEPT !.id = i]
Strictly(s)  == [s EXCEPT !.occurrence = Unique]
Leftmost(s)  == [s EXCEPT !.occurrence.mode = "first"]
Label(l)     == [by |-> "label", label |-> l]
Point(p)     == [by |-> "point", at |-> p]

Chars == <<"char", "char">>
Ask == [tool |-> "", targets |-> <<NoTarget>>, text |-> Chars, size |-> 1, clear |-> FALSE, enter |-> FALSE,
        hold |-> FALSE, keys |-> <<>>, subject |-> "", wanted |-> [condition |-> "", text |-> NoName]]
Use(tool, ts) == [Ask EXCEPT !.tool = tool, !.targets = ts]
TypeIn(t)     == [Use("Type", <<t>>) EXCEPT !.clear = TRUE, !.enter = TRUE]
TypeOn(text)  == [Use("Type", <<NoTarget>>) EXCEPT !.text = text]
Chord(ks)     == [Ask EXCEPT !.tool = "Shortcut", !.keys = ks]
Wait(c, w)    == [Ask EXCEPT !.tool = "WaitFor", !.wanted = [condition |-> c, text |-> Name(w, "upper")]]
Test(s, spec) == [Use("Assert", <<Sel(Strictly(spec))>>) EXCEPT !.subject = s]

All ==
    [fill    |-> TypeIn(Sel(ById("uid"))),
     append  |-> Use("Type", <<Label(2)>>),
     type    |-> TypeOn(Chars),
     tabbed  |-> TypeOn(<<"char", "tab", "char">>),
     lines   |-> TypeOn(<<"return", "newline", "char">>),
     novel   |-> [Use("MultiEdit", <<Point(2)>>) EXCEPT !.text = Chars \o Chars],
     edits   |-> Use("MultiEdit", <<Label(1), Point(2)>>),
     widest  |-> Use("Click", <<Sel(Named(<<"user">>, "contains"))>>),
     ctrl    |-> [Use("MultiSelect", <<Label(1), Point(0)>>) EXCEPT !.hold = TRUE],
     left    |-> [Use("Scroll", <<Point(2)>>) EXCEPT !.hold = TRUE, !.size = 3],
     chord   |-> Chord(<<"ctrl", "delete">>),
     appears |-> Wait("element_exists", <<"save">>),
     titled  |-> Wait("active_window", <<"save">>),
     reads   |-> Wait("text_exists", <<"form">>),
     shot    |-> Use("Snapshot", <<NoTarget>>),
     proof   |-> Use("Evidence", <<NoTarget>>),
     state   |-> Test("state", Called(<<"user", "name">>)),
     broken  |-> Test("element", [Named(<<"user">>, "matches") EXCEPT !.compiles = FALSE]),
     window  |-> Test("window", Named(<<"save">>, "contains")),
     second  |-> Use("Move", <<At1(Called(<<"save">>), {1})>>),
     press   |-> Use("Invoke", <<At1(Named(<<"user">>, "contains"), {1})>>),
     first   |-> Use("Move", <<Sel(Leftmost(Named(<<"user">>, "contains")))>>),
     front   |-> [Use("Switch", <<NoTarget>>) EXCEPT !.wanted.text = Name(<<"form">>, "lower")],
     place   |-> [Use("Resize", <<Point(1)>>) EXCEPT !.wanted.text = Name(<<"save">>, "lower")],
     outside |-> [Use("Resize", <<Point(0)>>) EXCEPT !.wanted.text = Name(<<"form">>, "lower")],
     nokey   |-> Chord(<<"ctrl", "nokey">>),
     nowhere |-> Use("Click", <<NoTarget>>)]

Pair(a, b) == [c \in Callers |-> IF c = c1 THEN a ELSE b]

\* Two fills; a batch of edits against a click; two jobs that hold keys; waits and
\* assertions against snapshots; pattern calls; windows brought up and moved; texts
\* with tabs and line ends; what is refused at once, or when it is reached.
Mixes == { Pair("fill", "type"), Pair("edits", "widest"), Pair("ctrl", "left"),
           Pair("chord", "nowhere"), Pair("appears", "shot"), Pair("state", "proof"),
           Pair("titled", "second"), Pair("window", "nokey"), Pair("broken", "nowhere"),
           Pair("append", "shot"), Pair("press", "shot"), Pair("front", "widest"),
           Pair("place", "front"), Pair("outside", "first"),
           Pair("tabbed", "novel"), Pair("lines", "reads") }
=============================================================================
