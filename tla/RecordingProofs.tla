-------------------------- MODULE RecordingProofs --------------------------
(***************************************************************************)
(* Proofs about Recording, for any number of raisers, any capacity of the  *)
(* overlay's queue and every set of faults: the banner and its marker      *)
(* agree, no ffmpeg process outlives Desktop.Close, and no overlay window  *)
(* is forgotten.                                                           *)
(***************************************************************************)
EXTENDS Recording, TLAPS

Ended == rec \in {"none", "done"}

\* A child belongs to an encoder that is still to be closed.
ChildInv ==
    /\ enc = "none" => child = "none"
    /\ child \in {"running", "wedged", "killed"} => enc = "ffmpeg" /\ ~Ended

\* The marker log is open as long as frames may still be recorded, and Close goes
\* past the recorder when none can be.
LogInv ==
    /\ ~Ended => open
    /\ closer \in {"overlay", "closed"} => Ended

\* From the raiser to the recorded frame: whatever carries the banner has marked it.
Carried ==
    \/ \E r \in Raisers : raise[r] \in {"send", "blocked"}
    \/ \E i \in 1..Len(queue) : queue[i] \in Raisers
    \/ making \in Raisers
    \/ screen
MarkInv ==
    /\ open /\ Carried => "security" \in markers
    /\ shot \/ seen => "security" \in markers

\* The windows that exist are those in the fields and the one being drawn, whose
\* predecessor has been destroyed.
Drawing(k) == IF making # "nothing" /\ KindOf(making) = k THEN 1 ELSE 0
WindowInv ==
    /\ \A k \in Kinds : windows[k] = fields[k] + Drawing(k)
    /\ \A k \in Kinds \ {"click"} : windows[k] <= 1
    /\ thread = "gone" => making = "nothing" /\ \A k \in Kinds : windows[k] = 0

IInv == TypeOK /\ ChildInv /\ LogInv /\ MarkInv /\ WindowInv

----------------------------------------------------------------------------
\* The invariant holds at the start.
LEMMA InitHolds == Init => IInv
<1> SUFFICES ASSUME Init PROVE IInv
  OBVIOUS
<1>1. <<>> \in Seq(Commands) /\ Len(<<>>) = 0
  OBVIOUS
<1>2. TypeOK
  <2>1. open \in BOOLEAN
    BY DEF Init
  <2>2. queue \in Seq(Commands) /\ Len(queue) <= QueueCap
    BY <1>1, QueueCapAssumption DEF Init
  <2>3. markers \subseteq {"started", "stopped", "security", "limit"}
    BY DEF Init
  <2>4. /\ windows \in [Kinds -> Nat] /\ fields \in [Kinds -> Nat]
        /\ making \in Commands \cup {"nothing"} /\ handled \subseteq Raisers
        /\ raise \in [Raisers -> {"idle", "send", "blocked", "returned"}]
    BY DEF Init
  <2> QED
    BY <2>1, <2>2, <2>3, <2>4 DEF Init, TypeOK
<1>3. ChildInv /\ LogInv
  BY DEF Init, ChildInv, LogInv, Ended
<1>4. ~Carried /\ ~shot /\ ~seen
  BY <1>1, RaisersAssumption DEF Init, Carried, screen, Kinds
<1>5. WindowInv
  BY DEF Init, WindowInv, Drawing
<1> QED
  BY <1>2, <1>3, <1>4, <1>5 DEF IInv, MarkInv

\* What the queue holds after a command was taken, with or without a sender waiting.
LEMMA TakenFrom ==
    ASSUME NEW q \in Seq(Commands), q # <<>>
    PROVE  /\ Head(q) \in Commands /\ Tail(q) \in Seq(Commands) /\ Len(Tail(q)) = Len(q) - 1
           /\ \A i \in 1..Len(Tail(q)) : Tail(q)[i] = q[i + 1]
           /\ Head(q) = q[1] /\ Len(q) \in Nat \ {0}
OBVIOUS

\* What is in the queue after a command was put at its end.
LEMMA PutInto ==
    ASSUME NEW q \in Seq(Commands), NEW k \in Commands
    PROVE  /\ Append(q, k) \in Seq(Commands) /\ Len(Append(q, k)) = Len(q) + 1
           /\ \A i \in 1..Len(q) : Append(q, k)[i] = q[i]
           /\ Append(q, k)[Len(q) + 1] = k
OBVIOUS

\* The kind of a command is a kind of window; only a raiser's is the banner.
LEMMA KindsOfCommands ==
    ASSUME NEW c \in Commands
    PROVE  KindOf(c) \in Kinds /\ (KindOf(c) = "banner" <=> c \in Raisers) /\ c # "nothing"
BY RaisersAssumption DEF KindOf, Commands, Decorations, Kinds

\* A command replaces the window its kind may have only one of by the one it draws.
LEMMA Handled ==
    ASSUME TypeOK, WindowInv, making = "nothing", NEW c \in Commands, Handle(c)
    PROVE  /\ fields' \in [Kinds -> Nat] /\ windows' \in [Kinds -> Nat]
           /\ making' \in {"nothing", c} /\ handled' \subseteq Raisers
           /\ \A k \in Kinds : windows'[k] = fields'[k] + Drawing(k)'
           /\ \A k \in Kinds \ {"click"} : windows'[k] <= 1
           /\ screen' => screen
<1> DEFINE kind == KindOf(c)
           old  == IF kind = "click" THEN 0 ELSE fields[kind]
<1>1. kind \in Kinds /\ c # "nothing"
  BY KindsOfCommands
<1>2. /\ windows \in [Kinds -> Nat] /\ fields \in [Kinds -> Nat]
      /\ \A k \in Kinds : windows[k] = fields[k] /\ windows[k] \in Nat
      /\ \A k \in Kinds \ {"click"} : windows[k] <= 1
      /\ old \in Nat /\ fields[kind] - old \in Nat
      /\ kind # "click" => fields[kind] - old = 0
  BY <1>1 DEF TypeOK, WindowInv, Drawing
<1>3. fields' = [fields EXCEPT ![kind] = fields[kind] - old]
  BY DEF Handle
<1>4. \/ /\ windows' = [windows EXCEPT ![kind] = windows[kind] - old + 1]
         /\ making' = c /\ handled' = handled
      \/ /\ windows' = [windows EXCEPT ![kind] = windows[kind] - old]
         /\ making' = making /\ handled' = handled \cup ({c} \cap Raisers)
  BY DEF Handle, Answer
<1> HIDE DEF kind, old
<1>5. fields' \in [Kinds -> Nat] /\ windows' \in [Kinds -> Nat]
  BY <1>1, <1>2, <1>3, <1>4
<1>6. \A k \in Kinds : k # kind => windows'[k] = windows[k] /\ fields'[k] = fields[k]
  BY <1>1, <1>2, <1>3, <1>4
<1>7. fields'[kind] = fields[kind] - old
  BY <1>1, <1>2, <1>3
<1>8. CASE /\ windows' = [windows EXCEPT ![kind] = windows[kind] - old + 1]
           /\ making' = c /\ handled' = handled
  <2>1. \A k \in Kinds : Drawing(k)' = IF k = kind THEN 1 ELSE 0
    BY <1>1, <1>8 DEF Drawing, kind
  <2>2. windows'[kind] = fields'[kind] + 1
    BY <1>1, <1>2, <1>7, <1>8
  <2>3. \A k \in Kinds : windows'[k] = fields'[k] + Drawing(k)'
    <3> TAKE k \in Kinds
    <3>1. CASE k = kind
      BY <2>1, <2>2, <3>1
    <3>2. CASE k # kind
      <4>1. Drawing(k)' = 0 /\ windows'[k] = fields'[k] /\ fields'[k] \in Nat
        BY <1>2, <1>5, <1>6, <2>1, <3>2
      <4> QED
        BY <4>1
    <3> QED
      BY <3>1, <3>2
  <2>4. \A k \in Kinds \ {"click"} : windows'[k] <= 1
    BY <1>1, <1>2, <1>6, <1>7, <2>2
  <2>5. screen' => screen
    BY <1>1, <1>2, <1>6, <1>7 DEF screen, Kinds
  <2> QED
    BY <1>5, <1>8, <2>3, <2>4, <2>5 DEF TypeOK
<1>9. CASE /\ windows' = [windows EXCEPT ![kind] = windows[kind] - old]
           /\ making' = making /\ handled' = handled \cup ({c} \cap Raisers)
  <2>1. \A k \in Kinds : Drawing(k)' = 0
    BY <1>9 DEF Drawing
  <2>2. windows'[kind] = fields'[kind]
    BY <1>1, <1>2, <1>7, <1>9
  <2>3. \A k \in Kinds : windows'[k] = fields'[k] + Drawing(k)'
    <3> TAKE k \in Kinds
    <3>1. Drawing(k)' = 0 /\ fields'[k] \in Nat /\ windows'[k] = fields'[k]
      BY <1>2, <1>5, <1>6, <2>1, <2>2
    <3> QED
      BY <3>1
  <2>4. \A k \in Kinds \ {"click"} : windows'[k] <= 1
    BY <1>1, <1>2, <1>6, <1>7, <2>2
  <2>5. screen' => screen
    BY <1>1, <1>2, <1>6, <1>7 DEF screen, Kinds
  <2> QED
    BY <1>5, <1>9, <2>3, <2>4, <2>5 DEF TypeOK
<1> QED
  BY <1>4, <1>8, <1>9

\* Drawing a window ends with the manager holding it, or without the window.
LEMMA Drawn ==
    ASSUME IInv, ShowWindow \/ DrawFails
    PROVE  /\ fields' \in [Kinds -> Nat] /\ windows' \in [Kinds -> Nat]
           /\ making' = "nothing" /\ handled' \subseteq Raisers
           /\ \A k \in Kinds : windows'[k] = fields'[k] /\ windows'[k] <= windows[k]
           /\ screen' => screen \/ making \in Raisers
<1> DEFINE kind == KindOf(making)
<1>1. making \in Commands /\ making # "nothing"
  BY DEF ShowWindow, DrawFails, IInv, TypeOK
<1>2. kind \in Kinds /\ (kind = "banner" <=> making \in Raisers)
  BY <1>1, KindsOfCommands
<1>3. /\ windows \in [Kinds -> Nat] /\ fields \in [Kinds -> Nat]
      /\ windows[kind] = fields[kind] + 1
      /\ \A k \in Kinds : k # kind => windows[k] = fields[k]
      /\ \A k \in Kinds : windows[k] \in Nat /\ fields[k] \in Nat
  BY <1>1, <1>2 DEF IInv, TypeOK, WindowInv, Drawing
<1>4. making' = "nothing" /\ handled' \subseteq Raisers
  BY DEF ShowWindow, DrawFails, Answer, IInv, TypeOK
<1>5. \/ fields' = [fields EXCEPT ![kind] = fields[kind] + 1] /\ windows' = windows
      \/ windows' = [windows EXCEPT ![kind] = windows[kind] - 1] /\ fields' = fields
  BY DEF ShowWindow, DrawFails
<1> HIDE DEF kind
<1>6. fields' \in [Kinds -> Nat] /\ windows' \in [Kinds -> Nat]
  BY <1>2, <1>3, <1>5
<1>7. \A k \in Kinds : windows'[k] = fields'[k] /\ windows'[k] <= windows[k]
  BY <1>2, <1>3, <1>5
<1>8. screen' => screen \/ kind = "banner"
  BY <1>2, <1>3, <1>5 DEF screen, Kinds
<1> QED
  BY <1>2, <1>4, <1>6, <1>7, <1>8

\* The recorder's steps.
LEMMA RecorderStep ==
    ASSUME IInv, Record \/ StopSeen \/ ChildWedges
    PROVE  IInv'
<1> USE DEF recorder, overlay
<1>1. TypeOK'
  <2>1. Mark("limit") => markers' \subseteq {"started", "stopped", "security", "limit"}
    BY DEF IInv, TypeOK, Mark
  <2>2. UNCHANGED <<stop, open, queue, thread, making, windows, fields, handled, quit, raise, closer>>
    BY DEF Record, Capture, OpenEncoder, Encode, FrameWritten, FrameRefused, KillChild, Finalized,
           StopSeen, ChildWedges
  <2>3. /\ rec' \in {"none", "waiting", "captured", "writing", "finalizing", "done"}
        /\ enc' \in {"none", "mjpeg", "ffmpeg"}
        /\ child' \in {"none", "running", "wedged", "killed", "gone"}
    BY DEF Record, Capture, OpenEncoder, Encode, FrameWritten, FrameRefused, KillChild, Finalized,
           StopSeen, ChildWedges, IInv, TypeOK
  <2>4. shot' \in BOOLEAN
    <3>1. Capture => shot' \in BOOLEAN
      BY DEF Capture, screen
    <3>2. ~Capture => shot' \in {shot, FALSE}
      BY DEF Record, OpenEncoder, Encode, FrameWritten, FrameRefused, KillChild, Finalized,
             StopSeen, ChildWedges
    <3> QED
      BY <3>1, <3>2 DEF IInv, TypeOK
  <2>5. seen' \in BOOLEAN
    <3>1. FrameWritten => seen' \in BOOLEAN
      BY DEF FrameWritten
    <3>2. ~FrameWritten => seen' = seen
      BY DEF Record, Capture, OpenEncoder, Encode, FrameRefused, KillChild, Finalized, StopSeen, ChildWedges
    <3> QED
      BY <3>1, <3>2 DEF IInv, TypeOK
  <2>6. markers' \subseteq {"started", "stopped", "security", "limit"}
    BY <2>1 DEF Record, Capture, OpenEncoder, Encode, FrameWritten, FrameRefused, KillChild, Finalized,
                StopSeen, ChildWedges, IInv, TypeOK
  <2> QED
    BY <2>2, <2>3, <2>4, <2>5, <2>6 DEF IInv, TypeOK
<1>2. ChildInv' /\ LogInv'
  BY DEF IInv, TypeOK, ChildInv, LogInv, Ended, Record, Capture, OpenEncoder, Encode,
         FrameWritten, FrameRefused, KillChild, Finalized, StopSeen, ChildWedges
<1>3. UNCHANGED <<open, raise, queue, making, windows, fields, thread>>
  BY DEF Record, Capture, OpenEncoder, Encode, FrameWritten, FrameRefused, KillChild, Finalized,
         StopSeen, ChildWedges
<1>4. Carried' = Carried /\ screen' = screen /\ WindowInv'
  BY <1>3 DEF Carried, screen, WindowInv, Drawing, IInv
<1>5. markers \subseteq markers'
  BY DEF Record, Capture, OpenEncoder, Encode, FrameWritten, FrameRefused, KillChild, Finalized,
         StopSeen, ChildWedges, Mark
<1>6. shot' \/ seen' => shot \/ seen \/ (screen /\ open)
  BY DEF Record, Capture, OpenEncoder, Encode, FrameWritten, FrameRefused, KillChild, Finalized,
         StopSeen, ChildWedges, IInv, TypeOK, LogInv, Ended
<1>7. MarkInv'
  BY <1>3, <1>4, <1>5, <1>6 DEF MarkInv, IInv, Carried
<1> QED
  BY <1>1, <1>2, <1>4, <1>7 DEF IInv

\* Taking a command moves the banner from the queue to the thread, and a waiting
\* raiser's from the raiser to the queue.
LEMMA TakeStep == ASSUME IInv, TakeCommand PROVE IInv'
<1> USE DEF recorder, overlay
<1>1. /\ thread = "serving" /\ making = "nothing" /\ queue # <<>> /\ Handle(Head(queue))
      /\ UNCHANGED <<rec, enc, child, shot, seen, stop, markers, open, thread, quit, closer>>
  BY DEF TakeCommand
<1>2. /\ queue \in Seq(Commands) /\ Head(queue) \in Commands /\ Tail(queue) \in Seq(Commands)
      /\ Len(Tail(queue)) = Len(queue) - 1 /\ Len(queue) \in Nat \ {0} /\ Head(queue) = queue[1]
      /\ \A i \in 1..Len(Tail(queue)) : Tail(queue)[i] = queue[i + 1]
      /\ Len(queue) <= QueueCap
  BY <1>1, TakenFrom DEF IInv, TypeOK
<1>3. /\ fields' \in [Kinds -> Nat] /\ windows' \in [Kinds -> Nat]
      /\ making' \in {"nothing", Head(queue)} /\ handled' \subseteq Raisers
      /\ \A k \in Kinds : windows'[k] = fields'[k] + Drawing(k)'
      /\ \A k \in Kinds \ {"click"} : windows'[k] <= 1
      /\ screen' => screen
  BY <1>1, <1>2, Handled DEF IInv
<1>4. /\ raise' \in [Raisers -> {"idle", "send", "blocked", "returned"}]
      /\ queue' \in Seq(Commands) /\ Len(queue') <= QueueCap
      /\ Carried' => Carried
  <2>0. "nothing" \notin Raisers
    BY RaisersAssumption
  <2>1. CASE Blocked = {} /\ queue' = Tail(queue) /\ UNCHANGED raise
    <3>1. ASSUME Carried' PROVE Carried
      <4>1. CASE \E r \in Raisers : raise'[r] \in {"send", "blocked"}
        BY <2>1, <4>1 DEF Carried
      <4>2. CASE \E i \in 1..Len(queue') : queue'[i] \in Raisers
        <5>1. PICK i \in 1..Len(Tail(queue)) : Tail(queue)[i] \in Raisers
          BY <2>1, <4>2
        <5>2. i + 1 \in 1..Len(queue) /\ queue[i + 1] \in Raisers
          BY <1>2, <5>1
        <5> QED
          BY <5>2 DEF Carried
      <4>3. CASE screen'
        BY <1>3, <4>3 DEF Carried
      <4>4. CASE making' \in Raisers
        <5>1. 1 \in 1..Len(queue) /\ queue[1] \in Raisers
          BY <1>2, <1>3, <2>0, <4>4
        <5> QED
          BY <5>1 DEF Carried
      <4> QED
        BY <3>1, <4>1, <4>2, <4>3, <4>4 DEF Carried
    <3> QED
      BY <1>2, <2>1, <3>1, QueueCapAssumption DEF IInv, TypeOK
  <2>2. CASE \E r \in Blocked : /\ queue' = Append(Tail(queue), r)
                                /\ raise' = [raise EXCEPT ![r] = "returned"]
    <3>1. PICK r \in Raisers : /\ raise[r] = "blocked"
                               /\ queue' = Append(Tail(queue), r)
                               /\ raise' = [raise EXCEPT ![r] = "returned"]
      BY <2>2 DEF Blocked
    <3>2. Carried
      BY <3>1 DEF Carried
    <3>3. queue' \in Seq(Commands) /\ Len(queue') = Len(queue)
      BY <1>2, <3>1, PutInto DEF Commands
    <3> QED
      BY <1>2, <3>1, <3>2, <3>3 DEF IInv, TypeOK
  <2> QED
    BY <2>1, <2>2 DEF TakeCommand
<1>5. TypeOK'
  BY <1>1, <1>2, <1>3, <1>4 DEF IInv, TypeOK
<1>6. ChildInv' /\ LogInv'
  BY <1>1 DEF IInv, ChildInv, LogInv, Ended
<1>7. MarkInv'
  BY <1>1, <1>4 DEF IInv, MarkInv
<1>8. WindowInv'
  BY <1>1, <1>3 DEF WindowInv
<1> QED
  BY <1>5, <1>6, <1>7, <1>8 DEF IInv

\* Drawing what was taken puts the banner on the screen, or gives it up.
LEMMA DrawStep == ASSUME IInv, ShowWindow \/ DrawFails PROVE IInv'
<1> USE DEF recorder, overlay
<1>1. /\ UNCHANGED <<rec, enc, child, shot, seen, stop, markers, open, queue, thread, quit, raise,
                     closer>>
      /\ thread = "serving"
  BY DEF ShowWindow, DrawFails
<1>2. /\ fields' \in [Kinds -> Nat] /\ windows' \in [Kinds -> Nat]
      /\ making' = "nothing" /\ handled' \subseteq Raisers
      /\ \A k \in Kinds : windows'[k] = fields'[k] /\ windows'[k] <= windows[k]
      /\ screen' => screen \/ making \in Raisers
  BY Drawn
<1>3. TypeOK'
  BY <1>1, <1>2 DEF IInv, TypeOK
<1>4. ChildInv' /\ LogInv'
  BY <1>1 DEF IInv, ChildInv, LogInv, Ended
<1>5. Carried' => Carried
  BY <1>1, <1>2, RaisersAssumption DEF Carried
<1>6. MarkInv'
  BY <1>1, <1>5 DEF IInv, MarkInv
<1>7. WindowInv'
  <2>1. \A k \in Kinds : Drawing(k)' = 0
    BY <1>2 DEF Drawing
  <2>2. \A k \in Kinds : windows[k] \in Nat /\ windows'[k] \in Nat /\ fields'[k] \in Nat
    BY <1>2 DEF IInv, TypeOK
  <2>3. \A k \in Kinds : windows'[k] = fields'[k] + Drawing(k)'
    BY <1>2, <2>1, <2>2
  <2>4. \A k \in Kinds \ {"click"} : windows'[k] <= 1
    BY <1>2, <2>2 DEF IInv, WindowInv
  <2> QED
    BY <1>1, <2>3, <2>4 DEF WindowInv
<1> QED
  BY <1>3, <1>4, <1>6, <1>7 DEF IInv

\* What else the overlay thread and its clients do.
LEMMA OverlayStep ==
    ASSUME IInv, Expire \/ QuitOverlay \/ OverlayWedges \/ Decorate
    PROVE  IInv'
<1> USE DEF recorder, overlay
<1>1. UNCHANGED <<rec, enc, child, shot, seen, stop, markers, open, quit, raise, closer, making,
                 handled>>
  BY DEF Expire, QuitOverlay, OverlayWedges, Decorate
<1>2. /\ windows' \in [Kinds -> Nat] /\ fields' \in [Kinds -> Nat] /\ WindowInv'
      /\ thread' \in {"none", "serving", "wedged", "gone"}
      /\ screen' => screen
  <2>0. \A k \in Kinds : Drawing(k)' = Drawing(k) /\ (making = "nothing" => Drawing(k) = 0)
    BY <1>1 DEF Drawing
  <2>1. CASE Expire
    <3>1. PICK k \in Decorations :
            /\ fields[k] > 0
            /\ windows' = [windows EXCEPT ![k] = windows[k] - 1]
            /\ fields' = [fields EXCEPT ![k] = fields[k] - 1]
      BY <2>1 DEF Expire
    <3>2. /\ windows \in [Kinds -> Nat] /\ fields \in [Kinds -> Nat]
          /\ \A l \in Kinds : windows[l] = fields[l] /\ windows[l] \in Nat
          /\ making = "nothing" /\ thread = "serving" /\ thread' = thread /\ k \in Kinds
          /\ windows[k] - 1 \in Nat
      BY <2>0, <2>1, <3>1 DEF Expire, IInv, TypeOK, WindowInv, Kinds, Decorations
    <3>3. /\ windows' \in [Kinds -> Nat] /\ fields' \in [Kinds -> Nat]
          /\ \A l \in Kinds : windows'[l] = fields'[l] /\ windows'[l] <= windows[l]
      BY <3>1, <3>2
    <3>4. screen' => screen
      BY <3>1, <3>2 DEF screen, Kinds, Decorations
    <3>5. WindowInv'
      <4>1. \A l \in Kinds : windows'[l] = fields'[l] + Drawing(l)'
        BY <2>0, <3>2, <3>3
      <4>2. \A l \in Kinds \ {"click"} : windows'[l] <= 1
        BY <3>2, <3>3 DEF IInv, WindowInv
      <4> QED
        BY <3>2, <4>1, <4>2 DEF WindowInv
    <3> QED
      BY <3>2, <3>3, <3>4, <3>5
  <2>2. CASE QuitOverlay
    <3>1. /\ windows' = [k \in Kinds |-> windows[k] - fields[k]] /\ thread' = "gone"
          /\ fields' = [k \in Kinds |-> 0] /\ making = "nothing"
          /\ \A k \in Kinds : windows[k] = fields[k] /\ fields[k] \in Nat
      BY <2>0, <2>2 DEF QuitOverlay, IInv, WindowInv, TypeOK
    <3>2. \A k \in Kinds : windows'[k] = 0 /\ fields'[k] = 0
      BY <3>1
    <3>3. windows' \in [Kinds -> Nat] /\ fields' \in [Kinds -> Nat]
      BY <3>1
    <3>4. WindowInv'
      BY <1>1, <2>0, <3>1, <3>2 DEF WindowInv
    <3>5. ~screen'
      BY <3>2 DEF screen, Kinds
    <3> QED
      BY <3>1, <3>3, <3>4, <3>5
  <2>3. CASE OverlayWedges \/ Decorate
    <3>1. /\ UNCHANGED <<windows, fields>>
          /\ thread' \in {"none", "serving", "wedged", "gone"}
          /\ thread' = "gone" => thread = "gone"
      BY <2>3 DEF OverlayWedges, Decorate, IInv, TypeOK
    <3>2. WindowInv'
      BY <1>1, <2>0, <3>1 DEF IInv, WindowInv
    <3> QED
      BY <3>1, <3>2 DEF IInv, TypeOK, screen
  <2> QED
    BY <2>1, <2>2, <2>3
<1>3. /\ queue' \in Seq(Commands) /\ Len(queue') <= QueueCap
      /\ \A i \in 1..Len(queue') : queue'[i] \in Raisers => i \in 1..Len(queue) /\ queue[i] \in Raisers
  <2>1. CASE Decorate
    <3>1. PICK k \in Decorations : queue' = Append(queue, k) /\ Len(queue) < QueueCap
      BY <2>1 DEF Decorate
    <3>2. queue \in Seq(Commands) /\ k \in Commands /\ k \notin Raisers /\ Len(queue) \in Nat
      BY <3>1, RaisersAssumption DEF IInv, TypeOK, Commands
    <3> QED
      BY <3>1, <3>2, PutInto, QueueCapAssumption
  <2>2. CASE Expire \/ QuitOverlay \/ OverlayWedges
    BY <2>2 DEF Expire, QuitOverlay, OverlayWedges, IInv, TypeOK
  <2> QED
    BY <2>1, <2>2
<1>4. Carried' => Carried
  BY <1>1, <1>2, <1>3 DEF Carried
<1>5. TypeOK'
  BY <1>1, <1>2, <1>3 DEF IInv, TypeOK
<1>6. ChildInv' /\ LogInv'
  BY <1>1 DEF IInv, ChildInv, LogInv, Ended
<1>7. MarkInv'
  BY <1>1, <1>4 DEF IInv, MarkInv
<1> QED
  BY <1>2, <1>5, <1>6, <1>7 DEF IInv

\* Raising the banner marks it before it is sent.
LEMMA RaiseStep == ASSUME IInv, NEW r \in Raisers, Raise(r) PROVE IInv'
<1> USE DEF recorder, overlay
<1>1. UNCHANGED <<rec, enc, child, shot, seen, stop, open, quit, closer, thread, making, windows, fields,
                 handled>>
  BY DEF Raise, MarkBanner, SendBanner, GiveUp
<1>2. /\ raise' \in [Raisers -> {"idle", "send", "blocked", "returned"}]
      /\ queue' \in Seq(Commands) /\ Len(queue') <= QueueCap
      /\ markers \subseteq markers' /\ markers' \subseteq {"started", "stopped", "security", "limit"}
      /\ open /\ Carried' => Carried \/ "security" \in markers'
  <2>1. CASE MarkBanner(r)
    BY <1>1, <2>1 DEF MarkBanner, Mark, IInv, TypeOK
  <2>2. CASE SendBanner(r)
    <3>1. Carried
      BY <2>2 DEF SendBanner, Carried
    <3>2. /\ Append(queue, r) \in Seq(Commands) /\ Len(queue) \in Nat
          /\ Len(Append(queue, r)) = Len(queue) + 1
      BY PutInto DEF IInv, TypeOK, Commands
    <3>3. /\ queue' \in {queue, Append(queue, r)} /\ markers' = markers
          /\ queue' # queue => Len(queue) < QueueCap
          /\ \/ raise' = [raise EXCEPT ![r] = "returned"]
             \/ raise' = [raise EXCEPT ![r] = "blocked"]
      BY <2>2 DEF SendBanner
    <3>4. queue' \in Seq(Commands) /\ Len(queue') <= QueueCap
      <4>1. queue \in Seq(Commands) /\ Len(queue) <= QueueCap /\ QueueCap \in Nat
        BY QueueCapAssumption DEF IInv, TypeOK
      <4>2. CASE queue' = queue
        BY <4>1, <4>2
      <4>3. CASE queue' = Append(queue, r) /\ Len(queue) < QueueCap
        BY <3>2, <4>1, <4>3
      <4> QED
        BY <3>3, <4>2, <4>3
    <3> QED
      BY <3>1, <3>3, <3>4 DEF IInv, TypeOK
  <2>3. CASE GiveUp(r)
    <3>1. raise' = [raise EXCEPT ![r] = "returned"] /\ UNCHANGED <<queue, markers>>
      BY <2>3 DEF GiveUp
    <3>2. Carried' => Carried
      BY <1>1, <3>1 DEF Carried, screen, IInv, TypeOK
    <3> QED
      BY <3>1, <3>2 DEF IInv, TypeOK
  <2> QED
    BY <2>1, <2>2, <2>3 DEF Raise
<1>3. TypeOK'
  BY <1>1, <1>2 DEF IInv, TypeOK
<1>4. ChildInv' /\ LogInv' /\ WindowInv'
  BY <1>1 DEF IInv, ChildInv, LogInv, Ended, WindowInv, Drawing
<1>5. MarkInv'
  BY <1>1, <1>2 DEF IInv, MarkInv
<1> QED
  BY <1>3, <1>4, <1>5 DEF IInv

\* Close goes past the recorder only when its goroutine has ended.
LEMMA CloseStep == ASSUME IInv, StartClose \/ Close PROVE IInv'
<1> USE DEF recorder, overlay
<1>1. UNCHANGED <<rec, enc, child, shot, seen, queue, thread, making, windows, fields, handled,
                 raise>>
  BY DEF StartClose, Close, AskStop, RecorderDone, CloseOverlay
<1>2. TypeOK'
  <2>1. CASE StartClose \/ RecorderDone \/ CloseOverlay
    <3>1. quit' \in BOOLEAN
      BY <2>1 DEF IInv, TypeOK, StartClose, RecorderDone, CloseOverlay
    <3>2. /\ open' \in BOOLEAN /\ closer' \in {"idle", "asked", "waiting", "overlay", "closed"}
          /\ UNCHANGED <<markers, stop>>
      BY <2>1 DEF IInv, TypeOK, StartClose, RecorderDone, CloseOverlay
    <3> QED
      BY <1>1, <3>1, <3>2 DEF IInv, TypeOK
  <2>2. CASE AskStop
    BY <2>2 DEF IInv, TypeOK, AskStop, Mark
  <2> QED
    BY <2>1, <2>2 DEF Close
<1>3. ChildInv' /\ WindowInv'
  BY <1>1 DEF IInv, ChildInv, Ended, WindowInv, Drawing
<1>4. LogInv'
  BY DEF IInv, LogInv, Ended, StartClose, Close, AskStop, RecorderDone, CloseOverlay
<1>5. markers \subseteq markers' /\ (open' => open)
  BY DEF StartClose, Close, AskStop, RecorderDone, CloseOverlay, Mark
<1>6. Carried' = Carried
  BY <1>1 DEF Carried, screen
<1>7. MarkInv'
  BY <1>1, <1>5, <1>6 DEF IInv, MarkInv
<1> QED
  BY <1>2, <1>3, <1>4, <1>7 DEF IInv

\* A stuttering step keeps it.
LEMMA StutterStep == IInv /\ UNCHANGED vars => IInv'
BY DEF vars, recorder, overlay, IInv, TypeOK, ChildInv, LogInv, Ended, MarkInv, Carried,
       screen, WindowInv, Drawing

----------------------------------------------------------------------------
\* The inductive invariant: who holds the child, how long the log is open, and that
\* whatever carries the banner has marked it.
THEOREM Invariance == Spec => []IInv
<1>1. IInv /\ [Next]_vars => IInv'
  BY RecorderStep, TakeStep, DrawStep, OverlayStep, RaiseStep, CloseStep, StutterStep DEF Next, Draw
<1> QED
  BY <1>1, InitHolds, PTL DEF Spec

\* The state stays of its types; the queue never holds more than its capacity.
THEOREM TypeCorrect == Spec => []TypeOK
<1>1. IInv => TypeOK
  BY DEF IInv
<1> QED
  BY <1>1, Invariance, PTL

\* A banner that people or a recorded frame can see has its marker in the log,
\* however many raise it and however raising, recording and closing interleave.
THEOREM BannersAreMarked == Spec => []BannerIsMarked
<1>1. IInv => BannerIsMarked
  BY DEF IInv, MarkInv, Carried, BannerIsMarked
<1> QED
  BY <1>1, Invariance, PTL

\* No ffmpeg process outlives Desktop.Close, whatever it and the frames did.
THEOREM ChildrenAreReaped == Spec => []ChildReaped
<1>1. IInv => ChildReaped
  BY DEF IInv, TypeOK, ChildInv, LogInv, ChildReaped
<1> QED
  BY <1>1, Invariance, PTL

\* Whatever fails while overlays are drawn, and in whatever order commands come, the
\* windows that exist are those the manager holds and the one it is drawing, no kind
\* but the rings has two, and none outlives the thread.
THEOREM NoWindowIsForgotten == Spec => []NoStrayWindows
<1>1. IInv => NoStrayWindows
  <2> SUFFICES ASSUME IInv, making = "nothing" PROVE windows = fields
    BY DEF IInv, WindowInv, NoStrayWindows
  <2>1. \A k \in Kinds : windows[k] = fields[k]
    BY DEF IInv, WindowInv, Drawing, TypeOK
  <2> QED
    BY <2>1 DEF IInv, TypeOK
<1> QED
  BY <1>1, Invariance, PTL
=============================================================================
