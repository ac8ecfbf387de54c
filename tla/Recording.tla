----------------------------- MODULE Recording -----------------------------
(***************************************************************************)
(* The session's visible record: the recorder goroutine and its encoder,   *)
(* the overlay thread that draws the security banner, whoever raises that  *)
(* banner, and Desktop.Close, which finalizes the recording and takes the  *)
(* overlay down (internal/desktop/recorder.go, encoder.go, ffmpeg.go,      *)
(* overlay.go, com.go).                                                    *)
(*                                                                         *)
(* Faults names what may go wrong around the program in an instance.       *)
(***************************************************************************)
EXTENDS Naturals, Sequences, SequencesExt

CONSTANTS
    Raisers,    \* goroutines that raise the banner: the kill ladder, a rung
    QueueCap,   \* capacity of the overlay's command queue
    MaxRings,   \* bound: click rings asked for and not yet expired
    Faults      \* subset of AllFaults

AllFaults == { "encoder",    \* no encoder can be created
               "write",      \* a frame is not accepted: an error, or the size limit
               "pipe",       \* ffmpeg stops reading while frames are written
               "finalize",   \* ffmpeg does not finish after its input ends
               "overlay",    \* the overlay thread wedges
               "draw" }      \* an overlay window cannot be created or drawn

Kinds == {"banner", "highlight", "click"}

\* A command that draws a banner stands for its text, which is its raiser's.
Decorations == {"highlight", "click"}
Commands    == Decorations \cup Raisers
KindOf(c)   == IF c \in Decorations THEN c ELSE "banner"

ASSUME FaultsAssumption   == Faults \subseteq AllFaults
ASSUME RaisersAssumption  == Raisers \cap (Decorations \cup {"nothing"}) = {}
ASSUME QueueCapAssumption == QueueCap \in Nat \ {0} /\ MaxRings \in Nat

VARIABLES
    rec,          \* recorder goroutine: "none", "waiting", "captured", "writing",
                  \*   "finalizing", "done"
    enc,          \* its encoder: "none", "mjpeg", "ffmpeg"
    child,        \* the ffmpeg process: "none", "running", "wedged", "killed", "gone"
    stop,         \* the stop channel is closed
    shot,         \* the frame in hand shows the banner
    seen,         \* a recorded frame shows the banner
    markers,      \* labels in the marker log
    open,         \* the marker log is open
    queue,        \* overlay commands
    thread,       \* overlay thread: "none", "serving", "wedged", "gone"
    quit,         \* the overlay was told to quit
    making,       \* the command whose window has been created and is not shown yet
    windows,      \* the overlay windows that exist, of each kind
    fields,       \* those the overlay manager holds: its highlight, clicks and banner
    handled,      \* history: raisers whose banner was shown, or could not be drawn
    raise,        \* the raisers
    closer        \* Desktop.Close: "idle", "asked", "waiting", "overlay", "closed"

recorder == <<rec, enc, child, shot, seen>>
overlay  == <<thread, making, windows, fields, handled>>
vars     == <<recorder, stop, markers, open, queue, overlay, quit, raise, closer>>

Init ==
    /\ rec \in {"none", "waiting"} /\ enc = "none" /\ child = "none"
    /\ stop = FALSE /\ shot = FALSE /\ seen = FALSE
    /\ open = (rec # "none")
    /\ markers = IF rec = "none" THEN {} ELSE {"started"}
    /\ queue = <<>> /\ thread \in {"none", "serving"} /\ quit = FALSE
    /\ windows = [k \in Kinds |-> 0] /\ fields = [k \in Kinds |-> 0]
    /\ making = "nothing" /\ handled = {}
    /\ raise = [r \in Raisers |-> "idle"]
    /\ closer = "idle"

\* The banner is on the screen.
screen == fields["banner"] > 0

\* writeMarker: nothing is written once the log is closed.
Mark(label) == markers' = IF open THEN markers \cup {label} ELSE markers

----------------------------------------------------------------------------
(***************************************************************************)
(* The recorder goroutine.                                                 *)
(***************************************************************************)
\* A tick; when the stop channel is closed too, select may take either. A capture
\* that fails is logged, and the next tick tries again.
Capture ==
    /\ rec = "waiting"
    /\ rec' = "captured" /\ shot' = screen
    /\ UNCHANGED <<enc, child, seen, stop, markers, open, queue, overlay, quit, raise, closer>>

\* createEncoder, for the first frame: ffmpeg where it is asked for and can be
\* started, the AVI writer otherwise.
OpenEncoder ==
    /\ rec = "captured" /\ enc = "none"
    /\ \/ rec' = "writing" /\ enc' = "mjpeg" /\ UNCHANGED child
       \/ rec' = "writing" /\ enc' = "ffmpeg" /\ child' = "running"
       \/ "encoder" \in Faults /\ rec' = "done" /\ UNCHANGED <<enc, child>>
    /\ UNCHANGED <<shot, seen, stop, markers, open, queue, overlay, quit, raise, closer>>

Encode ==
    /\ rec = "captured" /\ enc # "none"
    /\ rec' = "writing"
    /\ UNCHANGED <<enc, child, shot, seen, stop, markers, open, queue, overlay, quit,
                   raise, closer>>

\* A write to the pipe of a child that has stopped reading does not return.
FrameWritten ==
    /\ rec = "writing" /\ child # "wedged"
    /\ rec' = "waiting" /\ seen' = (seen \/ shot) /\ shot' = FALSE
    /\ UNCHANGED <<enc, child, stop, markers, open, queue, overlay, quit, raise,
                   closer>>

\* Mutant: the goroutine returns without closing its encoder.
FrameRefusedUnclosed ==
    /\ "write" \in Faults /\ rec = "writing" /\ child # "wedged"
    /\ rec' = "done"
    /\ UNCHANGED <<enc, child, shot, seen, stop, markers, open, queue, overlay, quit,
                   raise, closer>>

\* An error, or the size limit of the AVI file, which is marked.
FrameRefused ==
    /\ "write" \in Faults /\ rec = "writing" /\ child # "wedged"
    /\ rec' = "finalizing" /\ shot' = FALSE
    /\ UNCHANGED markers \/ (enc = "mjpeg" /\ Mark("limit"))
    /\ UNCHANGED <<enc, child, seen, stop, open, queue, overlay, quit, raise, closer>>

\* Mutant: the stop channel is looked at between frames only while none is due.
StopSeenIdle ==
    /\ rec = "waiting" /\ stop /\ enc = "none"
    /\ rec' = "done"
    /\ UNCHANGED <<enc, child, shot, seen, stop, markers, open, queue, overlay, quit,
                   raise, closer>>

StopSeen ==
    /\ rec = "waiting" /\ stop
    /\ rec' = IF enc = "none" THEN "done" ELSE "finalizing"
    /\ UNCHANGED <<enc, child, shot, seen, stop, markers, open, queue, overlay, quit,
                   raise, closer>>

\* The deferred enc.close: ffmpeg is given time to finish and is killed when it
\* does not; the AVI file is finalized, or the child that has ended is reaped.
KillChild ==
    /\ rec = "finalizing" /\ child \in {"running", "wedged"}
    /\ child' = "killed"
    /\ UNCHANGED <<rec, enc, shot, seen, stop, markers, open, queue, overlay, quit, raise,
                   closer>>

Finalized ==
    /\ rec = "finalizing" /\ child # "wedged"
    /\ rec' = "done"
    /\ child' = IF enc = "ffmpeg" THEN "gone" ELSE child
    /\ UNCHANGED <<enc, shot, seen, stop, markers, open, queue, overlay, quit, raise,
                   closer>>

MayWedge == "pipe" \in Faults \/ ("finalize" \in Faults /\ rec = "finalizing")

ChildWedges ==
    /\ child = "running" /\ MayWedge
    /\ child' = "wedged"
    /\ UNCHANGED <<rec, enc, shot, seen, stop, markers, open, queue, overlay, quit, raise, closer>>

----------------------------------------------------------------------------
(***************************************************************************)
(* The overlay thread.                                                     *)
(***************************************************************************)
Blocked == { r \in Raisers : raise[r] = "blocked" }

Answer(c) == handled' = handled \cup ({c} \cap Raisers)

\* handle: a highlight or a banner destroys the one before it, a ring joins the
\* others; then CreateWindowEx makes the window of the new one, or fails.
Handle(c) ==
    LET kind == KindOf(c)
        old  == IF kind = "click" THEN 0 ELSE fields[kind] IN
    /\ fields' = [fields EXCEPT ![kind] = @ - old]
    /\ \/ /\ windows' = [windows EXCEPT ![kind] = @ - old + 1]
          /\ making' = c /\ UNCHANGED handled
       \/ /\ "draw" \in Faults
          /\ windows' = [windows EXCEPT ![kind] = @ - old]
          /\ Answer(c) /\ UNCHANGED making

\* A received command makes room, which a waiting sender gets before anyone else.
TakeCommand ==
    /\ thread = "serving" /\ making = "nothing" /\ queue # <<>>
    /\ Handle(Head(queue))
    /\ IF Blocked = {}
       THEN queue' = Tail(queue) /\ UNCHANGED raise
       ELSE \E r \in Blocked :
                /\ queue' = Append(Tail(queue), r)
                /\ raise' = [raise EXCEPT ![r] = "returned"]
    /\ UNCHANGED <<recorder, stop, markers, open, thread, quit, closer>>

\* UpdateLayeredWindow and ShowWindow; only then does the manager hold the window.
ShowWindow ==
    /\ thread = "serving" /\ making # "nothing"
    /\ fields' = [fields EXCEPT ![KindOf(making)] = @ + 1]
    /\ Answer(making) /\ making' = "nothing"
    /\ UNCHANGED <<recorder, stop, markers, open, queue, thread, windows, quit, raise, closer>>

\* Mutant: the window that could not be drawn is left where it is.
DrawFailsLeaving ==
    /\ "draw" \in Faults /\ thread = "serving" /\ making # "nothing"
    /\ Answer(making) /\ making' = "nothing"
    /\ UNCHANGED <<recorder, stop, markers, open, queue, thread, windows, fields, quit, raise,
                   closer>>

\* makeDIB or UpdateLayeredWindow fails.
DrawFails ==
    /\ "draw" \in Faults /\ thread = "serving" /\ making # "nothing"
    /\ windows' = [windows EXCEPT ![KindOf(making)] = @ - 1]
    /\ Answer(making) /\ making' = "nothing"
    /\ UNCHANGED <<recorder, stop, markers, open, queue, thread, fields, quit, raise, closer>>

\* expire: a highlight or a ring whose time is over; never the banner.
Expire ==
    /\ thread = "serving" /\ making = "nothing"
    /\ \E kind \in Decorations :
           /\ fields[kind] > 0
           /\ windows' = [windows EXCEPT ![kind] = @ - 1]
           /\ fields' = [fields EXCEPT ![kind] = @ - 1]
    /\ UNCHANGED <<recorder, stop, markers, open, queue, thread, making, handled, quit, raise,
                   closer>>

\* teardown destroys every window the manager holds.
QuitOverlay ==
    /\ thread = "serving" /\ making = "nothing" /\ quit
    /\ thread' = "gone"
    /\ windows' = [k \in Kinds |-> windows[k] - fields[k]]
    /\ fields' = [k \in Kinds |-> 0]
    /\ UNCHANGED <<recorder, stop, markers, open, queue, making, handled, quit, raise, closer>>

OverlayWedges ==
    /\ "overlay" \in Faults /\ thread = "serving"
    /\ thread' = "wedged"
    /\ UNCHANGED <<recorder, stop, markers, open, queue, making, windows, fields, handled, quit,
                   raise, closer>>

Rings == windows["click"] + Len(SelectSeq(queue, LAMBDA c : c = "click"))

\* send, for click flashes and highlights: dropped when the queue is full.
Decorate ==
    /\ thread # "none" /\ Len(queue) < QueueCap
    /\ \E kind \in Decorations :
           /\ kind = "click" => Rings < MaxRings
           /\ queue' = Append(queue, kind)
    /\ UNCHANGED <<recorder, stop, markers, open, overlay, quit, raise, closer>>

----------------------------------------------------------------------------
(***************************************************************************)
(* ShowSecurityBanner: the marker first, then the command, which must not  *)
(* be dropped and must not hold up the kill ladder either.                 *)
(***************************************************************************)
\* Mutant: the banner is drawn first and marked when it has been sent.
MarkBannerLater(r) ==
    /\ raise[r] = "idle"
    /\ raise' = [raise EXCEPT ![r] = IF thread = "none" THEN "returned" ELSE "send"]
    /\ UNCHANGED <<recorder, stop, markers, open, queue, overlay, quit, closer>>

MarkBanner(r) ==
    /\ raise[r] = "idle"
    /\ Mark("security")
    /\ raise' = [raise EXCEPT ![r] = IF thread = "none" THEN "returned" ELSE "send"]
    /\ UNCHANGED <<recorder, stop, open, queue, overlay, quit, closer>>

\* Mutant: send, which drops the command when the queue is full.
SendOrDrop(r) ==
    /\ raise[r] = "send"
    /\ queue' = IF Len(queue) < QueueCap THEN Append(queue, r) ELSE queue
    /\ raise' = [raise EXCEPT ![r] = "returned"]
    /\ UNCHANGED <<recorder, stop, markers, open, overlay, quit, closer>>

\* sendBlocking; select may take any case that is ready.
SendBanner(r) ==
    /\ raise[r] = "send"
    /\ \/ /\ Len(queue) < QueueCap
          /\ queue' = Append(queue, r)
          /\ raise' = [raise EXCEPT ![r] = "returned"]
       \/ /\ Len(queue) = QueueCap
          /\ raise' = [raise EXCEPT ![r] = "blocked"]
          /\ UNCHANGED queue
    /\ UNCHANGED <<recorder, stop, markers, open, overlay, quit, closer>>

\* Mutant: without the timeout, only the quit channel ends the wait.
QuitOnly(r) ==
    /\ raise[r] \in {"send", "blocked"} /\ quit
    /\ raise' = [raise EXCEPT ![r] = "returned"]
    /\ UNCHANGED <<recorder, stop, markers, open, queue, overlay, quit, closer>>

\* The quit channel, or two seconds in which the thread made no room.
GiveUp(r) ==
    /\ \/ raise[r] \in {"send", "blocked"} /\ quit
       \/ raise[r] = "blocked" /\ thread # "serving"
    /\ raise' = [raise EXCEPT ![r] = "returned"]
    /\ UNCHANGED <<recorder, stop, markers, open, queue, overlay, quit, closer>>

----------------------------------------------------------------------------
(***************************************************************************)
(* Desktop.Close, once: for the kill ladder, which has raised its banner   *)
(* by then, for a rung, or for the exit defer.                             *)
(***************************************************************************)
StartClose ==
    /\ closer = "idle"
    /\ closer' = IF rec = "none" THEN "overlay" ELSE "asked"
    /\ UNCHANGED <<recorder, stop, markers, open, queue, overlay, quit, raise>>

\* recorder.close: mark, stop, wait for the goroutine, close the log.
AskStop ==
    /\ closer = "asked"
    /\ Mark("stopped")
    /\ stop' = TRUE
    /\ closer' = "waiting"
    /\ UNCHANGED <<recorder, open, queue, overlay, quit, raise>>

RecorderDone ==
    /\ closer = "waiting" /\ rec = "done"
    /\ open' = FALSE
    /\ closer' = "overlay"
    /\ UNCHANGED <<recorder, stop, markers, queue, overlay, quit, raise>>

CloseOverlay ==
    /\ closer = "overlay"
    /\ quit' = (thread # "none")
    /\ closer' = "closed"
    /\ UNCHANGED <<recorder, stop, markers, open, queue, overlay, raise>>

----------------------------------------------------------------------------
Record  == \/ Capture \/ OpenEncoder \/ Encode \/ FrameWritten \/ FrameRefused
           \/ KillChild \/ Finalized
Draw    == TakeCommand \/ ShowWindow \/ DrawFails
Raise(r) == MarkBanner(r) \/ SendBanner(r) \/ GiveUp(r)
Close   == AskStop \/ RecorderDone \/ CloseOverlay

Next ==
    \/ Record \/ StopSeen \/ ChildWedges
    \/ Draw \/ Expire \/ QuitOverlay \/ OverlayWedges \/ Decorate
    \/ (\E r \in Raisers : Raise(r))
    \/ StartClose \/ Close

\* Each goroutine makes progress unless it is blocked. The tick and the stop
\* channel are cases of one select, which chooses at random between those that
\* are ready: a closed stop channel is not passed over for ever.
Spec ==
    /\ Init /\ [][Next]_vars
    /\ WF_vars(Record) /\ SF_vars(StopSeen)
    /\ WF_vars(Draw) /\ SF_vars(QuitOverlay)
    /\ \A r \in Raisers : WF_vars(SendBanner(r) \/ GiveUp(r))
    /\ WF_vars(Close)

----------------------------------------------------------------------------
(***************************************************************************)
(* Properties                                                              *)
(***************************************************************************)
\* Every variable has its type.
TypeOK ==
    /\ rec \in {"none", "waiting", "captured", "writing", "finalizing", "done"}
    /\ enc \in {"none", "mjpeg", "ffmpeg"}
    /\ child \in {"none", "running", "wedged", "killed", "gone"}
    /\ stop \in BOOLEAN /\ shot \in BOOLEAN /\ seen \in BOOLEAN
    /\ markers \subseteq {"started", "stopped", "security", "limit"} /\ open \in BOOLEAN
    /\ queue \in Seq(Commands) /\ Len(queue) <= QueueCap
    /\ thread \in {"none", "serving", "wedged", "gone"} /\ quit \in BOOLEAN
    /\ making \in Commands \cup {"nothing"} /\ handled \subseteq Raisers
    /\ windows \in [Kinds -> Nat] /\ fields \in [Kinds -> Nat]
    /\ raise \in [Raisers -> {"idle", "send", "blocked", "returned"}]
    /\ closer \in {"idle", "asked", "waiting", "overlay", "closed"}

\* A banner that people, or a recorded frame, can see has its marker in the log:
\* the timeline never lacks an event the video shows, whoever raised it and
\* however the raise and the close interleave.
BannerIsMarked == seen \/ (screen /\ open) => "security" \in markers

\* No window is left that nobody will take down: those that exist are the ones the
\* overlay manager holds and the one it is drawing, whichever commands came and
\* whichever could not be created or drawn; there is never a second banner or a
\* second highlight; and no window outlives the thread.
NoStrayWindows ==
    /\ making = "nothing" => windows = fields
    /\ \A k \in Kinds \ {"click"} : windows[k] <= 1
    /\ thread = "gone" => \A k \in Kinds : windows[k] = 0

\* The ffmpeg process must outlive frame writes "but must never outlive close":
\* when Desktop.Close has returned it has ended, by itself or killed, and was waited
\* for.
ChildReaped == closer \in {"overlay", "closed"} => child \in {"none", "gone"}

\* The banner is the one command that must not be lost (overlay.go:246-253): the
\* banner of every raiser is shown, or refused by the window system, however full
\* of decorations the queue is when it is sent, unless the overlay ends or wedges.
BannersGetThrough ==
    \A r \in Raisers : raise[r] = "send" ~> r \in handled \/ quit \/ thread # "serving"

\* Raising the banner never holds up the kill ladder, not even when the overlay
\* thread is wedged and its queue is full.
RaiseReturns == \A r \in Raisers : raise[r] = "send" ~> raise[r] = "returned"

\* "bounded so it cannot hang": Desktop.Close, which the kill ladder calls before
\* a shutdown, returns whatever ffmpeg does.
CloseReturns == closer # "idle" ~> closer = "closed"
=============================================================================
