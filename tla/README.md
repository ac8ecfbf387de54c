# A formal model of windows-mcp-server

windows-mcp-server is a Model Context Protocol server that lets an agent operate a
Windows desktop: it clicks, types, reads the UI Automation tree, runs PowerShell, and
does so under a policy, with an audit chain, a screen recording, session credentials,
a kill ladder that contains the machine, and optionally an external guardrail process
(agentweave-harness) on a control channel.

This directory holds TLA+ modules that model the parts of that program where order,
concurrency and partial failure decide whether it is correct, TLC configurations that
check them on small instances, and TLAPS proofs for every instance. Paths below are
relative to the repository root. `PROJECT.json` gives, for every definition, the lines
it models; for every property, a mutant of the model that breaks it; and the hazards
the properties are aimed at.

## 1. The system

| Part | Code | State it keeps | Operations | Hard because |
|---|---|---|---|---|
| Session lifecycle | `internal/winmcp/server.go`, `harnesslink.go`, `egress.go`, `credexposure.go` | stage of start-up, deferred teardown, run context and its cause, audit chain, installed chain, firewall layers | start-up stages, serve, unwind; Trip, Finalize, Abort; rungs of the harness; loss of its channel | five goroutines end one session; teardown order is the registration order of defers hundreds of lines apart |
| Session credentials | `internal/winmcp/credentials.go`, `internal/desktop/credentials.go`, `pkg/windows/credentials.go` | what was installed, decoded secrets, the Credential Manager (shared with the user) | load, install, roll back, remove, inject | partial failure; three callers of the remover; focus belongs to the whole desktop |
| Recording | `internal/desktop/recorder.go`, `encoder.go`, `ffmpeg.go`, `avi.go`, `overlay.go` | recorder goroutine, encoder and child process, marker log, AVI counters, overlay queue, banner | tick, write frame, mark, close; raise banner, decorate, quit | 32-bit sizes, short writes, a child that hangs, bounded queues, a close that must not hang containment |
| Desktop engine | `internal/desktop/com.go`, `wmi.go`, `uia.go` | STA thread, WMI worker, their job and quit channels | Do, withWMI, Close | unbuffered channels and quit channels in selects; close races calls |
| Snapshots and pattern actions | `internal/desktop/snapshot.go`, `tree.go`, `pattern.go` | retained COM references, labels | Snapshot, Invoke/Toggle/… by label | references must be released exactly once while labels outlive snapshots |
| Selectors, assertions and waits | `internal/desktop/selector.go`, `elementstate.go`, `pkg/windows/testing.go`, `multi.go`, `snapshot.go` | none beyond the last snapshot | Matches, Resolve, Assert, WaitFor, Snapshot, CaptureEvidence | a label resolved outside a job is used in a later one; polls, deadlines and contexts race |
| Journey recorder | `internal/desktop/journeyhook_windows.go`, `journeyrecord.go` | the package-level active session, hook threads, event buffer, recorded events | start and stop hooks, deliver, enrich, emit | callbacks of the OS, a bounded buffer, redaction decided after the fact |
| Input synthesis and interaction tools | `internal/desktop/input.go`, `window.go`, `pkg/windows/interaction.go`, `multi.go`, `actions.go`, `app.go` | the pressed keys, the focus, the selection | Click, Type, Move, Scroll, Shortcut, MultiSelect, MultiEdit, the pattern actions, switching to and resizing a window | one tool call is several engine jobs; SendInput may inject part of a sequence |
| Tool surface | `pkg/windows/tools.go`, `toolsets.go`, `dependencies.go` | the served inventory | buildInventory, register | persona, SYSTEM context and `--tools` interact |
| Audit anchoring | `internal/winmcp/anchor.go` | last anchored head | tick | races concurrent appends and the close of the chain |
| File, registry, process, network, package, task and event-log tools | `pkg/windows/*.go`, `internal/psdata` | none (the operating system's) | request and response | mostly I/O; `checkProtected` decides which paths are refused |
| Guardrail facts, offline commands, command line | `internal/winmcp/guardrails.go`, `attestation_windows.go`, `policyops.go`, `evidenceops.go`, `journeyops.go`, `cmd/` | none | read posture; one-shot verbs | algorithms are in the external harness library |

How they interact. `RunStdio` owns everything: it loads the policy, opens the audit
chain, starts the desktop engine (which starts recorder and overlay), provisions
credentials, attaches the harness, applies egress rules, arms the kill executor,
resolves the status token, scrubs secrets, installs the receiving chain, registers the
tools and serves. Each stage registers a defer. Tool calls run on goroutines of their
own and reach the desktop by jobs on one STA thread. The kill executor runs in the
goroutine that tripped it, and calls hooks that `RunStdio` gave it; the harness drives
the same hooks as *rungs* over its channel. Two of those hooks, removing credentials
and closing the engine, are therefore reached by the ladder, the rungs and the exit
defers at once, and are guarded by a `sync.Once`.

What makes each part correct:

- *Session*: no credential survives it; forensics precede a shutdown; the evidence is
  sealed over final inputs; nothing is served before the guards are in place; firewall
  layers come down, in the reverse order of going up; every stop ends the process.
- *Credentials*: everything installed is removed or reported, whoever removes it and
  whichever deletion fails; the audit records agree with what happened; a secret is typed
  only after the destination was confirmed.
- *Recording*: a recording that ends at any frame, error or limit is a well-formed file;
  the banner and its marker agree; closing and raising return.
- *Engine*: every call returns, none runs after Close, threads end, elements in use are
  alive and every reference is accounted for.
- *Interaction*: no key stays down; the text of a call is whole; a call acts on what its
  selector or label singles out; a fill fills the fields it clicked; every call returns.
- *Journey*: hooks removed; events in order, once, and none missing that there was room
  for; secrets redacted; a cancelled recording returns.
- *Anchoring*: an idle server does not grow its own chain; activity is anchored.

## 2. Modules

| Module | Models | Proofs |
|---|---|---|
| `Session.tla` | the session lifecycle | `SessionProofs.tla` |
| `Credentials.tla` | session credentials | `CredentialsProofs.tla` |
| `AviWriter.tla` | the AVI file writer | `AviWriterProofs.tla` |
| `Recording.tla` | recorder, encoders, overlay, banner and close | `RecordingProofs.tla` |
| `JobService.tla` | abstract: what the engine promises its callers | – |
| `Engine.tla` | STA thread, WMI worker, snapshots, pattern jobs, close; implements `JobService` | `EngineProofs.tla` |
| `Selector.tla` | which element or window a selector designates (operators only) | – |
| `Interaction.tla` | concurrent tool calls acting on one desktop; extends `Selector` | `InteractionProofs.tla` |
| `Journey.tla` | the journey recorder | `JourneyProofs.tla` |
| `Anchor.tla` | anchoring of the audit chain's head | `AnchorProofs.tla` |

The `MC*.tla` modules define the constants of instances. The modules meet at named
points: `Session`'s `CloseDesktop` is one step because `Recording` and `Engine` model
what is inside (`CloseReturns`, `ThreadEnds`), its `RemoveCredentials` is one step
because `Credentials` models the loop, and `Recording`'s `Encode` step is what
`AviWriter` details byte by byte. `Interaction` lets one job run at a time and refuses
jobs once the engine is closed, which is what `JobService` says and `Engine` implements.

### Session

`pc` is the stage of `RunStdio`; one action per stage, each with its error returns. The
stack of defers is the set `pending` with the constant order `Rank`: the unwind runs the
pending defer of highest rank, which is what Go does as long as defers are registered in
that order; they are. `ctx` is the cause of `runCtx`, first cancel wins. `chain` and
`trail` are the audit chain (an append to a closed chain is lost), `bundle` is what
`AutoSealEvidence` saw when it ran. The two `sync.Once` guards are `once`: `EnterOnce`
lets one goroutine in, `RemoveCredentials` and `CloseDesktop` are the bodies, and every
caller (`PopOnce`, `FinalizeCreds`, `FinalizeEngine`, `RungReturns`) waits for `"done"`.
`ladder` is how far the trip and the graceful stop have got; `timer` is the delayed
cancel of Abort. A rung that puts a layer into the firewall takes two steps: `RungApplies`
is the actuator's call, `RungHandsOver` the call of `SetRestore` or of the holder after it,
and what the unwind finds between the two (`"bare"`) it does not undo. `layer` says
`"missed"` of a rung whose undo came too late for the defer: the servant is closed before
the restores run, and the model assumes of the external `servant.Close` no more than that
it does not wait for a rung that is under way. The order of the ladder itself
(`contain.KillExecutor`) is not in this repository: it is taken from
`docs/security-architecture.md` and how the hooks are used, and its actions are marked
external in the map. A trip is allowed whenever the monitor has been started, during the
unwind too, because the monitor is not waited for.

### Credentials

`pc` is provisioning, `next` the loop index of whichever loop is running, `store` the
Credential Manager with the owner of each entry. Deletion follows the code: it succeeds or
finds nothing (`Deleted`, the target joins `gone`), or fails and is counted (`Refused`),
unless reading the entry back fails as well, which the code takes for "absent" (`Misread`).
The injection job is one engine job, but its system calls (click, check, read, one
SendInput per unit) interleave with `FocusMoves`, `UserWrites` and `UserDeletes`: the STA
thread serializes this server, not the desktop. Enter is pressed in a job of its own, after
the typing. `landed` are the fields that keystrokes have reached and `moved` says that the
focus has moved since it was checked, which is all that may send one elsewhere
(`LandsWhereConfirmed`). A document that does not validate is dropped whole. What is left
of the secrets in memory is not modelled: some of them are strings for a while
(`winmcp/credentials.go:79-96`), which nothing can wipe.

### AviWriter

Byte counts, not bytes. `end` is the real end of the file, `movieBytes`, `count` and
`index` are what the writer keeps, `fields` the patched header fields. Every write may
be short. `MaxField` stands for the 4 GiB limit of a 32-bit field, and `u32` clamps
at it as the code does.

### Recording

One variable per goroutine or process: recorder (`rec`), ffmpeg (`child`), overlay
thread (`thread`), raisers of the banner (`raise`), `Desktop.Close` (`closer`). A select
with several ready cases takes any. A sender that finds the queue full is *blocked*, and
a receive hands the room to a blocked sender, as a Go channel does. The two seconds after
which a blocked sender gives up are modelled as a thread that serves no more: one that does
serve takes a command every few milliseconds, and the first to be taken makes room for the
sender that waits. A window is made in steps. `Handle` destroys the one it replaces and
creates the new one, which from then on exists (`windows`) and is in `making`; `ShowWindow`
draws it and only then enters it in the manager's `fields`; `DrawFails` has to destroy it,
because nobody else knows of it. `KillChild` and `Finalized` are the bounded wait for
ffmpeg and the reaping, so that a child that was killed and not yet waited for is a state
of the model. `Faults` says which faults an instance allows.

### Engine

The two loops and their callers meet on unbuffered channels: a goroutine at a select
first looks at what is ready, and parks when nothing is; `close(quit)` wakes everyone
parked. This detail matters: because no side can park after the close, a `Do` that
begins after `Close` never finds a parked thread, and so always gets `ErrClosed`
although the select has two cases. Snapshots retain one reference
per labelled element, swap states, and release the old ones; pattern jobs look the label
up inside the job. A snapshot that panics loses what it had retained (`leaked`).

`JobService` is the promise behind all tools: one job at a time, every one answered or
refused, none begun once the engine is closed, and those that wait then refused.
`Engine` implements it under the mapping

    Jobs == INSTANCE JobService WITH job <- [c \in Callers |-> JobOf(c)],
                                     open <- closer # "closed"

where `JobOf` reads a call's progress: a call that stands at the select or is parked has
asked, one that waits for its answer is running. WMI queries go to another thread and
are nobody's job here. The mapping says `closer # "closed"`, not "the quit channel is
open", so that an engine that is closed without closing the channel does not pass.

### Selector and Interaction

`Selector` translates `Matches`, `Resolve`, `selectorFromArgs` and `windowMatches` as
operators on abstract names: words, their case, and white space around them, which is
what the match modes tell apart.

In `Interaction` a request is a record of what a tool reads from its arguments (`Asks`):
its targets (points, labels, selectors, or none), sizes and flags; `RequestsAssumption`
says which kinds of target the schemas of which tool admit. A tool call is a *script*: a
sequence of stages, each either done outside a job (resolving a selector or a label under
the snapshot's lock, evaluating a condition) or an engine job, itself a sequence of
operations (aim the cursor, one `SendInput`, hold a key, walk the screen, use an element,
activate or resize a window). `Scripts` holds the script of each tool. One action does one
stage or one operation; between two operations `AppChanges` may change the screen or move
the focus, between two jobs another call may have its own, every `SendInput` may inject
only a beginning of its events, deadlines pass (`Expire`), contexts end (`Cancel`) and the
engine closes (`Close`). The releases that the code defers are `undo`, done by `EndJob`,
whose error nobody looks at. `desk.held` are the keys that are down, `desk.text` the text
of each field as characters tagged with the call and edit they belong to. A text is a
sequence of `Units`: a character, or a line feed, a tab or a carriage return, which
`Stroke` turns into Enter, Tab and nothing, as `TypeText` does; where Tab takes the focus
is the constant `Tabs`. A text longer than `MaxText` is refused when its stage comes
(`TooLarge`), after the field has been clicked and cleared. (The code measures
`MaxTypeChars` in bytes, although it says characters; a unit of the model is one of one
byte. The edits of a batch share one text.) What matches a selector (`Matches`) is taken
from the code; which of the matches it stands for (`Chosen`) is stated on its own, by
order among them, and not with the code's `Resolve`. History variables say what a property
needs to know: `meant`, what a selector stood for when it was resolved; `hits`, what was
acted on; `muddled` and `disturbed`, the calls that the applications or other calls got in
the way of; `blamed`, the keys whose release Windows refused.

### Journey

Every installed set of hooks sees each input, and delivers it to the *active* session,
which is package-level; `stop` releases the session before its hooks are gone, so that
two sets of hooks may deliver to one session. Events carry what had the focus when they
happened; redaction asks what has it when they are taken out. Keys that mean nothing to a
journey (`SilentInput`: a Shift that repeats while it is held down) go through the buffer
like any other and come without end. The history variables are `doubled`, the events that
two sets of hooks saw, and `due`, those that a recording session had hooks and room for.
Sessions are numbered in the order in which they begin. Two things that the program does
are not told apart from what is modelled: the mark key is emitted as a click is, and the
buffer of a session that has stopped, which nobody reads any more, is emptied.

### Anchor

The loop of `runAnchoring` with its two readings of the head, before and after its own
append, against `Do`, an append by any other part of the server, the cancellation, and the
close of the log, which does not wait for the loop. An entry is the position it anchors,
or `Work`. `missed` are the entries appended between the two readings.

## 3. Runs

| Run | Instance | Shows | States |
|---|---|---|---|
| `session` | 3 armed, 1 graceful and 2 bare configurations (`MCSession`) | `NoCredentialResidue`, `ForensicsBeforeShutdown`, `BundleInputsFinal`, `ServesOnlyGuarded`, `FirewallUndone`, `LayeredRestore`, `StopEndsSession` | 240,382 |
| `credentials` | 2 targets, 5 documents, 2 callers, 2 units | `NothingLeftInstalled`, `AuditAccounts`, `LandsWhereConfirmed`, `OneFailureStopsNothing` | 289,872 |
| `avi` | limit 340, frame sizes 1, 2, 9 | `NeverClamped`, `IndexAddressesFrames`, `FinalizedIsWhole` | 15,534 |
| `recording` | 2 raisers, queue of 2, 1 click ring, every fault but an ffmpeg that stops reading | `BannerIsMarked`, `ChildReaped`, `NoStrayWindows`, `BannersGetThrough`, `RaiseReturns`, `CloseReturns` | 216,861 |
| `engine` | 3 calls in four mixes, 2 elements, 2 labels | `TypeOK`, `LiveElements`, `RefsAccounted`, `ServesJobs`, `CallsReturn`, `ThreadEnds` | 73,285 |
| `journey` | 2 recordings, buffer of 2, 2 input events, silent keys without bound, 1 focus move | `TypeOK`, `HooksRemoved`, `JourneyIsFaithful`, `ClearOnlyIfMoved`, `CancelReturns` | 318,080 |
| `interaction` | 2 calls in 16 mixes of 27 requests, 3 screens of 2 points, batches of 2, texts of up to 3 units, 1 mishap | `TypeOK`, `KeysComeUp`, `TextWhole`, `ActsOnMeant`, `FillsItsFields`, `CallsEnd` | 164,271 |
| `anchor` | 4 entries of the rest of the server | `AnchorsAreEarned`, `ActivityIsAnchored` | 16,122 |

Where a run does not check its module's `TypeOK`, that is a theorem of section 5. All
state spaces are explored completely.

Why the bounds are enough to make the interesting cases happen:

- *session*: a configuration is constant in a behaviour, so configurations do not
  interact; the chosen ones take each branch on `cfg` both ways: armed with every harness
  mode, not armed and so stopping gracefully, armed without elevation, and with nothing but
  the lock of the workstation. The trip, the graceful
  stop, one harness rung at a time (the servant is serial) and `RunStdio` are all there
  is of concurrency, so nothing is cut off.
- *credentials*: two entries let the first install succeed and the second fail, and a
  removal fail in the middle; two callers race; two units let the focus move between
  two keystrokes.
- *avi*: the header takes 224 of the 340 bytes (plus index), so that the limit is hit
  after one to four frames, with every mix of odd and even sizes.
- *recording*: two raisers and two slots let decorations fill the queue and both raisers
  block; `MaxRings` counts the click rings not yet expired, so that any number may follow
  one another. Rings differ from the other windows only in that they expire. The numbers
  of ticks and decorations are not bounded.
- *engine*: three calls let two snapshots surround a pattern call and let a query meet
  the second WMI worker. `Close` ends at most one worker and runs once, so there are
  never more than two.
- *journey*: two events and two overlapping sets of hooks fill and overflow the buffer;
  silent keys, of which there is no bound, keep it full for ever, so that a cancel
  competes with input that does not end. `MaxEvents` and `MaxMoves` bound what is
  recorded; deadlock checking is off there, since the recorder may wait for ever for a
  person who does nothing, in `recording`, where a tick need not come, and in the
  `ffmpeg_wedge` run, whose subject is that the program stops.
- *interaction*: a plan is constant in a behaviour, so the sixteen pairs stand for sixteen
  instances: a fill of several jobs against typing without a target, a batch of edits
  against a click, two jobs that hold keys, waits, assertions and pattern calls against
  the snapshots of others, windows brought up and moved, texts with tabs and line ends, a
  text over the limit, and the requests that are refused at once. One mishap
  (`MaxMishaps`) is one short injection, one failing call, or one change by the
  applications, at any operation of any job; a second one meets the deferred release of
  the first only when Windows refuses that too, which the property excuses by name. Point
  0 stands for a coordinate that fits no 32-bit integer, `MaxBatch` for the limit on a
  batch.
- *anchor*: four entries fall into every gap between the steps of two ticks.

### Divergences found

Four runs end in a counterexample. Each checks one sentence of a comment in the code.

| Run | Sentence | What the code does |
|---|---|---|
| `harness_leak` | egress rules of the harness "come out on exit" (`server.go:500`) | the servant serves rungs before the defer that undoes them is registered; a failing `provisionEgress` returns in between |
| `ffmpeg_wedge` | finalization is "bounded so it cannot hang" (`ffmpeg.go:48`) | the bound covers the child's exit; a child that stops *reading* blocks the frame write before it, and `recorder.close` waits for that goroutine without a bound |
| `user_credential` | shutdown removes "exactly what it added" (`winmcp/credentials.go:101`) | an install replaces a credential the user had under the target, and the removal deletes it |
| `journey_redaction` | `Secure`: "the char was typed into a password field" (`journeyrecord.go:49`) | the field is asked for when the buffered event is processed; a character typed just before the focus left is recorded in clear |

Smaller observations made while modelling, listed as hazards or noted here. They are the
behaviour the modules have, and no property contradicts them.

- *Credentials*: "what is verified is what receives them" (`desktop/credentials.go:240`)
  holds as far as this process decides it. The focus between check and keystroke belongs
  to the desktop, and `LandsWhereConfirmed` says what is left. An entry that can neither be
  deleted nor read back counts as absent (`desktop/credentials.go:202`), so that the removal
  record claims it is gone: `AuditAccounts` and `NothingLeftInstalled` except it by name
  (`misread`).
- *Session*: "undo firewall isolation on exit" (`server.go:493`) does not hold of an
  isolation that a trip begins after the executor's `Restore`: the monitor is not waited
  for, and nothing undoes it. It is the value `"after"` of `isolated`, which
  `FirewallUndone` and `LayeredRestore` except by name.
- *Recording*: the banner is on the recording only if a tick falls between its drawing
  and the close; `MarkRecording` and the status report success after the recorder's
  goroutine has ended.
- *Journey*: `docs/journey-recording.md` says injected input is ignored, while the mouse
  hook does not look at the injected flag; a stop key pressed while the buffer is full is
  dropped.
- *Engine*: `tree.go:71` drops the sibling it has just fetched, unreleased, at the node
  limit; a WMI query after `Close` starts a worker that nobody ends; connecting to WMI
  holds the mutex that `Close` needs; a panic of a WMI query, which unlike a job has no
  recover (`wmi.go:47`), ends the process. (Restarting a Windows service ignores that it
  could not be stopped, `wmi.go:342`.)
- *Selectors*: `windowMatches` reads the mode `matches` as exact and keeps the white space
  of a `contains` needle, while its comment (`testing.go:352`) speaks of the same rule;
  `docs/journey-taxonomy.md:446` says that `matches` needs a full match, while
  `selector.go:188` matches anywhere in the name. `ActsOnMeant` takes what matches from the
  code, and what it adds is which of the matches is meant: it does not see this disagreement.
- *Interaction*: MultiEdit says of each field "clicked, cleared, and typed into"
  (`multi.go:120`) and ignores the errors of clearing (`multi.go:172`), so that
  `FillsItsFields` claims less for it than for Type; what is typed is not what is in the
  field when the text has a tab, which moves the focus, or a line feed, which presses Enter
  (`input.go:224-235`), so that it is claimed of texts of characters only (`Plain`); a text
  that is too long is refused after its field was clicked and cleared, and the limit of
  "characters" (`input.go:218`) counts bytes; `ActivateWindow` ignores whether
  Windows let the window come to the front; `ResizeWindow` restores a minimised window
  before it refuses a geometry; Assert on any window reads the engine's last snapshot,
  which may be another call's.
- *Anchor*: an entry appended between the two readings of a tick is remembered as
  anchored although no anchor names it until something else is appended, while
  `anchor_test.go:38` says that activity is anchored again; `ActivityIsAnchored` excludes
  exactly these entries.

## 4. Fairness

- *Session*: weak fairness on `RunStdio`'s own steps, on the bodies behind the
  `sync.Once`, and on the steps and timers of ladder and graceful stop: goroutines that
  can run do run, and timers fire. Nothing is assumed of the client, the detectors or
  the harness, which may do nothing for ever. That `CloseDesktop` returns is an
  assumption here and is `Recording`'s `CloseReturns`.
- *Credentials*: provisioning and removal make progress; the agent and the user need not.
- *Recording*, *Journey*: as above; in addition strong fairness on the stop channel, the
  overlay's quit channel and the cancelled context, since these are cases of a select
  whose other case keeps becoming ready, and Go chooses between ready cases at random.
  None is assumed of the person, the decorations or the ticks.
- *Engine*: calls that have been made, the two loops and the jobs make progress: COM and
  WMI calls are assumed to return. No strong fairness is needed, and from this much the
  strong fairness of `JobService`, that each job asked for is begun in its turn, follows
  in the `engine` run.
- *Interaction*: weak fairness on each call's own steps and on the operations of the
  running job, and strong fairness on `Expire`: clocks advance, and a wait that keeps
  polling comes to where it looks at its deadline again and again, without staying there.
  Nobody has to make a call, end its context or close the engine.
- *Anchor*: the ticker ticks and the loop runs; no fairness on appends, on the
  cancellation or on the close.

## 5. Proofs

TLC checks the instances above; TLAPS proves the following for every value of the
constants, from the named assumptions on constants alone.

**Session** (`SessionProofs.tla`; from `ConfigsAssumption`). `TypeOK` is proved from the
lemmas `...Changes`, which say which actions may touch each group of variables, so that
each action is looked at only where it matters. The safety properties are not inductive;
`IInv` conjoins `TypeOK` with:

- `CredInv`: before provisioning nobody can remove, and from then on the cleanup defer
  stays registered as long as there is something to remove. Without the first part a
  removal before provisioning would use up the `sync.Once`.
- `LadderInv`: each step of the ladder leaves behind what the next relies on (banner,
  credentials done, engine done), which gives `ForensicsBeforeShutdown`.
- `ChainInv`: the chain is open from the second stage until the *last* defer, and an
  install that is on the trail is either present or removed on the trail. The lemma
  `SealIsLast` is where `Rank` enters: the seal runs when nothing else is pending.
- `SurfaceInv`: what each start-up stage has established for the ones after it.
- `FirewallInv`: isolation begins only once the monitor runs, by which time the defer that
  undoes it is registered, so one that began before `Restore` is gone after it; a harness's
  layer that stands has its defer registered, which comes before that one, and the local
  egress state comes after it. The ranks give `FirewallUndone` and the action property
  `LayeredRestore`, which looks at the layers themselves, not at which defers have run.

Theorems: `TypeCorrect`, `Invariance`, `CredentialsAreRemoved`, `ForensicsComeFirst`,
`SealedBundleIsFinal`, `ServedUnderGuard`, `FirewallIsUndone`, `LayersComeDownInOrder`.

**AviWriter** (`AviWriterProofs.tla`; from `MaxFieldAssumption` and
`LengthsAssumption`). `IInv` adds to the three properties where the file ends
(`EndWhereCounted`: until a write fails it ends where the counters say) and what has been
patched so far (`Progress`). Theorems: `TypeCorrect`, `Invariance`, `ClampNeverEngages`,
`IndexIsExact`, `FinalizedFileIsWhole`: for every size limit, so for 4 GiB, and every
frame size.

**Credentials** (`CredentialsProofs.tla`; from `FilesAssumption` and
`UnitsAssumption`). None of the properties is inductive. `IInv` adds:

- `InstallInv`: what is installed is a beginning of a valid document, so that no target
  is in it twice, and the remover is reachable only when all of it is.
- `LeftInv`: what the store holds of this server is still to be tried, or its removal was
  refused or its reading failed; `CountInv`: exactly the entries before the position have
  been tried, each once, and the counters are the sizes of the sets of outcomes. Together
  they turn "the loop has run" into `NothingLeftInstalled` and into a removal record that
  claims what is gone and admits what was refused.
- `AuditInv`: the records there are at each stage, word for word.
- `JobInv`: what the injection knows at each of its steps about focus and field.

Theorems: `TypeCorrect`, `Invariance`, `NothingIsLeft`, `AuditIsTrue`,
`KeystrokesLandWhereConfirmed`: for every set of documents, targets and callers.

**Recording** (`RecordingProofs.tla`; from `FaultsAssumption` and `QueueCapAssumption`).
`IInv` is `TypeOK` and: a child belongs to an encoder that is still to
be closed (`ChildInv`), the log is open while frames may come (`LogInv`), and whatever
carries the banner, a raiser about to send, a queued command, a window, a captured frame,
has marked it (`MarkInv`), and the windows of each kind are those the fields remember and
the one being drawn (`WindowInv`). That a failed drawing leaves no window behind is thus
not a matter of the fields: it needs that the predecessor was destroyed before, and that
whoever fails destroys what was made. Theorems: `TypeCorrect`, `Invariance`, `BannersAreMarked`,
`ChildrenAreReaped`, `NoWindowIsForgotten`.

**Engine** (`EngineProofs.tla`; from `MaxNodesAssumption` and `WorkloadsAssumption`).
`IInv` is

- `RefInv`: `TypeOK`, what a pattern job has looked up is in the last snapshot
  (`TargetInv`), and `RefsAccounted`. The lemmas on `Occurrences` say what appending and
  taking the head do to how often an element is in a sequence; they rest on the library's
  facts on cardinality, so that no induction over sequences is needed.
- `MeetInv`: a thread that runs and a call that waits are each other's; each is on the
  kind of thread its call belongs to.
- `QuitInv`: closing is closing the quit channel, and afterwards nobody is parked.
- `WorkerInv`: a second WMI worker is started only after the close.

Theorems: `TypeCorrect`, `Invariance`, `EveryReferenceCounts`, `TargetsAreAlive`, and
`EngineServesJobs`: the initial states of `Engine` are initial states of `JobService`
under the mapping above, and every step is a step of it or a stutter, one lemma for each
action. `QuitInv` is what lets a call that begins not be a job begun after the close, and
`MeetInv` what makes it the only one running.

**Journey** (`JourneyProofs.tla`; from `BufferCapAssumption` and `BoundsAssumption`; any
number of recordings). `IInv` is `TypeOK`, `JourneyIsFaithful`, `ClearOnlyIfMoved` and:

- `HookInv`: which hooks a recording has at each point of `RecordInput`, that the active
  recording is the one between a successful start and its stop, and that there is at most
  one. Hooks without `active` are possible, and that is the overlap `HooksRemoved` is about.
- `Hooked` is finite: an event is delivered by every set of hooks there is, and the buffer
  stays bounded only because these are finitely many, although `Sessions` may be infinite.
- `LineInv`: from the oldest record over the event being enriched and the buffer to the
  events still to come, each comes before the next (`Before`: it is earlier, or it is the
  same event seen by two sets of hooks), and an event not yet emitted carries the focus of
  now unless the focus has moved. Records alone would not tell that the next one is later,
  nor that its field is still the one that has the focus. And until its loop is left, every
  event a recording is due is recorded, being enriched, or in its buffer (`Kept`).

Theorems: `TypeCorrect`, `HooksGone`, `JourneyInOrder`, `RedactionFailsClosed`.

**Interaction** (`InteractionProofs.tla`; from `InteractionAssumption` and
`RequestsAssumption`: for any number of calls, any requests of those types, any screens and
any number of faults). Two things come before the invariants.

*Folds.* Scripts are built with `FlattenSeq`, and a `SendInput` is a `FoldLeft` over its
events. The theorems of the library on induction take an operator; `Induction` says the
same of a set of naturals, and follows from the well-foundedness of `<` on them
(`Least`). With it `Flattening`, `Flattened` and `InjectedInto` say what the two folds
yield, of every sequence.

*Scripts.* The lemmas `...Shape` say what the script of each tool looks like, whatever its
request, and `ScriptShape` that every script is of one of four shapes (`Shaped`). A script
that acts (`Acts`) resolves a point before it aims at it, clicks what it aimed at last,
looks a label up only in order to locate it, types for each target in one stage, and
otherwise sends only batches whose keys come up in the same batch (`Balanced`), or holds a
key for the rest of a job. The others (`Look`, `Use1`, `Use2`) are short and given in full.

The invariants, each checked on the instance of `interaction` before it was proved (the
last one with `Way`, a `CHOOSE` that TLC cannot enumerate, computed stage by stage):

- `Base`: `TypeOK`, `KeysComeUp`, `InScript` (a call under way was not refused and is at a
  stage of its script) and `InJob` (the running job is that of a call under way). A
  beginning of a balanced batch leaves down only keys whose release was in the rest
  (`KeysInjected`), and those are `blamed`.
- `TextInv` adds `Typist`: whoever typed a character is at the stage that types for that
  target, or beyond it; while it is there, it is the holder, has typed no further than its
  job has come, and what it typed is the end of every text. `TextWhole` alone says nothing
  of who may type next.
- `MeantInv` adds `Reckoned`: a call has one set of meanings for each point it resolved, and
  for the label it is about to use; `Current`: as long as nothing overtook the call, what it
  has resolved shows what it means, on the screen and in the last snapshot; and `AtHand`: in
  a job the cursor is where it was aimed last, which ties a click to its point when no other
  call has the engine.

- `FillInv` says what a fill (Type with clear, MultiEdit) has achieved at each stage, its
  text being of characters only. Its
  script leads through moments: all targets before the k-th *filled*, the k-th *clicked*,
  its text *selected*, *cleared*, *typed*, and *entered* (`Leads`). `TypeGoes` and
  `MultiEditGoes` show that there is such a way through every such script (`Way`).
  `Achieved` says what is on the desktop at each moment: the fields that were clicked last
  for an earlier target have their texts, and the focus is on the field at hand, with what
  was typed so far. It is claimed only while nothing gets in the way (`Alone`), no
  operation of the job failed, and the engine is open. `FillsItsFields` looks only at the
  step that ends a call, so it says nothing about how its texts came to be there; and a
  batch whose targets show one field twice keeps only the last text, which is why `Aside`
  sets the field that has the focus apart.

`Plain` enters where a batch of a fill is typed: each of its units is then a character
(`PlainText`). A text that is too long never gets that far, because its stage is refused.

Theorems: `TypeCorrect`, `KeysReleased`, `TextInOnePiece`, `ActsAsMeant`, and for the
action property `FillsItsFields` `FillsAsReported`.

**Anchor** (`AnchorProofs.tla`; from `AnchorAssumption`). `Remembered` says how far the
head that the loop remembers has come: between ticks no anchor lies beyond it. Theorems:
`TypeCorrect`, `Invariance`, `AnchorsEarned`.

**Model-checked only.** All liveness properties (`StopEndsSession`,
`OneFailureStopsNothing`, `BannersGetThrough`, `RaiseReturns`, `CloseReturns`, the
fairness of `ServesJobs`, `CallsReturn`, `ThreadEnds`, `CancelReturns`, `CallsEnd`,
`ActivityIsAnchored`): the prover does not reason about fairness and ENABLED. Every safety
invariant that a run checks is a theorem above, and so are the action properties
`LayeredRestore` and `FillsItsFields`.

## 6. What is not modelled

- The audit chain's hashing, the policy engine, the evidence bundle, the harness's wire
  protocol and the kill executor are in the external library agentweave-harness; their
  use here is in `Session`.
- A crash of the process skips every defer; nothing in this repository recovers from
  one, so there is no restart to model.
- UI Automation, GDI capture, JPEG coding, PowerShell and WMI results are data.
- The tools that wrap one PowerShell or Win32 call each change only the operating
  system's state.
- The served inventory (persona, toolsets, `--tools`, SYSTEM context): a pure function of
  the command line and the policy, evaluated once before anything is served. `Session`
  has its outcomes and the stage at which it is registered.
- Clipboard, `Wait`, launching programs, displays, notifications: one system call each.
- The path checks of the file tools, and the conversions of the registry, process,
  network, package, task and event-log tools.
- Copies of secrets that stay in memory after they were wiped: those that were strings for a
  while, and those of a document that is refused (`winmcp/credentials.go:157`).
- The order in which a snapshot reads the windows, the foreground and the tree
  (`snapshot.go:38-84`): `WalkScreen` reads one screen. A panic inside a WMI query.
- Within modelled parts: `DismissSecurityBanner`, which nothing calls; agent markers and
  the recording's status; the walk's depth and node bounds and the references it holds
  while walking; how a value read from an element is compared (the external
  mcp-server-core); writing the evidence file; double clicks and key translation of the journey.

## 7. Plan

Done: the session core, credentials, the recording chain, the engine as an implementation
of `JobService`, the journey recorder, selectors, interaction, anchoring, and proofs of
the safety invariants and action properties of all of them. What is left, in this order:

1. Abstract specifications: a session as "resources acquired are released in reverse
   order", implemented by `Session`; a credential's life as installed and removed,
   implemented by `Credentials`.
2. `Tree`: the walk (depth 40, 2500 nodes) with the balance of its references.
3. `Paths`: which paths the file tools refuse.
