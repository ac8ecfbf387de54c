---------------------------- MODULE Credentials ----------------------------
(***************************************************************************)
(* Init-time credentials: the credentials file is loaded and validated,    *)
(* its entries are installed in the Windows Credential Manager, the agent  *)
(* has them typed into a field, and removal deletes what was installed     *)
(* (internal/winmcp/credentials.go, internal/desktop/credentials.go).      *)
(*                                                                         *)
(* The Credential Manager is shared with the user and other programs, who  *)
(* may hold, save or delete a credential under any target at any time.     *)
(* Window focus is theirs as well.  What stays of a decoded secret in this *)
(* process's memory is not modelled.                                       *)
(***************************************************************************)
EXTENDS Naturals, Sequences, FiniteSets, SequencesExt

CONSTANTS
    Targets,   \* Credential Manager targets
    Files,     \* credentials documents: sequences of entries
    Callers,   \* who calls the remover: the exit defer, the kill ladder, a rung
    Units      \* UTF-16 units of a secret

Entry == [ target   : Targets,
           complete : BOOLEAN,     \* name, target and secret present, persist "session"
           unmasked : BOOLEAN,     \* allow_unmasked_target
           readable : BOOLEAN ]    \* generic; a domain password is write-only

ASSUME FilesAssumption == \A f \in Files : f \in Seq(Entry)
ASSUME UnitsAssumption == Units \in Nat \ {0}

Fields == {"masked", "plain"}      \* what the focused control reports

VARIABLES
    pc,         \* provisioning: "load", "install", "rollback", "serve", "failed"
    file,       \* the document
    next,       \* entry being installed or removed
    installed,  \* targets this server has written, in order
    store,      \* the Credential Manager: who wrote the entry of a target
    lost,       \* targets whose user-owned entry this server destroyed
    removed,    \* deletions the removal counted as done
    failures,   \* deletions it counted as failed
    gone,       \* history: targets that were absent when their deletion returned
    refused,    \* history: targets that were not deleted, and were read afterwards
    misread,    \* history: targets that were neither deleted nor could be read
    audit,      \* credentials.* records appended
    once,       \* the remover's sync.Once: "new", "running", "done"
    caller,     \* callers of the remover: "idle", "calling", "returned"
    focus,      \* kind of the control that has the focus
    job,        \* the credentials tool's injection: its job, then that of Enter
    typed,      \* units typed by the job
    landed,     \* history: kinds of control the keystrokes landed in
    moved       \* history: the focus has moved since it was checked

provision == <<pc, file, next, installed>>
outcomes  == <<removed, failures, gone, refused, misread>>
remover   == <<outcomes, audit, once, caller>>
injector  == <<job, typed, landed, moved>>
vars      == <<provision, store, lost, remover, focus, injector>>

NoJob == [step |-> "idle"]
NotUnderWay == {"idle", "over"}

Init ==
    /\ pc = "load" /\ file \in Files /\ next = 1
    /\ installed = <<>>
    /\ store \in [Targets -> {"none", "user"}] /\ lost = {}
    /\ removed = 0 /\ failures = 0 /\ gone = {} /\ refused = {} /\ misread = {}
    /\ audit = <<>>
    /\ once = "new" /\ caller = [c \in Callers |-> "idle"]
    /\ focus \in Fields /\ job = NoJob /\ typed = 0 /\ landed = {} /\ moved = FALSE

----------------------------------------------------------------------------
(***************************************************************************)
(* Provisioning                                                            *)
(***************************************************************************)
\* loadCredentialsFile: every entry complete, and no target named twice.
Valid(f) ==
    /\ f # <<>>
    /\ \A i \in DOMAIN f : f[i].complete
    /\ IsInjective([i \in DOMAIN f |-> f[i].target])

\* A file that cannot be read or that a broad group can read is refused before
\* it is decoded.
RefuseFile ==
    /\ pc = "load"
    /\ pc' = "failed"
    /\ UNCHANGED <<file, next, installed, store, lost, remover, focus, injector>>

LoadFile ==
    /\ pc = "load"
    /\ pc' = IF Valid(file) THEN "install" ELSE "failed"
    /\ UNCHANGED <<file, next, installed, store, lost, remover, focus, injector>>

\* CredWrite replaces whatever the target held.
Overwrite(t) ==
    /\ store' = [store EXCEPT ![t] = "server"]
    /\ lost' = IF store[t] = "user" THEN lost \cup {t} ELSE lost

WriteEntry ==
    /\ pc = "install" /\ next <= Len(file)
    /\ Overwrite(file[next].target)
    /\ installed' = Append(installed, file[next].target)
    /\ next' = next + 1
    /\ UNCHANGED <<pc, file, remover, focus, injector>>

\* WriteCredential refuses the entry or CredWrite fails: what was installed so
\* far is rolled back.
WriteFails ==
    /\ pc = "install" /\ next <= Len(file)
    /\ pc' = "rollback" /\ next' = 1
    /\ UNCHANGED <<file, installed, store, lost, remover, focus, injector>>

InstallRecord == [kind |-> "installed", count |-> Len(installed), failed |-> 0]
RemovalRecord == [kind |-> "removed", count |-> removed, failed |-> failures]

Installed ==
    /\ pc = "install" /\ next > Len(file)
    /\ pc' = "serve" /\ next' = 1
    /\ audit' = Append(audit, InstallRecord)
    /\ UNCHANGED <<file, installed, store, lost, outcomes, once, caller, focus, injector>>

----------------------------------------------------------------------------
(***************************************************************************)
(* Removal: removeCredentials, from the rollback or, behind the sync.Once, *)
(* from whichever caller comes first.                                      *)
(***************************************************************************)
Removing == pc = "rollback" \/ once = "running"

\* What DeleteCredential may have done about a target when it returns.
Deleted(t) ==        \* CredDelete deleted it, or CredRead found it absent
    /\ store' = [store EXCEPT ![t] = "none"]
    /\ gone' = gone \cup {t}
    /\ UNCHANGED <<refused, misread>>

Refused(t) ==        \* CredDelete failed, and CredRead found it
    /\ store[t] # "none"
    /\ refused' = refused \cup {t}
    /\ UNCHANGED <<store, gone, misread>>

Misread(t) ==        \* CredDelete failed, CredRead too: taken to be absent
    /\ store[t] # "none"
    /\ misread' = misread \cup {t}
    /\ UNCHANGED <<store, gone, refused>>

\* Mutants: a failure is counted, and then counted as a removal as well; the first
\* failure ends the loop.
DeleteCounts ==
    /\ Removing /\ next <= Len(installed)
    /\ LET t == installed[next] IN
           \/ (Deleted(t) \/ Misread(t)) /\ removed' = removed + 1 /\ UNCHANGED failures
           \/ Refused(t) /\ failures' = failures + 1 /\ removed' = removed + 1
    /\ next' = next + 1
    /\ UNCHANGED <<pc, file, installed, lost, audit, once, caller, focus, injector>>
DeleteStops ==
    /\ Removing /\ next <= Len(installed)
    /\ LET t == installed[next] IN
           \/ /\ Deleted(t) \/ Misread(t)
              /\ removed' = removed + 1 /\ next' = next + 1 /\ UNCHANGED failures
           \/ /\ Refused(t)
              /\ failures' = failures + 1 /\ next' = Len(installed) + 1 /\ UNCHANGED removed
    /\ UNCHANGED <<pc, file, installed, lost, audit, once, caller, focus, injector>>

\* A deletion that fails is counted as failed, one that returns no error as done;
\* the loop goes on either way.
DeleteNext ==
    /\ Removing /\ next <= Len(installed)
    /\ LET t == installed[next] IN
           \/ (Deleted(t) \/ Misread(t)) /\ removed' = removed + 1 /\ UNCHANGED failures
           \/ Refused(t) /\ failures' = failures + 1 /\ UNCHANGED removed
    /\ next' = next + 1
    /\ UNCHANGED <<pc, file, installed, lost, audit, once, caller, focus, injector>>

Removed ==
    /\ Removing /\ next > Len(installed)
    /\ audit' = IF installed = <<>> THEN audit ELSE Append(audit, RemovalRecord)
    /\ pc' = IF pc = "rollback" THEN "failed" ELSE pc
    /\ once' = IF pc = "rollback" THEN once ELSE "done"
    /\ UNCHANGED <<file, next, installed, store, lost, outcomes, caller, focus, injector>>

CallRemover(c) ==
    /\ pc = "serve" /\ caller[c] = "idle"
    /\ caller' = [caller EXCEPT ![c] = "calling"]
    /\ UNCHANGED <<provision, store, lost, outcomes, audit, once, focus, injector>>

EnterRemover ==
    /\ once = "new" /\ \E c \in Callers : caller[c] = "calling"
    /\ once' = "running"
    /\ UNCHANGED <<provision, store, lost, outcomes, audit, caller, focus, injector>>

\* Mutant: a caller does not wait for the one that is removing.
ReturnEarly(c) ==
    /\ caller[c] = "calling" /\ once # "new"
    /\ caller' = [caller EXCEPT ![c] = "returned"]
    /\ UNCHANGED <<provision, store, lost, outcomes, audit, once, focus, injector>>

ReturnFromRemover(c) ==
    /\ caller[c] = "calling" /\ once = "done"
    /\ caller' = [caller EXCEPT ![c] = "returned"]
    /\ UNCHANGED <<provision, store, lost, outcomes, audit, once, focus, injector>>

----------------------------------------------------------------------------
(***************************************************************************)
(* The credentials tool's inject mode: InjectCredential is one job on the  *)
(* engine thread, and Enter another one; the system calls of both          *)
(* interleave with the rest of the machine.                                *)
(***************************************************************************)
\* A write-only class is refused before the job is queued.
StartInjection ==
    /\ pc = "serve" /\ job.step \in NotUnderWay
    /\ \E i \in DOMAIN file :
           /\ file[i].readable
           /\ job' = [step |-> "click", entry |-> file[i]]
    /\ typed' = 0 /\ landed' = {} /\ moved' = FALSE
    /\ UNCHANGED <<provision, store, lost, remover, focus>>

\* The optional click moves the focus to the field the agent chose, or fails.
ClickField ==
    /\ job.step = "click"
    /\ focus' \in Fields
    /\ \/ job' = [job EXCEPT !.step = IF job.entry.unmasked THEN "read" ELSE "check"]
       \/ job' = NoJob
    /\ UNCHANGED <<provision, store, lost, remover, typed, landed, moved>>

\* Mutant: a control that cannot be told from a masked one is accepted.
CheckOpen ==
    /\ job.step = "check"
    /\ job' = [job EXCEPT !.step = "read"]
    /\ UNCHANGED <<provision, store, lost, remover, focus, typed, landed, moved>>

\* requireMaskedFocus: it may fail on a masked field, and then it refuses.
CheckFocus ==
    /\ job.step = "check"
    /\ \/ focus = "masked" /\ job' = [job EXCEPT !.step = "read"]
       \/ job' = NoJob
    /\ UNCHANGED <<provision, store, lost, remover, focus, typed, landed, moved>>

\* CredRead finds nothing, fails, or finds an entry without a secret: nothing is
\* typed.  Otherwise what is typed is whatever is under the target now.
ReadSecret ==
    /\ job.step = "read"
    /\ \/ job' = NoJob
       \/ store[job.entry.target] # "none" /\ job' = [job EXCEPT !.step = "type"]
    /\ UNCHANGED <<provision, store, lost, remover, focus, typed, landed, moved>>

\* One SendInput per unit, into whatever has the focus; a failure ends the job
\* with what has been typed so far.  press_enter decides what comes after the last.
TypeUnit ==
    /\ job.step = "type" /\ typed < Units
    /\ \/ /\ typed' = typed + 1
          /\ landed' = landed \cup {focus}
          /\ \E then \in IF typed' < Units THEN {"type"} ELSE {"enter", "over"} :
                 job' = [job EXCEPT !.step = then]
       \/ /\ job' = NoJob
          /\ UNCHANGED <<typed, landed>>
    /\ UNCHANGED <<provision, store, lost, remover, focus, moved>>

\* Nothing is checked again for the job that presses Enter.
PressEnter ==
    /\ job.step = "enter"
    /\ \/ job' = [job EXCEPT !.step = "over"] /\ landed' = landed \cup {focus}
       \/ job' = NoJob /\ UNCHANGED landed
    /\ UNCHANGED <<provision, store, lost, remover, focus, typed, moved>>

----------------------------------------------------------------------------
(***************************************************************************)
(* Everyone else on the machine.                                           *)
(***************************************************************************)
UserWrites ==
    /\ \E t \in Targets :
           /\ store[t] # "user"
           /\ store' = [store EXCEPT ![t] = "user"]
    /\ UNCHANGED <<provision, lost, remover, focus, injector>>

UserDeletes ==
    /\ \E t \in Targets :
           /\ store[t] # "none"
           /\ store' = [store EXCEPT ![t] = "none"]
    /\ UNCHANGED <<provision, lost, remover, focus, injector>>

FocusMoves ==
    /\ focus' \in Fields \ {focus}
    /\ moved' = (moved \/ job.step \in {"read", "type", "enter"})
    /\ UNCHANGED <<provision, store, lost, remover, job, typed, landed>>

----------------------------------------------------------------------------
Provision == RefuseFile \/ LoadFile \/ WriteEntry \/ WriteFails \/ Installed

Removal == \/ DeleteNext \/ Removed \/ EnterRemover
           \/ \E c \in Callers : ReturnFromRemover(c)

Inject == StartInjection \/ ClickField \/ CheckFocus \/ ReadSecret \/ TypeUnit \/ PressEnter

User == UserWrites \/ UserDeletes \/ FocusMoves

Next == Provision \/ Removal \/ (\E c \in Callers : CallRemover(c)) \/ Inject \/ User

\* The goroutines that provision and remove make progress; nothing is assumed
\* of the agent or the user.
Spec == Init /\ [][Next]_vars /\ WF_vars(Removal) /\ WF_vars(Provision)

----------------------------------------------------------------------------
(***************************************************************************)
(* Properties                                                              *)
(***************************************************************************)
Done == pc = "failed" \/ once = "done"

\* Every variable has its type.
TypeOK ==
    /\ pc \in {"load", "install", "rollback", "serve", "failed"}
    /\ file \in Files /\ next \in 1..(Len(file) + 1)
    /\ installed \in Seq(Targets)
    /\ store \in [Targets -> {"none", "user", "server"}]
    /\ lost \subseteq Targets
    /\ removed \in Nat /\ failures \in Nat
    /\ gone \subseteq Targets /\ refused \subseteq Targets /\ misread \subseteq Targets
    /\ audit \in Seq([kind : {"installed", "removed"}, count : Nat, failed : Nat])
    /\ once \in {"new", "running", "done"}
    /\ caller \in [Callers -> {"idle", "calling", "returned"}]
    /\ focus \in Fields
    /\ job = NoJob \/ job.step \in {"click", "check", "read", "type", "enter", "over"}
    /\ typed \in 0..Units /\ landed \subseteq Fields /\ moved \in BOOLEAN

\* Nothing this server wrote is left behind when provisioning has failed or a
\* remover has returned, however the deletions before it went, except where the
\* Credential Manager itself refused to delete.
NothingLeftInstalled ==
    Done \/ (\E c \in Callers : caller[c] = "returned")
        => \A t \in Targets : store[t] = "server" => t \in refused \cup misread

\* The audit chain accounts for every credential.  There is one record of a kind;
\* an install that was rolled back is never claimed; and a removal record says how
\* many targets were really absent when their deletion returned and how many were
\* refused.  The targets it counts without their being gone are exactly those that
\* could be neither deleted nor read, which the code takes to be absent.
AuditAccounts ==
    /\ \A i, j \in DOMAIN audit : audit[i].kind = audit[j].kind => i = j
    /\ \A i \in DOMAIN audit : audit[i].kind = "removed" =>
           /\ audit[i].count = Cardinality(gone) + Cardinality(misread)
           /\ audit[i].failed = Cardinality(refused)
           /\ audit[i].count + audit[i].failed = Len(installed)
    /\ once = "done" => Len(audit) = 2 /\ audit[1] = InstallRecord /\ audit[2].kind = "removed"
    /\ pc = "failed" => \A i \in DOMAIN audit : audit[i].kind # "installed"

\* Fail closed: no keystroke of a credential without the opt-out, neither a unit of
\* the secret nor the Enter that follows in a job of its own, lands in a control
\* that does not mask its input, unless the focus moved after the check
\* (internal/desktop/credentials.go:241-243).
LandsWhereConfirmed ==
    job # NoJob /\ ~job.entry.unmasked => landed \subseteq {"masked"} \/ moved

Tried == gone \cup refused \cup misread

\* "One failure must not prevent the remaining removals"
\* (internal/winmcp/credentials.go:247-249): a call of the remover ends with every
\* entry tried, whichever deletions failed before, and with the caller returning.
OneFailureStopsNothing ==
    \A c \in Callers :
        caller[c] = "calling" ~> /\ caller[c] = "returned"
                                 /\ \A i \in DOMAIN installed : installed[i] \in Tried

\* installedCredential is kept "so shutdown can remove exactly what it added":
\* what others had stored before is still there afterwards.
RemovesExactlyWhatItAdded ==
    once = "done" => \A t \in lost : store[t] # "none"
=============================================================================
