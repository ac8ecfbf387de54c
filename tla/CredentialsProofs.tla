------------------------- MODULE CredentialsProofs -------------------------
(***************************************************************************)
(* Proofs about Credentials, for every set of documents, targets and       *)
(* callers: nothing that was installed is left behind, the audit records   *)
(* agree with what happened to every target, and no keystroke of a secret  *)
(* lands where its destination was not confirmed.                          *)
(***************************************************************************)
EXTENDS Credentials, FiniteSetTheorems, TLAPS

\* How far the removal has come: the first entry that may still be there.
Position == IF Removing THEN next ELSE IF Done THEN Len(installed) + 1 ELSE 1

\* What is installed is the beginning of a valid document, and all of it once the
\* server serves; only then is the remover reachable.
InstallInv ==
    /\ Len(installed) <= Len(file)
    /\ \A i \in 1..Len(installed) : installed[i] = file[i].target
    /\ installed # <<>> \/ pc \in {"install", "rollback", "serve"} => Valid(file)
    /\ pc = "load" => installed = <<>> /\ next = 1
    /\ pc = "install" => next = Len(installed) + 1
    /\ pc = "serve" => Len(installed) = Len(file)
    /\ once # "new" => pc = "serve"
    /\ pc = "serve" /\ once = "new" => next = 1
    /\ Removing => next <= Len(installed) + 1
    /\ \A c \in Callers : /\ caller[c] # "idle" => pc = "serve"
                          /\ caller[c] = "returned" => once = "done"

\* What the store holds of this server is still to be removed, or could not be.
LeftInv ==
    \A t \in Targets :
        store[t] = "server" => \/ t \in refused \cup misread
                               \/ \E i \in Position..Len(installed) : installed[i] = t

\* The entries before the position are those that were tried, each once, and the
\* counters are those of the outcomes.
CountInv ==
    /\ \A t \in Targets : t \in Tried <=> \E i \in 1..(Position - 1) : installed[i] = t
    /\ IsFiniteSet(gone) /\ IsFiniteSet(refused) /\ IsFiniteSet(misread)
    /\ removed = Cardinality(gone) + Cardinality(misread)
    /\ failures = Cardinality(refused)
    /\ removed + failures = Position - 1

\* The audit records that have been appended at each stage.
AuditInv ==
    /\ pc \in {"load", "install", "rollback"} => audit = <<>>
    /\ pc = "failed" => audit \in {<<>>, <<RemovalRecord>>}
    /\ pc = "serve" => audit = IF once = "done" THEN <<InstallRecord, RemovalRecord>>
                               ELSE <<InstallRecord>>

\* A job carries an entry; until its field is checked nothing has landed, and after
\* that the focus is where it was checked unless it has moved.
JobInv ==
    /\ \/ job = NoJob
       \/ job \in [step : {"click", "check", "read", "type", "enter", "over"}, entry : Entry]
    /\ job.step # "idle" /\ ~job.entry.unmasked =>
         /\ job.step \in {"click", "check"} => landed = {}
         /\ job.step \in {"read", "type", "enter"} =>
                moved \/ (focus = "masked" /\ landed \subseteq {"masked"})
         /\ job.step = "over" => moved \/ landed \subseteq {"masked"}

BaseInv == TypeOK /\ InstallInv
IInv    == BaseInv /\ LeftInv /\ CountInv /\ AuditInv /\ JobInv

----------------------------------------------------------------------------
\* No target is written twice: a valid document names each once.
LEMMA Distinct ==
    ASSUME BaseInv, NEW i \in 1..Len(installed), NEW j \in 1..Len(installed),
           installed[i] = installed[j]
    PROVE  i = j
<1>1. /\ Len(installed) \in Nat /\ Len(file) \in Nat /\ Len(installed) <= Len(file)
      /\ installed \in Seq(Targets) /\ file \in Seq(Entry)
  BY FilesAssumption DEF BaseInv, InstallInv, TypeOK
<1>2. installed # <<>>
  BY <1>1
<1>3. Valid(file) /\ installed[i] = file[i].target /\ installed[j] = file[j].target
  BY <1>2 DEF BaseInv, InstallInv
<1>4. i \in DOMAIN file /\ j \in DOMAIN file
  BY <1>1
<1>5. \A a, b \in DOMAIN file : file[a].target = file[b].target => a = b
  BY <1>3 DEF Valid, IsInjective
<1> QED
  BY <1>3, <1>4, <1>5

\* Appending to a sequence.
LEMMA Appended ==
    ASSUME NEW S, NEW s \in Seq(S), NEW x \in S
    PROVE  Append(s, x) \in Seq(S)
OBVIOUS

\* Appending to a sequence of one.
LEMMA AppendedToOne == ASSUME NEW a, NEW b PROVE Append(<<a>>, b) = <<a, b>>
<1>1. <<a>> \in Seq({a, b}) /\ <<a, b>> \in Seq({a, b}) /\ Len(<<a>>) = 1
  OBVIOUS
<1>2. /\ Append(<<a>>, b) \in Seq({a, b}) /\ Len(Append(<<a>>, b)) = 2
      /\ Append(<<a>>, b)[1] = a /\ Append(<<a>>, b)[2] = b
  BY <1>1
<1>3. \A s, t \in Seq({a, b}) : Len(s) = Len(t) /\ (\A i \in 1..Len(s) : s[i] = t[i]) => s = t
  OBVIOUS
<1> DEFINE x == Append(<<a>>, b)
           y == <<a, b>>
<1>4. y \in Seq({a, b}) /\ Len(y) = 2 /\ y[1] = a /\ y[2] = b
  OBVIOUS
<1>5. x \in Seq({a, b}) /\ Len(x) = 2 /\ x[1] = a /\ x[2] = b
  BY <1>2
<1> HIDE DEF x, y
<1>6. \A i \in 1..Len(x) : x[i] = y[i]
  BY <1>4, <1>5
<1>7. x = y
  BY <1>3, <1>4, <1>5, <1>6
<1> QED
  BY <1>7 DEF x, y

\* Every entry of a document has the type of one.
LEMMA EntryOf ==
    ASSUME TypeOK, NEW i \in 1..Len(file)
    PROVE  file[i] \in Entry /\ file[i].target \in Targets
<1>1. file \in Seq(Entry) /\ file[i] \in Entry
  BY FilesAssumption DEF TypeOK
<1>2. \A e \in Entry : e.target \in Targets
  BY DEF Entry
<1> QED
  BY <1>1, <1>2

\* The invariant holds at the start.
LEMMA InitHolds == Init => IInv
<1> SUFFICES ASSUME Init PROVE IInv
  OBVIOUS
<1>1. file \in Seq(Entry) /\ Len(file) \in Nat
  BY FilesAssumption DEF Init
<1>2. installed = <<>> /\ installed \in Seq(Targets) /\ Len(installed) = 0
  BY DEF Init
<1>3. audit = <<>> /\ audit \in Seq([kind : {"installed", "removed"}, count : Nat, failed : Nat])
  BY DEF Init
<1>4. TypeOK
  <2>1. pc \in {"load", "install", "rollback", "serve", "failed"} /\ file \in Files /\ next \in 1..(Len(file) + 1)
    BY <1>1 DEF Init
  <2>2. store \in [Targets -> {"none", "user", "server"}]
    BY DEF Init
  <2>3. job = NoJob /\ typed \in 0..Units
    BY UnitsAssumption DEF Init
  <2> QED
    BY <1>2, <1>3, <2>1, <2>2, <2>3 DEF Init, TypeOK
<1>5. InstallInv
  BY <1>1, <1>2 DEF Init, InstallInv, Removing
<1>6. Position = 1
  BY DEF Init, Position, Removing, Done
<1>7. LeftInv
  BY DEF Init, LeftInv
<1>8. CountInv
  <2>1. IsFiniteSet({}) /\ Cardinality({}) = 0
    BY FS_EmptySet
  <2> QED
    BY <1>6, <2>1 DEF Init, CountInv, Tried
<1>9. AuditInv
  BY DEF Init, AuditInv
<1>10. JobInv
  BY DEF Init, JobInv, NoJob
<1> QED
  BY <1>4, <1>5, <1>7, <1>8, <1>9, <1>10 DEF IInv, BaseInv

\* Changing none of what provisioning and removal keep changes nothing they rely on.
LEMMA Untouched ==
    ASSUME IInv, TypeOK', UNCHANGED <<pc, file, next, installed, remover>>,
           \A t \in Targets : store'[t] = "server" => store[t] = "server", JobInv'
    PROVE  IInv'
<1>1. UNCHANGED <<pc, file, next, installed, outcomes, audit, once, caller>>
  BY DEF remover, outcomes
<1>2. Position' = Position
  BY <1>1 DEF Position, Removing, Done
<1>3. InstallInv'
  BY <1>1 DEF IInv, BaseInv, InstallInv, Removing, Valid
<1>4. LeftInv'
  BY <1>1, <1>2 DEF IInv, LeftInv, outcomes
<1>5. CountInv' /\ AuditInv'
  BY <1>1, <1>2 DEF IInv, CountInv, Tried, outcomes, AuditInv, InstallRecord, RemovalRecord
<1> QED
  BY <1>3, <1>4, <1>5 DEF IInv, BaseInv

\* The injection job and its Enter, step by step.
LEMMA InjectStep == ASSUME IInv, Inject \/ FocusMoves PROVE IInv'
<1> USE DEF injector
<1>1. UNCHANGED <<provision, store, lost, remover>>
  BY DEF Inject, StartInjection, ClickField, CheckFocus, ReadSecret, TypeUnit, PressEnter, FocusMoves
<1>2. JobInv' /\ focus' \in Fields /\ typed' \in 0..Units /\ landed' \subseteq Fields /\ moved' \in BOOLEAN
  <2> DEFINE Steps == {"click", "check", "read", "type", "enter", "over"}
             Job == [step : Steps, entry : Entry]
  <2>0. /\ focus \in Fields /\ typed \in 0..Units /\ landed \subseteq Fields /\ moved \in BOOLEAN
        /\ Units \in Nat \ {0} /\ NoJob.step = "idle"
        /\ job.step # "idle" => job \in Job /\ job.entry \in Entry
    BY UnitsAssumption DEF IInv, BaseInv, TypeOK, JobInv, NoJob
  <2>1. \A s \in Steps : job \in Job =>
            /\ [job EXCEPT !.step = s] \in Job
            /\ [job EXCEPT !.step = s].step = s /\ [job EXCEPT !.step = s].entry = job.entry
    OBVIOUS
  <2>2. CASE StartInjection
    <3>1. PICK i \in DOMAIN file : job' = [step |-> "click", entry |-> file[i]]
      BY <2>2 DEF StartInjection
    <3>2. file[i] \in Entry
      BY EntryOf, FilesAssumption DEF IInv, BaseInv, TypeOK
    <3>3. job' \in Job /\ job'.step = "click"
      BY <3>1, <3>2
    <3>4. typed' = 0 /\ landed' = {} /\ moved' = FALSE /\ focus' = focus
      BY <2>2 DEF StartInjection
    <3>5. JobInv'
      BY <3>3, <3>4 DEF JobInv
    <3>6. 0 \in 0..Units
      BY <2>0
    <3> QED
      BY <2>0, <3>4, <3>5, <3>6
  <2>3. CASE ClickField
    BY <2>0, <2>1, <2>3 DEF ClickField, JobInv, IInv
  <2>4. CASE CheckFocus
    BY <2>0, <2>1, <2>4 DEF CheckFocus, JobInv, IInv
  <2>5. CASE ReadSecret
    BY <2>0, <2>1, <2>5 DEF ReadSecret, JobInv, IInv
  <2>6. CASE TypeUnit
    <3>1. CASE job' = NoJob /\ UNCHANGED <<typed, landed, focus, moved>>
      BY <2>0, <3>1 DEF JobInv
    <3>2. CASE \E then \in {"type", "enter", "over"} :
                   /\ job' = [job EXCEPT !.step = then]
                   /\ typed < Units /\ typed' = typed + 1 /\ landed' = landed \cup {focus}
                   /\ UNCHANGED <<focus, moved>>
      BY <2>0, <2>1, <2>6, <3>2 DEF TypeUnit, JobInv, IInv
    <3> QED
      BY <2>6, <3>1, <3>2 DEF TypeUnit
  <2>7. CASE PressEnter
    BY <2>0, <2>1, <2>7 DEF PressEnter, JobInv, IInv
  <2>8. CASE FocusMoves
    <3>1. moved' \in BOOLEAN
      BY <2>8 DEF FocusMoves
    <3>2. moved => moved'
      BY <2>8 DEF FocusMoves
    <3>3. job.step \in {"read", "type", "enter"} => moved'
      BY <2>8 DEF FocusMoves
    <3>4. UNCHANGED <<job, typed, landed>> /\ focus' \in Fields
      BY <2>8 DEF FocusMoves
    <3>5. JobInv'
      BY <3>2, <3>3, <3>4 DEF JobInv, IInv
    <3> QED
      BY <2>0, <3>1, <3>4, <3>5
  <2> QED
    BY <2>2, <2>3, <2>4, <2>5, <2>6, <2>7, <2>8 DEF Inject
<1>3. TypeOK'
  <2>1. job' = NoJob \/ job'.step \in {"click", "check", "read", "type", "enter", "over"}
    BY <1>2 DEF JobInv
  <2> QED
    BY <1>1, <1>2, <2>1 DEF IInv, BaseInv, TypeOK, provision, remover, outcomes
<1> QED
  BY <1>1, <1>2, <1>3, Untouched DEF provision

\* What users and other programs do to the store only takes entries of this server away.
LEMMA UserStep == ASSUME IInv, UserWrites \/ UserDeletes PROVE IInv'
<1>1. UNCHANGED <<provision, lost, remover, focus, injector>>
  BY DEF UserWrites, UserDeletes
<1>2. /\ store' \in [Targets -> {"none", "user", "server"}]
      /\ \A t \in Targets : store'[t] = "server" => store[t] = "server"
  BY DEF UserWrites, UserDeletes, IInv, BaseInv, TypeOK
<1>3. TypeOK'
  BY <1>1, <1>2 DEF IInv, BaseInv, TypeOK, provision, remover, outcomes, injector
<1>4. JobInv'
  BY <1>1 DEF IInv, JobInv, injector
<1> QED
  BY <1>1, <1>2, <1>3, <1>4, Untouched DEF provision

----------------------------------------------------------------------------
\* Provisioning, from the document to the last entry or to the rollback.
LEMMA LoadStep == ASSUME IInv, RefuseFile \/ LoadFile PROVE IInv'
<1> USE DEF injector, remover, outcomes
<1>1. /\ pc = "load" /\ pc' \in {"failed", "install"}
      /\ pc' = "install" => Valid(file)
      /\ UNCHANGED <<file, next, installed, store, lost, remover, focus, injector>>
  BY DEF RefuseFile, LoadFile, IInv, BaseInv, TypeOK
<1>2. /\ installed = <<>> /\ Len(installed) = 0 /\ once = "new" /\ audit = <<>>
      /\ \A c \in Callers : caller[c] = "idle"
  BY <1>1 DEF IInv, BaseInv, InstallInv, AuditInv, TypeOK
<1>3. next = 1 /\ Position = 1 /\ Position' = 1
  BY <1>1, <1>2 DEF IInv, BaseInv, InstallInv, Position, Removing, Done
<1>4. TypeOK'
  BY <1>1 DEF IInv, BaseInv, TypeOK
<1>5. InstallInv'
  BY <1>1, <1>2, <1>3 DEF IInv, BaseInv, InstallInv, Removing, Valid
<1>6. LeftInv' /\ CountInv'
  BY <1>1, <1>3 DEF IInv, LeftInv, CountInv, Tried
<1>7. AuditInv' /\ JobInv'
  BY <1>1, <1>2 DEF IInv, AuditInv, JobInv
<1> QED
  BY <1>4, <1>5, <1>6, <1>7 DEF IInv, BaseInv

\* The entry that is written is the last of what is installed.
LEMMA WriteStep == ASSUME IInv, WriteEntry PROVE IInv'
<1> USE DEF injector, remover, outcomes
<1> DEFINE n == Len(installed)
           u == file[next].target
<1>1. /\ pc = "install" /\ next <= Len(file) /\ Overwrite(u)
      /\ installed' = Append(installed, u) /\ next' = next + 1
      /\ UNCHANGED <<pc, file, remover, focus, injector>>
  BY DEF WriteEntry
<1>2. /\ installed \in Seq(Targets) /\ n \in Nat /\ file \in Seq(Entry) /\ Len(file) \in Nat
      /\ next = n + 1 /\ next \in 1..Len(file) /\ u \in Targets
      /\ once = "new" /\ \A c \in Callers : caller[c] = "idle"
  <2>1. next \in 1..Len(file) /\ next = n + 1
    BY <1>1, FilesAssumption DEF IInv, BaseInv, InstallInv, TypeOK
  <2>2. u \in Targets
    BY <2>1, EntryOf DEF IInv, BaseInv
  <2> QED
    BY <1>1, <2>1, <2>2, FilesAssumption DEF IInv, BaseInv, InstallInv, TypeOK
<1>3. /\ installed' \in Seq(Targets) /\ Len(installed') = n + 1
      /\ \A i \in 1..n : installed'[i] = installed[i]
      /\ installed'[n + 1] = u
  BY <1>1, <1>2
<1>4. Position = 1 /\ Position' = 1
  BY <1>1, <1>2 DEF Position, Removing, Done
<1>5. /\ store' = [store EXCEPT ![u] = "server"] /\ lost' \subseteq Targets
      /\ store' \in [Targets -> {"none", "user", "server"}]
  BY <1>1, <1>2 DEF Overwrite, IInv, BaseInv, TypeOK
<1>6. TypeOK'
  <2>1. next' \in 1..(Len(file) + 1)
    BY <1>1, <1>2
  <2> QED
    BY <1>1, <1>3, <1>5, <2>1 DEF IInv, BaseInv, TypeOK
<1>7. InstallInv'
  <2>1. Len(installed') <= Len(file) /\ next' = Len(installed') + 1
    BY <1>1, <1>2, <1>3
  <2>2. \A i \in 1..Len(installed') : installed'[i] = file[i].target
    BY <1>2, <1>3 DEF IInv, BaseInv, InstallInv
  <2>3. Valid(file)
    BY <1>1 DEF IInv, BaseInv, InstallInv
  <2> QED
    BY <1>1, <1>2, <2>1, <2>2, <2>3 DEF InstallInv, Removing, Valid
<1>8. LeftInv'
  <2> SUFFICES ASSUME NEW t \in Targets, store'[t] = "server"
               PROVE  t \in refused' \cup misread' \/ \E i \in 1..Len(installed') : installed'[i] = t
    BY <1>4 DEF LeftInv
  <2>1. CASE t = u
    <3>1. n + 1 \in 1..Len(installed') /\ installed'[n + 1] = t
      BY <1>2, <1>3, <2>1
    <3> QED
      BY <3>1
  <2>2. CASE t # u
    <3>1. store[t] = "server"
      BY <1>5, <2>2 DEF IInv, BaseInv, TypeOK
    <3>2. t \in refused \cup misread \/ \E i \in 1..n : installed[i] = t
      BY <1>4, <3>1 DEF LeftInv, IInv
    <3>3. CASE \E i \in 1..n : installed[i] = t
      <4>1. PICK i \in 1..n : installed[i] = t
        BY <3>3
      <4>2. i \in 1..Len(installed') /\ installed'[i] = t
        BY <1>2, <1>3, <4>1
      <4> QED
        BY <4>2
    <3> QED
      BY <1>1, <3>2, <3>3
  <2> QED
    BY <2>1, <2>2
<1>9. CountInv'
  <2>1. Position - 1 = 0 /\ Position' - 1 = 0
    BY <1>4
  <2> QED
    BY <1>1, <2>1 DEF IInv, CountInv, Tried
<1>10. AuditInv' /\ JobInv'
  BY <1>1 DEF IInv, BaseInv, AuditInv, JobInv
<1> QED
  BY <1>6, <1>7, <1>8, <1>9, <1>10 DEF IInv, BaseInv

\* Provisioning ends with everything installed, or goes back to remove what is.
LEMMA EndInstallStep == ASSUME IInv, WriteFails \/ Installed PROVE IInv'
<1> USE DEF injector, remover, outcomes
<1>1. /\ pc = "install" /\ pc' \in {"rollback", "serve"} /\ next' = 1
      /\ UNCHANGED <<file, installed, store, lost, outcomes, once, caller, focus, injector>>
      /\ pc' = "serve" => next > Len(file) /\ audit' = Append(audit, InstallRecord)
      /\ pc' = "rollback" => audit' = audit
  BY DEF WriteFails, Installed, InstallRecord
<1>2. /\ installed \in Seq(Targets) /\ Len(installed) \in Nat /\ Len(file) \in Nat
      /\ next = Len(installed) + 1 /\ Len(installed) <= Len(file)
      /\ once = "new" /\ (\A c \in Callers : caller[c] = "idle") /\ audit = <<>> /\ Valid(file)
  BY <1>1, FilesAssumption DEF IInv, BaseInv, InstallInv, AuditInv, TypeOK
<1>3. Position = 1 /\ Position' = 1
  BY <1>1, <1>2 DEF Position, Removing, Done
<1>4. audit' \in {<<>>, <<InstallRecord>>} /\ (pc' = "serve" => audit' = <<InstallRecord>>)
      /\ (pc' = "rollback" => audit' = <<>>)
  BY <1>1, <1>2
<1>5. TypeOK'
  <2>1. InstallRecord \in [kind : {"installed", "removed"}, count : Nat, failed : Nat]
    BY <1>2 DEF InstallRecord
  <2>2. audit' \in Seq([kind : {"installed", "removed"}, count : Nat, failed : Nat])
    <3>1. audit \in Seq([kind : {"installed", "removed"}, count : Nat, failed : Nat])
      BY DEF IInv, BaseInv, TypeOK
    <3>2. audit' = audit \/ audit' = Append(audit, InstallRecord)
      BY <1>1
    <3>3. \A S : \A x \in S, q \in Seq(S) : Append(q, x) \in Seq(S)
      BY Appended
    <3>4. Append(audit, InstallRecord) \in Seq([kind : {"installed", "removed"}, count : Nat, failed : Nat])
      BY <2>1, <3>1, <3>3, Zenon
    <3> QED
      BY <3>1, <3>2, <3>4
  <2> QED
    BY <1>1, <1>2, <2>2 DEF IInv, BaseInv, TypeOK
<1>6. InstallInv'
  BY <1>1, <1>2 DEF IInv, BaseInv, InstallInv, Removing, Valid
<1>7. LeftInv' /\ CountInv'
  BY <1>1, <1>3 DEF IInv, LeftInv, CountInv, Tried
<1>8. AuditInv' /\ JobInv'
  BY <1>1, <1>2, <1>4 DEF IInv, AuditInv, JobInv, InstallRecord
<1> QED
  BY <1>5, <1>6, <1>7, <1>8 DEF IInv, BaseInv

----------------------------------------------------------------------------
\* A deletion moves the position past the entry it tried, which is gone, refused or
\* misread, and counted for what it is.
LEMMA DeleteStep == ASSUME IInv, DeleteNext PROVE IInv'
<1> USE DEF injector, remover
<1> DEFINE u == installed[next]
<1>1. /\ Removing /\ next <= Len(installed) /\ next' = next + 1
      /\ UNCHANGED <<pc, file, installed, lost, audit, once, caller, focus, injector>>
      /\ \/ /\ store' = [store EXCEPT ![u] = "none"] /\ gone' = gone \cup {u}
            /\ UNCHANGED <<refused, misread, failures>> /\ removed' = removed + 1
         \/ /\ refused' = refused \cup {u} /\ failures' = failures + 1
            /\ UNCHANGED <<store, gone, misread, removed>>
         \/ /\ misread' = misread \cup {u} /\ removed' = removed + 1
            /\ UNCHANGED <<store, gone, refused, failures>>
  BY DEF DeleteNext, Deleted, Refused, Misread
<1>2. /\ installed \in Seq(Targets) /\ Len(installed) \in Nat /\ Len(file) \in Nat
      /\ next \in 1..Len(installed) /\ u \in Targets /\ Len(installed) <= Len(file)
      /\ removed \in Nat /\ failures \in Nat
  BY <1>1, FilesAssumption DEF IInv, BaseInv, InstallInv, TypeOK
<1>3. Position = next /\ Position' = next + 1
  BY <1>1 DEF Position, Removing
<1>4. /\ store' \in [Targets -> {"none", "user", "server"}]
      /\ \A t \in Targets : store'[t] = "server" => store[t] = "server"
      /\ store'[u] = "server" => u \in refused' \cup misread'
      /\ refused \subseteq refused' /\ misread \subseteq misread'
      /\ gone' \subseteq Targets /\ refused' \subseteq Targets /\ misread' \subseteq Targets
      /\ Tried' = Tried \cup {u}
  BY <1>1, <1>2 DEF IInv, BaseInv, TypeOK, Tried
<1>5. TypeOK'
  BY <1>1, <1>2, <1>4 DEF IInv, BaseInv, TypeOK
<1>6. InstallInv'
  <2>1. Removing' /\ next' <= Len(installed) + 1
    BY <1>1, <1>2 DEF Removing
  <2>2. (pc = "rollback" /\ once = "new") \/ (pc = "serve" /\ once = "running")
    BY <1>1 DEF Removing, IInv, BaseInv, InstallInv, TypeOK
  <2> QED
    BY <1>1, <2>1, <2>2 DEF IInv, BaseInv, InstallInv, Valid
<1>7. LeftInv'
  <2> SUFFICES ASSUME NEW t \in Targets, store'[t] = "server", t \notin refused' \cup misread'
               PROVE  \E i \in (next + 1)..Len(installed) : installed[i] = t
    BY <1>1, <1>3 DEF LeftInv
  <2>1. store[t] = "server" /\ t \notin refused \cup misread /\ t # u
    BY <1>4
  <2>2. PICK i \in next..Len(installed) : installed[i] = t
    BY <1>3, <2>1 DEF LeftInv, IInv
  <2>3. i # next
    BY <2>1, <2>2
  <2>4. i \in (next + 1)..Len(installed)
    BY <1>2, <2>3
  <2> QED
    BY <2>2, <2>4
<1>8. CountInv'
  <2>0. /\ IsFiniteSet(gone) /\ IsFiniteSet(refused) /\ IsFiniteSet(misread)
        /\ removed = Cardinality(gone) + Cardinality(misread)
        /\ failures = Cardinality(refused) /\ removed + failures = next - 1
    BY <1>3 DEF CountInv, IInv
  <2>1. u \notin Tried
    <3> SUFFICES ASSUME u \in Tried PROVE FALSE
      OBVIOUS
    <3>1. PICK i \in 1..(next - 1) : installed[i] = u
      BY <1>2, <1>3 DEF CountInv, IInv
    <3>2. i \in 1..Len(installed) /\ next \in 1..Len(installed) /\ i # next
      BY <1>2
    <3> QED
      BY <3>1, <3>2, Distinct DEF IInv
  <2>2. \A S \in {gone, refused, misread} :
            /\ IsFiniteSet(S \cup {u}) /\ Cardinality(S \cup {u}) = Cardinality(S) + 1
            /\ Cardinality(S) \in Nat
    <3> TAKE S \in {gone, refused, misread}
    <3>1. IsFiniteSet(S) /\ u \notin S
      BY <2>0, <2>1 DEF Tried
    <3> QED
      BY <3>1, FS_AddElement, FS_CardinalityType
  <2>3. /\ IsFiniteSet(gone') /\ IsFiniteSet(refused') /\ IsFiniteSet(misread')
        /\ removed' = Cardinality(gone') + Cardinality(misread')
        /\ failures' = Cardinality(refused') /\ removed' + failures' = next
    <3> DEFINE g == Cardinality(gone)
               r == Cardinality(refused)
               m == Cardinality(misread)
    <3>1. /\ IsFiniteSet(gone \cup {u}) /\ Cardinality(gone \cup {u}) = g + 1
          /\ IsFiniteSet(refused \cup {u}) /\ Cardinality(refused \cup {u}) = r + 1
          /\ IsFiniteSet(misread \cup {u}) /\ Cardinality(misread \cup {u}) = m + 1
          /\ g \in Nat /\ r \in Nat /\ m \in Nat
          /\ removed = g + m /\ failures = r
      BY <2>0, <2>2
    <3> HIDE DEF g, r, m
    <3>2. CASE gone' = gone \cup {u} /\ removed' = removed + 1 /\ UNCHANGED <<refused, misread, failures>>
      <4>1. Cardinality(gone') = g + 1 /\ Cardinality(misread') = m /\ Cardinality(refused') = r
        BY <3>1, <3>2 DEF m, r
      <4>2. /\ IsFiniteSet(gone') /\ IsFiniteSet(refused') /\ IsFiniteSet(misread')
        BY <2>0, <3>1, <3>2
      <4>3. removed' = (g + 1) + m /\ failures' = r /\ removed' + failures' = next
        BY <1>2, <2>0, <3>1, <3>2
      <4> QED
        BY <4>1, <4>2, <4>3
    <3>3. CASE refused' = refused \cup {u} /\ failures' = failures + 1 /\ UNCHANGED <<gone, misread, removed>>
      <4>1. Cardinality(gone') = g /\ Cardinality(misread') = m /\ Cardinality(refused') = r + 1
        BY <3>1, <3>3 DEF m, g
      <4>2. /\ IsFiniteSet(gone') /\ IsFiniteSet(refused') /\ IsFiniteSet(misread')
        BY <2>0, <3>1, <3>3
      <4>3. removed' = g + m /\ failures' = r + 1 /\ removed' + failures' = next
        BY <1>2, <2>0, <3>1, <3>3
      <4> QED
        BY <4>1, <4>2, <4>3
    <3>4. CASE misread' = misread \cup {u} /\ removed' = removed + 1 /\ UNCHANGED <<gone, refused, failures>>
      <4>1. Cardinality(gone') = g /\ Cardinality(misread') = m + 1 /\ Cardinality(refused') = r
        BY <3>1, <3>4 DEF r, g
      <4>2. /\ IsFiniteSet(gone') /\ IsFiniteSet(refused') /\ IsFiniteSet(misread')
        BY <2>0, <3>1, <3>4
      <4>3. removed' = g + (m + 1) /\ failures' = r /\ removed' + failures' = next
        BY <1>2, <2>0, <3>1, <3>4
      <4> QED
        BY <4>1, <4>2, <4>3
    <3> QED
      BY <1>1, <3>2, <3>3, <3>4
  <2>4. \A t \in Targets : t \in Tried' <=> \E i \in 1..next : installed[i] = t
    <3> TAKE t \in Targets
    <3>1. t \in Tried <=> \E i \in 1..(next - 1) : installed[i] = t
      BY <1>3 DEF CountInv, IInv
    <3>2. (\E i \in 1..next : installed[i] = t) <=> (\E i \in 1..(next - 1) : installed[i] = t) \/ u = t
      BY <1>2
    <3> QED
      BY <1>4, <3>1, <3>2
  <2>5. Position' - 1 = next /\ installed' = installed
    BY <1>1, <1>2, <1>3
  <2> QED
    BY <2>3, <2>4, <2>5 DEF CountInv
<1>9. AuditInv'
  <2>1. (pc = "rollback" \/ (pc = "serve" /\ once = "running"))
    BY <1>1 DEF Removing, IInv, BaseInv, InstallInv
  <2> QED
    BY <1>1, <2>1 DEF IInv, AuditInv, InstallRecord
<1>10. JobInv'
  BY <1>1 DEF IInv, JobInv
<1> QED
  BY <1>5, <1>6, <1>7, <1>8, <1>9, <1>10 DEF IInv, BaseInv

\* When the loop has run through, nothing is left to be tried.
LEMMA RemovedStep == ASSUME IInv, Removed PROVE IInv'
<1> USE DEF injector, remover, outcomes
<1>1. /\ Removing /\ next > Len(installed)
      /\ audit' = IF installed = <<>> THEN audit ELSE Append(audit, RemovalRecord)
      /\ pc' = IF pc = "rollback" THEN "failed" ELSE pc
      /\ once' = IF pc = "rollback" THEN once ELSE "done"
      /\ UNCHANGED <<file, next, installed, store, lost, outcomes, caller, focus, injector>>
  BY DEF Removed, RemovalRecord
<1>2. \/ pc = "rollback" /\ once = "new" /\ pc' = "failed" /\ once' = "new"
      \/ pc = "serve" /\ once = "running" /\ pc' = "serve" /\ once' = "done"
  BY <1>1 DEF Removing, IInv, BaseInv, InstallInv, TypeOK
<1>3. /\ installed \in Seq(Targets) /\ Len(installed) \in Nat /\ next = Len(installed) + 1
      /\ Len(file) \in Nat
  BY <1>1, FilesAssumption DEF IInv, BaseInv, InstallInv, TypeOK
<1>4. Position = next /\ Position' = next
  BY <1>1, <1>2, <1>3 DEF Position, Removing, Done
<1>5. RemovalRecord \in [kind : {"installed", "removed"}, count : Nat, failed : Nat]
  BY DEF IInv, BaseInv, TypeOK, RemovalRecord
<1>6. TypeOK'
  <2>1. audit' \in Seq([kind : {"installed", "removed"}, count : Nat, failed : Nat])
    BY <1>1, <1>5, Appended DEF IInv, BaseInv, TypeOK
  <2>2. pc' \in {"failed", "serve"} /\ once' \in {"new", "done"}
    BY <1>2
  <2> QED
    BY <1>1, <2>1, <2>2 DEF IInv, BaseInv, TypeOK
<1>7. InstallInv'
  <2>1. ~Removing'
    BY <1>2 DEF Removing
  <2> QED
    BY <1>1, <1>2, <2>1 DEF IInv, BaseInv, InstallInv, Valid
<1>8. LeftInv' /\ CountInv'
  BY <1>1, <1>4 DEF IInv, LeftInv, CountInv, Tried
<1>9. AuditInv'
  <2>1. CASE pc = "rollback"
    <3>1. audit = <<>> /\ pc' = "failed" /\ RemovalRecord' = RemovalRecord
      BY <1>1, <1>2, <2>1 DEF IInv, AuditInv, RemovalRecord
    <3>2. audit' \in {<<>>, <<RemovalRecord>>}
      BY <1>1, <3>1
    <3> QED
      BY <3>1, <3>2 DEF AuditInv
  <2>2. CASE pc = "serve"
    <3>1. /\ audit = <<InstallRecord>> /\ pc' = "serve" /\ once' = "done"
          /\ RemovalRecord' = RemovalRecord /\ InstallRecord' = InstallRecord
      BY <1>1, <1>2, <2>2 DEF IInv, AuditInv, RemovalRecord, InstallRecord
    <3>2. installed # <<>>
      <4>1. file # <<>> /\ Len(installed) = Len(file)
        BY <2>2 DEF IInv, BaseInv, InstallInv, Valid
      <4>2. file \in Seq(Entry)
        BY FilesAssumption DEF IInv, BaseInv, TypeOK
      <4> QED
        BY <1>3, <4>1, <4>2
    <3>3. audit' = <<InstallRecord, RemovalRecord>>
      BY <1>1, <3>1, <3>2, AppendedToOne
    <3> QED
      BY <3>1, <3>3 DEF AuditInv
  <2> QED
    BY <1>2, <2>1, <2>2
<1>10. JobInv'
  BY <1>1 DEF IInv, JobInv
<1> QED
  BY <1>6, <1>7, <1>8, <1>9, <1>10 DEF IInv, BaseInv

\* The remover is entered once, and its callers return when it is done.
LEMMA CallerStep ==
    ASSUME IInv,
           EnterRemover \/ \E c \in Callers : CallRemover(c) \/ ReturnFromRemover(c)
    PROVE  IInv'
<1> USE DEF injector, remover, outcomes, provision
<1>1. /\ UNCHANGED <<pc, file, next, installed, store, lost, outcomes, audit, focus, injector>>
      /\ once' \in {once, "running"}
      /\ once' # once => once = "new" /\ caller' = caller /\ \E c \in Callers : caller[c] = "calling"
      /\ caller' \in [Callers -> {"idle", "calling", "returned"}]
      /\ \A c \in Callers : /\ caller'[c] # "idle" => pc = "serve"
                            /\ caller'[c] = "returned" => once = "done"
  BY DEF EnterRemover, CallRemover, ReturnFromRemover, IInv, BaseInv, InstallInv, TypeOK
<1>2. TypeOK'
  BY <1>1 DEF IInv, BaseInv, TypeOK
<1>3. once' # once => pc = "serve" /\ once = "new" /\ next = 1
  BY <1>1 DEF IInv, BaseInv, InstallInv
<1>4. Position' = Position
  BY <1>1, <1>3 DEF Position, Removing, Done
<1>5. InstallInv'
  <2>1. CASE once' = once
    BY <1>1, <2>1 DEF IInv, BaseInv, InstallInv, Removing, Valid
  <2>2. CASE once' # once
    <3>1. Len(installed) \in Nat /\ next' <= Len(installed) + 1 /\ once' = "running"
      BY <1>1, <1>3, <2>2 DEF IInv, BaseInv, TypeOK
    <3> QED
      BY <1>1, <1>3, <2>2, <3>1 DEF IInv, BaseInv, InstallInv, Valid
  <2> QED
    BY <2>1, <2>2
<1>6. LeftInv' /\ CountInv'
  BY <1>1, <1>4 DEF IInv, LeftInv, CountInv, Tried
<1>7. AuditInv' /\ JobInv'
  BY <1>1, <1>3 DEF IInv, AuditInv, JobInv, InstallRecord, RemovalRecord
<1> QED
  BY <1>2, <1>5, <1>6, <1>7 DEF IInv, BaseInv

\* A stuttering step keeps it.
LEMMA StutterStep == IInv /\ UNCHANGED vars => IInv'
<1> SUFFICES ASSUME IInv, UNCHANGED vars PROVE IInv'
  OBVIOUS
<1>1. JobInv' /\ TypeOK'
  BY DEF vars, provision, remover, outcomes, injector, IInv, BaseInv, JobInv, TypeOK
<1> QED
  BY <1>1, Untouched DEF vars, provision

----------------------------------------------------------------------------
\* The inductive invariant: how much is installed, what the removal has left, what
\* the records say, and where an injection's keystrokes go.
THEOREM Invariance == Spec => []IInv
<1>1. IInv /\ [Next]_vars => IInv'
  BY LoadStep, WriteStep, EndInstallStep, DeleteStep, RemovedStep, CallerStep, InjectStep,
     UserStep, StutterStep DEF Next, Provision, Removal, User
<1> QED
  BY <1>1, InitHolds, PTL DEF Spec

\* The state stays of its types.
THEOREM TypeCorrect == Spec => []TypeOK
<1>1. IInv => TypeOK
  BY DEF IInv, BaseInv
<1> QED
  BY <1>1, Invariance, PTL

\* Nothing this server wrote is left when provisioning has failed or a remover has
\* returned, except where the Credential Manager refused.
THEOREM NothingIsLeft == Spec => []NothingLeftInstalled
<1>1. IInv => NothingLeftInstalled
  <2> SUFFICES ASSUME IInv, NEW t \in Targets, store[t] = "server",
                      Done \/ \E c \in Callers : caller[c] = "returned"
               PROVE  t \in refused \cup misread
    BY DEF NothingLeftInstalled
  <2>1. Done
    BY DEF IInv, BaseInv, InstallInv, Done
  <2>2. ~Removing
    BY <2>1 DEF IInv, BaseInv, InstallInv, Done, Removing, TypeOK
  <2>3. Position = Len(installed) + 1 /\ Len(installed) \in Nat
    BY <2>1, <2>2 DEF Position, IInv, BaseInv, TypeOK
  <2> QED
    BY <2>3 DEF IInv, LeftInv
<1> QED
  BY <1>1, Invariance, PTL

\* The audit records account for every credential, whoever removes them and
\* whichever deletions fail: what a removal counts is what is gone and what could
\* not be read.
THEOREM AuditIsTrue == Spec => []AuditAccounts
<1>1. IInv => AuditAccounts
  <2> SUFFICES ASSUME IInv PROVE AuditAccounts
    OBVIOUS
  <2>0. /\ InstallRecord.kind = "installed" /\ RemovalRecord.kind = "removed"
        /\ RemovalRecord.count = removed /\ RemovalRecord.failed = failures
    BY DEF InstallRecord, RemovalRecord
  <2>1. Done => /\ removed = Cardinality(gone) + Cardinality(misread)
                /\ failures = Cardinality(refused) /\ removed + failures = Len(installed)
    <3> SUFFICES ASSUME Done PROVE removed + failures = Len(installed)
      BY DEF IInv, CountInv
    <3>1. Position = Len(installed) + 1 /\ Len(installed) \in Nat
      BY DEF Position, Removing, Done, IInv, BaseInv, InstallInv, TypeOK
    <3>2. removed + failures = Position - 1
      BY DEF IInv, CountInv
    <3> QED
      BY <3>1, <3>2
  <2>2. CASE pc \in {"load", "install", "rollback"}
    <3>1. audit = <<>> /\ once # "done"
      BY <2>2 DEF IInv, BaseInv, InstallInv, AuditInv, TypeOK
    <3> QED
      BY <2>2, <3>1 DEF AuditAccounts
  <2>3. CASE pc = "failed"
    <3>1. audit \in {<<>>, <<RemovalRecord>>} /\ once # "done"
      BY <2>3 DEF IInv, BaseInv, InstallInv, AuditInv, TypeOK
    <3> QED
      BY <2>0, <2>1, <2>3, <3>1 DEF AuditAccounts, Done
  <2>4. CASE pc = "serve" /\ once # "done"
    <3>1. audit = <<InstallRecord>>
      BY <2>4 DEF IInv, AuditInv
    <3> QED
      BY <2>0, <2>4, <3>1 DEF AuditAccounts
  <2>5. CASE pc = "serve" /\ once = "done"
    <3>1. audit = <<InstallRecord, RemovalRecord>>
      BY <2>5 DEF IInv, AuditInv
    <3> QED
      BY <2>0, <2>1, <2>5, <3>1 DEF AuditAccounts, Done
  <2> QED
    BY <2>2, <2>3, <2>4, <2>5 DEF IInv, BaseInv, TypeOK
<1> QED
  BY <1>1, Invariance, PTL

\* Without the opt-out no keystroke lands in a control that does not mask it,
\* unless the focus has moved since it was checked.
THEOREM KeystrokesLandWhereConfirmed == Spec => []LandsWhereConfirmed
<1>1. IInv => LandsWhereConfirmed
  BY DEF IInv, JobInv, LandsWhereConfirmed, NoJob
<1> QED
  BY <1>1, Invariance, PTL
=============================================================================
