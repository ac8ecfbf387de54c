--------------------------- MODULE SessionProofs ----------------------------
(***************************************************************************)
(* Proofs about Session, for every set of start-up configurations.         *)
(***************************************************************************)
EXTENDS Session, TLAPS

BeforeProvision == {"policy", "audit", "engine", "admission", "surface", "provision"}

\* Nothing that could remove credentials exists before they are provisioned.
NobodyRemovesEarly ==
    pc \in BeforeProvision =>
        /\ once["creds"] = "new" /\ "cleanupCreds" \notin pending
        /\ \A l \in Stops : ladder[l] = "idle"
        /\ servant = "none" /\ rung = "none" /\ ~monitor
        /\ creds = "absent" /\ removals = 0

\* The cleanup defer stays registered as long as there is something to remove.
CleanupIsPending ==
    /\ creds = "present" => "cleanupCreds" \in pending /\ removals = 0
    /\ once["creds"] = "done" => creds # "present"
    /\ removals <= 1
    /\ ~Alive => pending = {}

CredInv == NobodyRemovesEarly /\ CleanupIsPending

\* The ladder's steps leave their marks behind.
LadderInv ==
    /\ pc \in BeforeProvision => once["engine"] = "new"
    /\ once["engine"] = "done" => engine = "closed"
    /\ ladder["trip"] \notin {"idle", "alert"} => banner
    /\ ladder["trip"] \in {"suspend", "engine", "shutdown", "abort", "done"} =>
           once["creds"] = "done"
    /\ ladder["trip"] \in {"shutdown", "abort", "done"} => once["engine"] = "done"
    /\ poweroff => ladder["trip"] \in {"abort", "done"}

\* The chain is open from the second stage until the last defer has run.
ChainInv ==
    /\ pc \in {"policy", "audit"} =>
           chain = "none" /\ pending = {} /\ trail = {} /\ engine = "none"
    /\ pc \in StartPoints \ {"policy", "audit"} => chain = "open"
    /\ chain = "closed" => pending = {} /\ pc \in {"unwind", "exited"}
    /\ chain = "none" => "installed" \notin trail
    /\ engine = "up" => "closeEngine" \in pending
    /\ "installed" \in trail => creds = "present" \/ "removed" \in trail
    /\ creds = "present" => chain = "open"
    /\ bundle.sealed => chain = "closed" /\ bundle.final /\ bundle.settled

Standing == {"bare", "held"}
AfterArming == {"status", "install", "register", "monitor", "serve"}

\* Where each layer of containment is undone: the executor's isolation by a
\* defer that is registered before it can be applied, the harness's layers by
\* defers above it, and the local egress state by one below it.
FirewallInv ==
    /\ pc \in AfterArming => "restoreExecutor" \in pending
    /\ restored => pc \in {"unwind", "exited"} /\ "restoreExecutor" \notin pending
    /\ monitor /\ ~restored => pc \in AfterArming \/ "restoreExecutor" \in pending
    /\ monitor => pc \in {"serve", "unwind", "exited"}
    /\ ladder["trip"] # "idle" => monitor
    /\ isolated = "before" => monitor /\ ~restored
    /\ servant = "none" => \A r \in Layers : layer[r] = "off"
    /\ "restoreExecutor" \in pending =>
           /\ servant = "serving" => "closeServant" \in pending
           /\ layer["isolate"] \in Standing \/ servant = "serving" =>
                  "restoreHarness" \in pending
           /\ layer["rules"] \in Standing \/ servant = "serving" =>
                  "restoreHarnessEgress" \in pending
    /\ restored => servant # "serving" /\ \A r \in Layers : layer[r] \notin Standing
    /\ "cleanupEgress" \in pending =>
           pc = "executor" \/ restored \/ "restoreExecutor" \in pending
    /\ pc \in StartPoints \ AfterArming => "restoreExecutor" \notin pending
    /\ "restoreExecutor" \in pending => pc \in AfterArming \cup {"unwind"}

\* What start-up has established, stage by stage.
SurfaceInv ==
    /\ pc \in BeforeProvision \cup {"attach"} => servant = "none"
    /\ token => cfg.harness # "none"
    /\ pc \in {"egress", "executor"} \cup AfterArming =>
           ~token /\ (servant = "none" <=> cfg.harness = "none")
    /\ pc \in {"register", "monitor", "serve"} =>
           ~secrets /\ guard = IF cfg.harness = "enforce" THEN "harness" ELSE "local"
    /\ pc \in {"monitor", "serve"} => (pinned <=> cfg.harness # "enforce")
    /\ pc = "serve" => monitor
(***************************************************************************)
(* What a step is, and which steps may change what.                        *)
(***************************************************************************)
\* A step is one of the actions, or changes nothing.
LEMMA Actions ==
    ASSUME [Next]_vars
    PROVE
        \/ LoadPolicy \/ OpenAudit \/ StartEngine \/ Admission \/ ResolveSurface
        \/ ProvisionCredentials \/ AttachHarness \/ ProvisionEgress \/ ArmExecutor
        \/ ResolveStatusToken \/ InstallReceiving \/ RegisterSurface \/ StartMonitor
        \/ Finish \/ PopQuietly \/ CloseServant \/ RestoreHarness
        \/ RestoreHarnessEgress \/ RestoreExecutor \/ CleanupEgress \/ CancelRunCtx
        \/ PopOnce \/ SealAudit \/ Exit \/ RemoveCredentials \/ CloseDesktop \/ Trip
        \/ StopGracefully \/ RaiseBanner \/ Isolate \/ ShutDownMachine \/ RungBanner
        \/ RungRestoresEgress \/ RungReturns \/ ChannelLost \/ Interrupt
        \/ \E r \in Layers : RungApplies(r) \/ RungHandsOver(r)
        \/ \E o \in Onces : EnterOnce(o) \/ RungCalls(o)
        \/ \E l \in Stops : \/ FinalizeCreds(l) \/ SuspendEgress(l) \/ FinalizeEngine(l)
                            \/ Abort(l) \/ AbortFires(l)
        \/ UNCHANGED vars
    BY DEF Next, Main, StartUp, RunCancelled, ClientDisconnects, Unwind, Guarded, Ladder,
           Harness, Stopped

\* The steps that may change each group of variables.
LEMMA SessionChanges ==
    ASSUME [Next]_vars
    PROVE  \/ LoadPolicy \/ OpenAudit \/ StartEngine \/ Admission \/ ResolveSurface
          \/ ProvisionCredentials \/ AttachHarness \/ ProvisionEgress
          \/ ArmExecutor \/ ResolveStatusToken \/ InstallReceiving
          \/ RegisterSurface \/ StartMonitor \/ Finish \/ PopQuietly
          \/ CloseServant \/ RestoreHarness \/ RestoreHarnessEgress
          \/ RestoreExecutor \/ CleanupEgress \/ CancelRunCtx \/ PopOnce
          \/ SealAudit \/ Exit \/ (\E l \in Stops : AbortFires(l)) \/ ChannelLost
          \/ Interrupt \/ UNCHANGED session
    BY Actions DEF
       vars, Abort, CloseDesktop, EnterOnce, FinalizeCreds, FinalizeEngine, Isolate,
       RaiseBanner, RemoveCredentials, RungBanner, RungCalls, RungApplies,
       RungHandsOver, RungRestoresEgress, RungReturns, ShutDownMachine, StopGracefully,
       SuspendEgress, Trip

\* The actions that change the audit chain, the engine and the bundle.
LEMMA ForensicChanges ==
    ASSUME [Next]_vars
    PROVE  \/ OpenAudit \/ StartEngine \/ Admission \/ ResolveSurface
          \/ ProvisionCredentials \/ AttachHarness \/ RegisterSurface \/ Finish
          \/ SealAudit \/ RemoveCredentials \/ CloseDesktop \/ Trip
          \/ StopGracefully \/ RaiseBanner \/ RungBanner \/ UNCHANGED forensic
    BY Actions DEF
       vars, Abort, AbortFires, ArmExecutor, CancelRunCtx, ChannelLost, CleanupEgress,
       CloseServant, EnterOnce, Exit, FinalizeCreds, FinalizeEngine, InstallReceiving,
       Interrupt, Isolate, LoadPolicy, PopOnce, PopQuietly, ProvisionEgress,
       ResolveStatusToken, RestoreExecutor, RestoreHarness, RestoreHarnessEgress,
       RungCalls, RungApplies, RungHandsOver, RungRestoresEgress, RungReturns,
       ShutDownMachine, StartMonitor, SuspendEgress

\* The actions that change the credentials.
LEMMA CredChanges ==
    ASSUME [Next]_vars
    PROVE  \/ ProvisionCredentials \/ (\E o \in Onces : EnterOnce(o))
          \/ RemoveCredentials \/ CloseDesktop \/ UNCHANGED cred
    BY Actions DEF
       vars, Abort, AbortFires, Admission, ArmExecutor, AttachHarness, CancelRunCtx,
       ChannelLost, CleanupEgress, CloseServant, Exit, FinalizeCreds, FinalizeEngine,
       Finish, InstallReceiving, Interrupt, Isolate, LoadPolicy, OpenAudit, PopOnce,
       PopQuietly, ProvisionEgress, RaiseBanner, RegisterSurface, ResolveStatusToken,
       ResolveSurface, RestoreExecutor, RestoreHarness, RestoreHarnessEgress,
       RungBanner, RungCalls, RungApplies, RungHandsOver, RungRestoresEgress,
       RungReturns, SealAudit, ShutDownMachine, StartEngine, StartMonitor,
       StopGracefully, SuspendEgress, Trip

\* The actions that change the firewall and egress rules.
LEMMA NetworkChanges ==
    ASSUME [Next]_vars
    PROVE  \/ ProvisionEgress \/ RestoreHarness \/ RestoreHarnessEgress
          \/ RestoreExecutor \/ CleanupEgress \/ Isolate
          \/ (\E l \in Stops : SuspendEgress(l)) \/ RungRestoresEgress
          \/ (\E r \in Layers : RungApplies(r) \/ RungHandsOver(r))
          \/ UNCHANGED network
    BY Actions DEF
       vars, Abort, AbortFires, Admission, ArmExecutor, AttachHarness, CancelRunCtx,
       ChannelLost, CloseDesktop, CloseServant, EnterOnce, Exit, FinalizeCreds,
       FinalizeEngine, Finish, InstallReceiving, Interrupt, LoadPolicy, OpenAudit,
       PopOnce, PopQuietly, ProvisionCredentials, RaiseBanner, RegisterSurface,
       RemoveCredentials, ResolveStatusToken, ResolveSurface, RungBanner, RungCalls,
       RungReturns, SealAudit, ShutDownMachine, StartEngine, StartMonitor,
       StopGracefully, Trip

\* The actions that change the channel to the harness.
LEMMA LinkChanges ==
    ASSUME [Next]_vars
    PROVE  \/ AttachHarness \/ CloseServant \/ (\E o \in Onces : RungCalls(o))
          \/ (\E r \in Layers : RungApplies(r) \/ RungHandsOver(r))
          \/ RungReturns \/ ChannelLost \/ UNCHANGED link
    BY Actions DEF
       vars, Abort, AbortFires, Admission, ArmExecutor, CancelRunCtx, CleanupEgress,
       CloseDesktop, EnterOnce, Exit, FinalizeCreds, FinalizeEngine, Finish,
       InstallReceiving, Interrupt, Isolate, LoadPolicy, OpenAudit, PopOnce, PopQuietly,
       ProvisionCredentials, ProvisionEgress, RaiseBanner, RegisterSurface,
       RemoveCredentials, ResolveStatusToken, ResolveSurface, RestoreExecutor,
       RestoreHarness, RestoreHarnessEgress, RungBanner, RungApplies, RungHandsOver,
       RungRestoresEgress, SealAudit, ShutDownMachine, StartEngine, StartMonitor,
       StopGracefully, SuspendEgress, Trip

\* The actions that change the served surface.
LEMMA SurfaceChanges ==
    ASSUME [Next]_vars
    PROVE  \/ AttachHarness \/ InstallReceiving \/ RegisterSurface \/ StartMonitor
          \/ UNCHANGED surface
    BY Actions DEF
       vars, Abort, AbortFires, Admission, ArmExecutor, CancelRunCtx, ChannelLost,
       CleanupEgress, CloseDesktop, CloseServant, EnterOnce, Exit, FinalizeCreds,
       FinalizeEngine, Finish, Interrupt, Isolate, LoadPolicy, OpenAudit, PopOnce,
       PopQuietly, ProvisionCredentials, ProvisionEgress, RaiseBanner,
       RemoveCredentials, ResolveStatusToken, ResolveSurface, RestoreExecutor,
       RestoreHarness, RestoreHarnessEgress, RungBanner, RungCalls, RungApplies,
       RungHandsOver, RungRestoresEgress, RungReturns, SealAudit, ShutDownMachine,
       StartEngine, StopGracefully, SuspendEgress, Trip

\* The actions that change the ladder and its timers.
LEMMA StoppingChanges ==
    ASSUME [Next]_vars
    PROVE  \/ Trip \/ StopGracefully \/ RaiseBanner \/ Isolate \/ ShutDownMachine
          \/ (\E l \in Stops : FinalizeCreds(l))
          \/ (\E l \in Stops : SuspendEgress(l))
          \/ (\E l \in Stops : FinalizeEngine(l)) \/ (\E l \in Stops : Abort(l))
          \/ (\E l \in Stops : AbortFires(l)) \/ UNCHANGED stopping
    BY Actions DEF
       vars, Admission, ArmExecutor, AttachHarness, CancelRunCtx, ChannelLost,
       CleanupEgress, CloseDesktop, CloseServant, EnterOnce, Exit, Finish,
       InstallReceiving, Interrupt, LoadPolicy, OpenAudit, PopOnce, PopQuietly,
       ProvisionCredentials, ProvisionEgress, RegisterSurface, RemoveCredentials,
       ResolveStatusToken, ResolveSurface, RestoreExecutor, RestoreHarness,
       RestoreHarnessEgress, RungBanner, RungCalls, RungApplies, RungHandsOver,
       RungRestoresEgress, RungReturns, SealAudit, StartEngine, StartMonitor

----------------------------------------------------------------------------
(***************************************************************************)
(* Type correctness.                                                       *)
(***************************************************************************)
\* Each group of variables keeps its types.
LEMMA SessionTyped ==
    ASSUME TypeOK, [Next]_vars
    PROVE  TypeSession'
<1> USE DEF TypeOK, TypeSession, StartPoints, Causes, Defers
<1>1. CASE LoadPolicy
  BY <1>1 DEF LoadPolicy, Goto, Return
<1>2. CASE OpenAudit
  BY <1>2 DEF OpenAudit, Goto, Return
<1>3. CASE StartEngine
  BY <1>3 DEF StartEngine, Goto, Return
<1>4. CASE Admission
  BY <1>4 DEF Admission, Goto, Return
<1>5. CASE ResolveSurface
  BY <1>5 DEF ResolveSurface, Goto, Return
<1>6. CASE ProvisionCredentials
  BY <1>6 DEF ProvisionCredentials, Goto, Return
<1>7. CASE AttachHarness
  BY <1>7 DEF AttachHarness, Goto, Return
<1>8. CASE ProvisionEgress
  BY <1>8 DEF ProvisionEgress, Goto, Return
<1>9. CASE ArmExecutor
  BY <1>9 DEF ArmExecutor, Goto
<1>10. CASE ResolveStatusToken
  BY <1>10 DEF ResolveStatusToken, Goto, Return
<1>11. CASE InstallReceiving
  BY <1>11 DEF InstallReceiving, Goto
<1>12. CASE RegisterSurface
  BY <1>12 DEF RegisterSurface, Goto
<1>13. CASE StartMonitor
  BY <1>13 DEF StartMonitor, Goto
<1>14. CASE Finish
  BY <1>14 DEF Finish, Return, Tripped
<1>15. CASE PopQuietly
  BY <1>15 DEF PopQuietly, Pop
<1>16. CASE CloseServant
  BY <1>16 DEF CloseServant, Pop
<1>17. CASE RestoreHarness
  BY <1>17 DEF RestoreHarness, Pop
<1>18. CASE RestoreHarnessEgress
  BY <1>18 DEF RestoreHarnessEgress, Pop
<1>19. CASE RestoreExecutor
  BY <1>19 DEF RestoreExecutor, Pop
<1>20. CASE CleanupEgress
  BY <1>20 DEF CleanupEgress, Pop
<1>21. CASE CancelRunCtx
  BY <1>21 DEF CancelRunCtx, CancelRun, Pop
<1>22. CASE PopOnce
  BY <1>22 DEF PopOnce, Pop
<1>23. CASE SealAudit
  BY <1>23 DEF SealAudit, Pop
<1>24. CASE Exit
  BY <1>24 DEF Exit
<1>25. ASSUME NEW l \in Stops, AbortFires(l) PROVE TypeSession'
  BY <1>25 DEF AbortFires, CancelRun
<1>26. CASE ChannelLost
  BY <1>26 DEF ChannelLost, CancelRun
<1>27. CASE Interrupt
  BY <1>27 DEF Interrupt, CancelRun
<1>28. CASE UNCHANGED session
  BY <1>28 DEF session
<1>q. QED
  BY <1>1, <1>2, <1>3, <1>4, <1>5, <1>6, <1>7, <1>8, <1>9, <1>10, <1>11, <1>12,
     <1>13, <1>14, <1>15, <1>16, <1>17, <1>18, <1>19, <1>20, <1>21, <1>22, <1>23,
     <1>24, <1>25, <1>26, <1>27, <1>28, SessionChanges

\* The variables of the audit chain, the engine and the bundle keep their types.
LEMMA ForensicTyped ==
    ASSUME TypeOK, [Next]_vars
    PROVE  TypeForensic'
<1> USE DEF TypeOK, TypeForensic, Entries
<1>1. CASE OpenAudit
  BY <1>1 DEF OpenAudit
<1>2. CASE StartEngine
  BY <1>2 DEF StartEngine
<1>3. CASE Admission
  BY <1>3 DEF Admission, Log
<1>4. CASE ResolveSurface
  BY <1>4 DEF ResolveSurface, Log
<1>5. CASE ProvisionCredentials
  BY <1>5 DEF ProvisionCredentials, Log, RemoveInstalled
<1>6. CASE AttachHarness
  BY <1>6 DEF AttachHarness, Log
<1>7. CASE RegisterSurface
  BY <1>7 DEF RegisterSurface, Log
<1>8. CASE Finish
  <2>1. cfg.evidence \in BOOLEAN
    BY ConfigsAssumption DEF TypeSession, ConfigType
  <2>q. QED
    BY <1>8, <2>1 DEF Finish
<1>9. CASE SealAudit
  BY <1>9 DEF SealAudit
<1>10. CASE RemoveCredentials
  BY <1>10 DEF RemoveCredentials, Log, RemoveInstalled
<1>11. CASE CloseDesktop
  BY <1>11 DEF CloseDesktop
<1>12. CASE Trip
  BY <1>12 DEF Trip, Log
<1>13. CASE StopGracefully
  BY <1>13 DEF StopGracefully, Log
<1>14. CASE RaiseBanner
  BY <1>14 DEF RaiseBanner
<1>15. CASE RungBanner
  BY <1>15 DEF RungBanner
<1>16. CASE UNCHANGED forensic
  BY <1>16 DEF forensic
<1>q. QED
  BY <1>1, <1>2, <1>3, <1>4, <1>5, <1>6, <1>7, <1>8, <1>9, <1>10, <1>11, <1>12,
     <1>13, <1>14, <1>15, <1>16, ForensicChanges

\* The variables of the credentials keep their types.
LEMMA CredTyped ==
    ASSUME TypeOK, [Next]_vars
    PROVE  TypeCred'
<1> USE DEF TypeOK, TypeCred, Onces
<1>1. CASE ProvisionCredentials
  BY <1>1 DEF ProvisionCredentials, RemoveInstalled
<1>2. ASSUME NEW o \in Onces, EnterOnce(o) PROVE TypeCred'
  BY <1>2 DEF EnterOnce
<1>3. CASE RemoveCredentials
  BY <1>3 DEF RemoveCredentials, RemoveInstalled
<1>4. CASE CloseDesktop
  BY <1>4 DEF CloseDesktop
<1>5. CASE UNCHANGED cred
  BY <1>5 DEF cred
<1>q. QED
  BY <1>1, <1>2, <1>3, <1>4, <1>5, CredChanges

\* The variables of the firewall and egress rules keep their types.
LEMMA NetworkTyped ==
    ASSUME TypeOK, [Next]_vars
    PROVE  TypeNetwork'
<1> USE DEF TypeOK, TypeNetwork
<1>1. CASE ProvisionEgress
  BY <1>1 DEF ProvisionEgress
<1>2. CASE RestoreHarness
  BY <1>2 DEF RestoreHarness, Undo
<1>3. CASE RestoreHarnessEgress
  BY <1>3 DEF RestoreHarnessEgress, Undo
<1>4. CASE RestoreExecutor
  BY <1>4 DEF RestoreExecutor
<1>5. CASE CleanupEgress
  BY <1>5 DEF CleanupEgress
<1>6. CASE Isolate
  BY <1>6 DEF Isolate
<1>7. ASSUME NEW l \in Stops, SuspendEgress(l) PROVE TypeNetwork'
  BY <1>7 DEF SuspendEgress
<1>8. CASE RungRestoresEgress
  BY <1>8 DEF RungRestoresEgress
<1>10. ASSUME NEW r \in Layers, RungApplies(r) \/ RungHandsOver(r) PROVE TypeNetwork'
  BY <1>10 DEF RungApplies, RungHandsOver
<1>9. CASE UNCHANGED network
  BY <1>9 DEF network
<1>q. QED
  BY <1>1, <1>2, <1>3, <1>4, <1>5, <1>6, <1>7, <1>8, <1>9, <1>10, NetworkChanges

\* The variables of the channel to the harness keep their types.
LEMMA LinkTyped ==
    ASSUME TypeOK, [Next]_vars
    PROVE  TypeLink'
<1> USE DEF TypeOK, TypeLink, Onces
<1>1. CASE AttachHarness
  BY <1>1 DEF AttachHarness
<1>2. CASE CloseServant
  BY <1>2 DEF CloseServant
<1>3. ASSUME NEW o \in Onces, RungCalls(o) PROVE TypeLink'
  BY <1>3 DEF RungCalls
<1>4. CASE RungReturns
  BY <1>4 DEF RungReturns
<1>5. CASE ChannelLost
  BY <1>5 DEF ChannelLost
<1>6. CASE UNCHANGED link
  BY <1>6 DEF link
<1>7. ASSUME NEW r \in Layers, RungApplies(r) \/ RungHandsOver(r) PROVE TypeLink'
  BY <1>7 DEF RungApplies, RungHandsOver
<1>q. QED
  BY <1>1, <1>2, <1>3, <1>4, <1>5, <1>6, <1>7, LinkChanges

\* The variables of the served surface keep their types.
LEMMA SurfaceTyped ==
    ASSUME TypeOK, [Next]_vars
    PROVE  TypeSurface'
<1> USE DEF TypeOK, TypeSurface
<1>1. CASE AttachHarness
  BY <1>1 DEF AttachHarness
<1>2. CASE InstallReceiving
  BY <1>2 DEF InstallReceiving
<1>3. CASE RegisterSurface
  BY <1>3 DEF RegisterSurface
<1>4. CASE StartMonitor
  BY <1>4 DEF StartMonitor
<1>5. CASE UNCHANGED surface
  BY <1>5 DEF surface
<1>q. QED
  BY <1>1, <1>2, <1>3, <1>4, <1>5, SurfaceChanges

\* The variables of the ladder and its timers keep their types.
LEMMA StoppingTyped ==
    ASSUME TypeOK, [Next]_vars
    PROVE  TypeStopping'
<1> USE DEF TypeOK, TypeStopping, Steps, Stops
<1>1. CASE Trip
  BY <1>1 DEF Trip, Advance
<1>2. CASE StopGracefully
  BY <1>2 DEF StopGracefully, Advance
<1>3. CASE RaiseBanner
  BY <1>3 DEF RaiseBanner, Advance
<1>4. CASE Isolate
  BY <1>4 DEF Isolate, Advance
<1>5. CASE ShutDownMachine
  BY <1>5 DEF ShutDownMachine, Advance
<1>6. ASSUME NEW l \in Stops, FinalizeCreds(l) PROVE TypeStopping'
  BY <1>6 DEF FinalizeCreds, Advance
<1>7. ASSUME NEW l \in Stops, SuspendEgress(l) PROVE TypeStopping'
  BY <1>7 DEF SuspendEgress, Advance
<1>8. ASSUME NEW l \in Stops, FinalizeEngine(l) PROVE TypeStopping'
  BY <1>8 DEF FinalizeEngine, Advance
<1>9. ASSUME NEW l \in Stops, Abort(l) PROVE TypeStopping'
  BY <1>9 DEF Abort, Advance
<1>10. ASSUME NEW l \in Stops, AbortFires(l) PROVE TypeStopping'
  BY <1>10 DEF AbortFires
<1>11. CASE UNCHANGED stopping
  BY <1>11 DEF stopping
<1>q. QED
  BY <1>1, <1>2, <1>3, <1>4, <1>5, <1>6, <1>7, <1>8, <1>9, <1>10, <1>11, StoppingChanges

\* The initial states are typed.
LEMMA InitTyped ==
    ASSUME Init
    PROVE  TypeOK
<1>1. TypeSession /\ TypeForensic
  BY DEF Init, TypeSession, TypeForensic, StartPoints, Causes
<1>2. TypeCred
  BY DEF Init, TypeCred
<1>3. TypeNetwork /\ TypeLink
  BY DEF Init, TypeNetwork, TypeLink
<1>4. TypeSurface
  BY DEF Init, TypeSurface
<1>5. TypeStopping
  BY DEF Init, TypeStopping, Steps
<1>q. QED
  BY <1>1, <1>2, <1>3, <1>4, <1>5 DEF TypeOK

\* Every step keeps the types.
LEMMA TypedStep ==
    ASSUME TypeOK, [Next]_vars
    PROVE  TypeOK'
    BY SessionTyped, ForensicTyped, CredTyped, NetworkTyped, LinkTyped, SurfaceTyped,
       StoppingTyped DEF TypeOK

\* Every variable keeps its type.
THEOREM TypeCorrect == Spec => []TypeOK
  BY InitTyped, TypedStep, PTL DEF Spec

----------------------------------------------------------------------------
(***************************************************************************)
(* Each part of the invariant is preserved by every step.                  *)
(***************************************************************************)
\* Rank orders the unwind: the evidence seal comes last.
LEMMA SealIsLast ==
    ASSUME TypeOK, Top("sealAudit")
    PROVE  pending = {"sealAudit"}
<1>1. \A e \in Defers : Rank[e] <= Rank["sealAudit"] => e = "sealAudit"
  BY DEF Rank, Defers
<1>q. QED
  BY <1>1 DEF TypeOK, TypeSession, Top

\* What is no longer pending when a given defer is on top.
LEMMA RankedAbove ==
    ASSUME TypeOK
    PROVE  /\ Top("restoreHarness") => "closeServant" \notin pending
           /\ Top("restoreHarnessEgress") =>
                  "closeServant" \notin pending /\ "restoreHarness" \notin pending
           /\ Top("restoreExecutor") =>
                  /\ "closeServant" \notin pending /\ "restoreHarness" \notin pending
                  /\ "restoreHarnessEgress" \notin pending
           /\ Top("cleanupEgress") => "restoreExecutor" \notin pending
    BY DEF TypeOK, TypeSession, Top, Rank, Defers

\* Only the pending cleanup, or the one body of its sync.Once, ends the presence of
\* credentials.
LEMMA CredInvStep ==
    ASSUME TypeOK, CredInv, [Next]_vars
    PROVE  CredInv'
<1> USE DEF TypeOK, TypeCred, TypeStopping, CredInv, NobodyRemovesEarly,
            CleanupIsPending, BeforeProvision, Alive, Onces, Stops
<1>1. CASE LoadPolicy \/ OpenAudit \/ StartEngine \/ Admission \/ ResolveSurface
  BY <1>1 DEF
     Admission, cred, forensic, Goto, link, LoadPolicy, Log, network, OpenAudit,
     ResolveSurface, Return, StartEngine, stopping, surface
<1>2. CASE ProvisionCredentials
  BY <1>2 DEF
     Goto, link, Log, network, ProvisionCredentials, RemoveInstalled, Return,
     stopping, surface
<1>3. CASE \/ AttachHarness \/ ProvisionEgress \/ ArmExecutor \/ ResolveStatusToken
         \/ InstallReceiving \/ RegisterSurface \/ StartMonitor
  BY <1>3 DEF
     ArmExecutor, AttachHarness, cred, forensic, Goto, InstallReceiving, link, Log,
     network, ProvisionEgress, RegisterSurface, ResolveStatusToken, Return,
     StartMonitor, stopping, surface
<1>4. CASE Finish \/ Exit
  BY <1>4 DEF
     cred, Exit, Finish, forensic, link, network, Return, stopping, surface, Tripped
<1>5. CASE \/ PopQuietly \/ CloseServant \/ RestoreHarness \/ RestoreHarnessEgress
         \/ RestoreExecutor \/ CleanupEgress \/ CancelRunCtx
  BY <1>5 DEF
     CancelRun, CancelRunCtx, CleanupEgress, CloseServant, cred, forensic, link,
     network, Pop, PopQuietly, RestoreExecutor, RestoreHarness,
     RestoreHarnessEgress, stopping, surface, Top
<1>6. CASE PopOnce
  BY <1>6 DEF
     cred, forensic, link, network, Pop, PopOnce, stopping, surface, Top
<1>7. CASE SealAudit
  BY <1>7 DEF
     cred, link, network, Pop, SealAudit, stopping, surface, Top
<1>8. ASSUME NEW o \in Onces, EnterOnce(o) \/ RungCalls(o) PROVE CredInv'
  BY <1>8 DEF
     Alive, AtCall, cred, EnterOnce, forensic, link, network, RungCalls, Serving,
     session, stopping, surface, Top
<1>9. CASE RemoveCredentials
  BY <1>9 DEF
     Alive, link, Log, network, RemoveCredentials, RemoveInstalled, session,
     stopping, surface
<1>10. CASE CloseDesktop
  BY <1>10 DEF
     Alive, CloseDesktop, link, network, session, stopping, surface
<1>11. CASE Trip \/ StopGracefully
  BY <1>11 DEF
     Advance, Alive, Armed, cred, link, Log, network, session, StopGracefully,
     surface, Trip
<1>12. CASE RaiseBanner \/ Isolate \/ ShutDownMachine
  BY <1>12 DEF
     Advance, Alive, cred, forensic, Isolate, link, network, RaiseBanner, session,
     ShutDownMachine, surface
<1>13. ASSUME NEW l \in Stops,
              \/ FinalizeCreds(l) \/ SuspendEgress(l) \/ FinalizeEngine(l)
              \/ Abort(l) \/ AbortFires(l)
       PROVE  CredInv'
  BY <1>13 DEF
     Abort, AbortFires, Advance, Alive, CancelRun, cred, FinalizeCreds,
     FinalizeEngine, forensic, link, network, session, surface, SuspendEgress
<1>14. CASE RungBanner \/ RungReturns \/ ChannelLost \/ Interrupt \/ RungRestoresEgress
          \/ \E r \in Layers : RungApplies(r) \/ RungHandsOver(r)
  BY <1>14 DEF
     Alive, CancelRun, ChannelLost, cred, forensic, Interrupt, link, network,
     RungBanner, RungApplies, RungHandsOver, RungRestoresEgress, RungReturns, Serving,
     session, stopping, surface
<1>15. CASE UNCHANGED vars
  BY <1>15 DEF vars, session, forensic, cred, network, link, surface, stopping
<1>q. QED
  BY Actions, <1>1, <1>2, <1>3, <1>4, <1>5, <1>6, <1>7, <1>8, <1>9, <1>10, <1>11,
  <1>12, <1>13, <1>14, <1>15

\* The ladder passes its credential and engine steps only when the sync.Once bodies
\* have run.
LEMMA LadderInvStep ==
    ASSUME TypeOK, CredInv, LadderInv, [Next]_vars
    PROVE  LadderInv'
<1> USE DEF TypeOK, TypeCred, TypeStopping, LadderInv, NobodyRemovesEarly,
            CleanupIsPending, CredInv, BeforeProvision, Alive, Onces, Stops
<1>1. CASE LoadPolicy \/ OpenAudit \/ StartEngine \/ Admission \/ ResolveSurface
  BY <1>1 DEF
     Admission, cred, forensic, Goto, link, LoadPolicy, Log, network, OpenAudit,
     ResolveSurface, Return, StartEngine, stopping, surface
<1>2. CASE ProvisionCredentials
  BY <1>2 DEF
     Goto, link, Log, network, ProvisionCredentials, RemoveInstalled, Return,
     stopping, surface
<1>3. CASE \/ AttachHarness \/ ProvisionEgress \/ ArmExecutor \/ ResolveStatusToken
         \/ InstallReceiving \/ RegisterSurface \/ StartMonitor
  BY <1>3 DEF
     ArmExecutor, AttachHarness, cred, forensic, Goto, InstallReceiving, link, Log,
     network, ProvisionEgress, RegisterSurface, ResolveStatusToken, Return,
     StartMonitor, stopping, surface
<1>4. CASE Finish \/ Exit
  BY <1>4 DEF
     cred, Exit, Finish, forensic, link, network, Return, stopping, surface, Tripped
<1>5. CASE \/ PopQuietly \/ CloseServant \/ RestoreHarness \/ RestoreHarnessEgress
         \/ RestoreExecutor \/ CleanupEgress \/ CancelRunCtx
  BY <1>5 DEF
     CancelRun, CancelRunCtx, CleanupEgress, CloseServant, cred, forensic, link,
     network, Pop, PopQuietly, RestoreExecutor, RestoreHarness,
     RestoreHarnessEgress, stopping, surface, Top
<1>6. CASE PopOnce
  BY <1>6 DEF
     cred, forensic, link, network, Pop, PopOnce, stopping, surface, Top
<1>7. CASE SealAudit
  BY <1>7 DEF
     cred, link, network, Pop, SealAudit, stopping, surface, Top
<1>8. ASSUME NEW o \in Onces, EnterOnce(o) \/ RungCalls(o) PROVE LadderInv'
  BY <1>8 DEF
     Alive, AtCall, cred, EnterOnce, forensic, link, network, RungCalls, Serving,
     session, stopping, surface, Top
<1>9. CASE RemoveCredentials
  BY <1>9 DEF
     Alive, link, Log, network, RemoveCredentials, RemoveInstalled, session,
     stopping, surface
<1>10. CASE CloseDesktop
  BY <1>10 DEF
     Alive, CloseDesktop, link, network, session, stopping, surface
<1>11. CASE Trip \/ StopGracefully
  BY <1>11 DEF
     Advance, Alive, Armed, cred, link, Log, network, session, StopGracefully,
     surface, Trip
<1>12. CASE RaiseBanner \/ Isolate \/ ShutDownMachine
  BY <1>12 DEF
     Advance, Alive, cred, forensic, Isolate, link, network, RaiseBanner, session,
     ShutDownMachine, surface
<1>13. ASSUME NEW l \in Stops,
              \/ FinalizeCreds(l) \/ SuspendEgress(l) \/ FinalizeEngine(l)
              \/ Abort(l) \/ AbortFires(l)
       PROVE  LadderInv'
  BY <1>13 DEF
     Abort, AbortFires, Advance, Alive, CancelRun, cred, FinalizeCreds,
     FinalizeEngine, forensic, link, network, session, surface, SuspendEgress
<1>14. CASE RungBanner \/ RungReturns \/ ChannelLost \/ Interrupt \/ RungRestoresEgress
          \/ \E r \in Layers : RungApplies(r) \/ RungHandsOver(r)
  BY <1>14 DEF
     Alive, CancelRun, ChannelLost, cred, forensic, Interrupt, link, network,
     RungBanner, RungApplies, RungHandsOver, RungRestoresEgress, RungReturns, Serving,
     session, stopping, surface
<1>15. CASE UNCHANGED vars
  BY <1>15 DEF vars, session, forensic, cred, network, link, surface, stopping
<1>q. QED
  BY Actions, <1>1, <1>2, <1>3, <1>4, <1>5, <1>6, <1>7, <1>8, <1>9, <1>10, <1>11,
  <1>12, <1>13, <1>14, <1>15

\* The chain outlives every defer that appends to it.
LEMMA ChainInvStep ==
    ASSUME TypeOK, CredInv, LadderInv, ChainInv, [Next]_vars
    PROVE  ChainInv'
<1> USE DEF TypeOK, TypeCred, TypeStopping, ChainInv, LadderInv, StartPoints,
            NobodyRemovesEarly, CleanupIsPending, CredInv, BeforeProvision, Alive,
            Onces, Stops
<1>1. CASE SealAudit
  <2>1. pending = {"sealAudit"} /\ pending' = {} /\ pc = "unwind"
    BY <1>1, SealIsLast DEF SealAudit, Pop, Top
  <2>2. engine # "up" /\ ("installed" \in trail => "removed" \in trail) /\ creds # "present"
    BY <2>1
  <2>3. bundle'.final /\ bundle'.settled
    BY <1>1, <2>2 DEF SealAudit
  <2>q. QED
    BY <1>1, <2>1, <2>2, <2>3 DEF SealAudit, cred
<1>2. CASE LoadPolicy \/ OpenAudit \/ StartEngine \/ Admission \/ ResolveSurface
  BY <1>2 DEF
     Admission, cred, forensic, Goto, link, LoadPolicy, Log, network, OpenAudit,
     ResolveSurface, Return, StartEngine, stopping, surface
<1>3. CASE ProvisionCredentials
  BY <1>3 DEF
     Goto, link, Log, network, ProvisionCredentials, RemoveInstalled, Return,
     stopping, surface
<1>4. CASE \/ AttachHarness \/ ProvisionEgress \/ ArmExecutor \/ ResolveStatusToken
         \/ InstallReceiving \/ RegisterSurface \/ StartMonitor
  BY <1>4 DEF
     ArmExecutor, AttachHarness, cred, forensic, Goto, InstallReceiving, link, Log,
     network, ProvisionEgress, RegisterSurface, ResolveStatusToken, Return,
     StartMonitor, stopping, surface
<1>5. CASE Finish \/ Exit
  BY <1>5 DEF
     cred, Exit, Finish, forensic, link, network, Return, stopping, surface, Tripped
<1>6. CASE \/ PopQuietly \/ CloseServant \/ RestoreHarness \/ RestoreHarnessEgress
         \/ RestoreExecutor \/ CleanupEgress \/ CancelRunCtx
  BY <1>6 DEF
     CancelRun, CancelRunCtx, CleanupEgress, CloseServant, cred, forensic, link,
     network, Pop, PopQuietly, RestoreExecutor, RestoreHarness,
     RestoreHarnessEgress, stopping, surface, Top
<1>7. CASE PopOnce
  BY <1>7 DEF
     cred, forensic, link, network, Pop, PopOnce, stopping, surface, Top
<1>8. ASSUME NEW o \in Onces, EnterOnce(o) \/ RungCalls(o) PROVE ChainInv'
  BY <1>8 DEF
     Alive, AtCall, cred, EnterOnce, forensic, link, network, RungCalls, Serving,
     session, stopping, surface, Top
<1>9. CASE RemoveCredentials
  BY <1>9 DEF
     Alive, link, Log, network, RemoveCredentials, RemoveInstalled, session,
     stopping, surface
<1>10. CASE CloseDesktop
  BY <1>10 DEF
     Alive, CloseDesktop, link, network, session, stopping, surface
<1>11. CASE Trip \/ StopGracefully
  BY <1>11 DEF
     Advance, Alive, Armed, cred, link, Log, network, session, StopGracefully,
     surface, Trip
<1>12. CASE RaiseBanner \/ Isolate \/ ShutDownMachine
  BY <1>12 DEF
     Advance, Alive, cred, forensic, Isolate, link, network, RaiseBanner, session,
     ShutDownMachine, surface
<1>13. ASSUME NEW l \in Stops,
              \/ FinalizeCreds(l) \/ SuspendEgress(l) \/ FinalizeEngine(l)
              \/ Abort(l) \/ AbortFires(l)
       PROVE  ChainInv'
  BY <1>13 DEF
     Abort, AbortFires, Advance, Alive, CancelRun, cred, FinalizeCreds,
     FinalizeEngine, forensic, link, network, session, surface, SuspendEgress
<1>14. CASE RungBanner \/ RungReturns \/ ChannelLost \/ Interrupt \/ RungRestoresEgress
          \/ \E r \in Layers : RungApplies(r) \/ RungHandsOver(r)
  BY <1>14 DEF
     Alive, CancelRun, ChannelLost, cred, forensic, Interrupt, link, network,
     RungBanner, RungApplies, RungHandsOver, RungRestoresEgress, RungReturns, Serving,
     session, stopping, surface
<1>15. CASE UNCHANGED vars
  BY <1>15 DEF vars, session, forensic, cred, network, link, surface, stopping
<1>q. QED
  BY Actions, <1>1, <1>2, <1>3, <1>4, <1>5, <1>6, <1>7, <1>8, <1>9, <1>10, <1>11,
  <1>12, <1>13, <1>14, <1>15

\* Start-up only moves forward through its stages.
LEMMA SurfaceInvStep ==
    ASSUME TypeOK, SurfaceInv, [Next]_vars
    PROVE  SurfaceInv'
<1> USE DEF TypeOK, TypeSurface, SurfaceInv, BeforeProvision, AfterArming, Alive
<1>1. CASE AttachHarness \/ ProvisionEgress
  BY <1>1 DEF
     AttachHarness, cred, forensic, Goto, link, Log, network, ProvisionEgress,
     Return, stopping, surface
<1>2. CASE ArmExecutor \/ ResolveStatusToken
  BY <1>2 DEF
     ArmExecutor, cred, forensic, Goto, link, network, ResolveStatusToken, Return,
     stopping, surface
<1>3. CASE InstallReceiving
  BY <1>3 DEF
     cred, forensic, Goto, InstallReceiving, link, network, stopping
<1>4. CASE RegisterSurface
  BY <1>4 DEF
     cred, Goto, link, Log, network, RegisterSurface, stopping
<1>5. CASE LoadPolicy \/ OpenAudit \/ StartEngine \/ Admission \/ ResolveSurface
  BY <1>5 DEF
     Admission, cred, forensic, Goto, link, LoadPolicy, Log, network, OpenAudit,
     ResolveSurface, Return, StartEngine, stopping, surface
<1>6. CASE ProvisionCredentials
  BY <1>6 DEF
     Goto, link, Log, network, ProvisionCredentials, RemoveInstalled, Return,
     stopping, surface
<1>7. CASE StartMonitor
  BY <1>7 DEF
     cred, forensic, Goto, link, network, StartMonitor, stopping
<1>8. CASE Finish \/ Exit
  BY <1>8 DEF
     cred, Exit, Finish, forensic, link, network, Return, stopping, surface, Tripped
<1>9. CASE \/ PopQuietly \/ CloseServant \/ RestoreHarness \/ RestoreHarnessEgress
         \/ RestoreExecutor \/ CleanupEgress \/ CancelRunCtx
  BY <1>9 DEF
     CancelRun, CancelRunCtx, CleanupEgress, CloseServant, cred, forensic, link,
     network, Pop, PopQuietly, RestoreExecutor, RestoreHarness,
     RestoreHarnessEgress, stopping, surface, Top
<1>10. CASE PopOnce
  BY <1>10 DEF
     cred, forensic, link, network, Pop, PopOnce, stopping, surface, Top
<1>11. CASE SealAudit
  BY <1>11 DEF
     cred, link, network, Pop, SealAudit, stopping, surface, Top
<1>12. ASSUME NEW o \in Onces, EnterOnce(o) \/ RungCalls(o) PROVE SurfaceInv'
  BY <1>12 DEF
     Alive, AtCall, cred, EnterOnce, forensic, link, network, RungCalls, Serving,
     session, stopping, surface, Top
<1>13. CASE RemoveCredentials
  BY <1>13 DEF
     Alive, link, Log, network, RemoveCredentials, RemoveInstalled, session,
     stopping, surface
<1>14. CASE CloseDesktop
  BY <1>14 DEF
     Alive, CloseDesktop, link, network, session, stopping, surface
<1>15. CASE Trip \/ StopGracefully
  BY <1>15 DEF
     Advance, Alive, Armed, cred, link, Log, network, session, StopGracefully,
     surface, Trip
<1>16. CASE RaiseBanner \/ Isolate \/ ShutDownMachine
  BY <1>16 DEF
     Advance, Alive, cred, forensic, Isolate, link, network, RaiseBanner, session,
     ShutDownMachine, surface
<1>17. ASSUME NEW l \in Stops,
              \/ FinalizeCreds(l) \/ SuspendEgress(l) \/ FinalizeEngine(l)
              \/ Abort(l) \/ AbortFires(l)
       PROVE  SurfaceInv'
  BY <1>17 DEF
     Abort, AbortFires, Advance, Alive, CancelRun, cred, FinalizeCreds,
     FinalizeEngine, forensic, link, network, session, surface, SuspendEgress
<1>18. CASE RungBanner \/ RungReturns \/ ChannelLost \/ Interrupt \/ RungRestoresEgress
          \/ \E r \in Layers : RungApplies(r) \/ RungHandsOver(r)
  BY <1>18 DEF
     Alive, CancelRun, ChannelLost, cred, forensic, Interrupt, link, network,
     RungBanner, RungApplies, RungHandsOver, RungRestoresEgress, RungReturns, Serving,
     session, stopping, surface
<1>19. CASE UNCHANGED vars
  BY <1>19 DEF vars, session, forensic, cred, network, link, surface, stopping
<1>q. QED
  BY Actions, <1>1, <1>2, <1>3, <1>4, <1>5, <1>6, <1>7, <1>8, <1>9, <1>10, <1>11,
  <1>12, <1>13, <1>14, <1>15, <1>16, <1>17, <1>18, <1>19

\* Nothing is layered over the firewall without a pending defer that takes it off.
LEMMA FirewallInvStep ==
    ASSUME TypeOK, FirewallInv, SurfaceInv, [Next]_vars
    PROVE  FirewallInv'
<1> USE DEF TypeOK, TypeSurface, TypeStopping, TypeNetwork, FirewallInv, AfterArming,
            Alive, StartPoints, Layers, Standing
<1>1. CASE RestoreExecutor
  BY <1>1, RankedAbove DEF
     cred, forensic, link, Pop, RestoreExecutor, stopping, surface, Top
<1>2. CASE CleanupEgress
  BY <1>2, RankedAbove DEF
     CleanupEgress, cred, forensic, link, Pop, stopping, surface, Top
<1>3. CASE RestoreHarness
  BY <1>3, RankedAbove DEF
     cred, forensic, link, Pop, RestoreHarness, stopping, surface, Top, Undo
<1>4. CASE RestoreHarnessEgress
  BY <1>4, RankedAbove DEF
     cred, forensic, link, Pop, RestoreHarnessEgress, stopping, surface, Top, Undo
<1>5. CASE Trip
  BY <1>5 DEF
     Advance, Alive, cred, link, Log, network, session, surface, Trip
<1>6. ASSUME NEW l \in Stops, FinalizeCreds(l) PROVE FirewallInv'
  BY <1>6 DEF
     Advance, Alive, cred, FinalizeCreds, forensic, link, network, session, surface
<1>7. ASSUME NEW l \in Stops, SuspendEgress(l) PROVE FirewallInv'
  BY <1>7 DEF
     Advance, Alive, cred, forensic, link, session, surface, SuspendEgress
<1>8. ASSUME NEW l \in Stops, FinalizeEngine(l) PROVE FirewallInv'
  BY <1>8 DEF
     Advance, Alive, cred, FinalizeEngine, forensic, link, network, session, surface
<1>9. ASSUME NEW l \in Stops, Abort(l) PROVE FirewallInv'
  BY <1>9 DEF
     Abort, Advance, Alive, cred, forensic, link, network, session, surface
<1>10. CASE Isolate
  BY <1>10 DEF
     Advance, Alive, cred, forensic, Isolate, link, session, surface
<1>11. CASE LoadPolicy \/ OpenAudit \/ StartEngine \/ Admission \/ ResolveSurface
  BY <1>11 DEF
     Admission, cred, forensic, Goto, link, LoadPolicy, Log, network, OpenAudit,
     ResolveSurface, Return, StartEngine, stopping, surface
<1>12. CASE ProvisionCredentials
  BY <1>12 DEF
     Goto, link, Log, network, ProvisionCredentials, RemoveInstalled, Return,
     stopping, surface
<1>13. CASE \/ AttachHarness \/ ProvisionEgress \/ ArmExecutor \/ ResolveStatusToken
         \/ InstallReceiving \/ RegisterSurface \/ StartMonitor
  BY <1>13 DEF
     ArmExecutor, AttachHarness, cred, forensic, Goto, InstallReceiving, link, Log,
     network, ProvisionEgress, RegisterSurface, ResolveStatusToken, Return,
     StartMonitor, stopping, surface
<1>14. CASE Finish \/ Exit
  BY <1>14 DEF
     cred, Exit, Finish, forensic, link, network, Return, stopping, surface, Tripped
<1>15. CASE PopQuietly \/ CloseServant \/ CancelRunCtx
  BY <1>15 DEF
     CancelRun, CancelRunCtx, CloseServant, cred, forensic, link, network, Pop,
     PopQuietly, stopping, surface, Top
<1>16. CASE PopOnce
  BY <1>16 DEF
     cred, forensic, link, network, Pop, PopOnce, stopping, surface, Top
<1>17. CASE SealAudit
  BY <1>17 DEF
     cred, link, network, Pop, SealAudit, stopping, surface, Top
<1>18. ASSUME NEW o \in Onces, EnterOnce(o) \/ RungCalls(o) PROVE FirewallInv'
  BY <1>18 DEF
     Alive, AtCall, cred, EnterOnce, forensic, link, network, RungCalls, Serving,
     session, stopping, surface, Top
<1>19. CASE RemoveCredentials
  BY <1>19 DEF
     Alive, link, Log, network, RemoveCredentials, RemoveInstalled, session,
     stopping, surface
<1>20. CASE CloseDesktop
  BY <1>20 DEF
     Alive, CloseDesktop, link, network, session, stopping, surface
<1>21. CASE StopGracefully
  BY <1>21 DEF
     Advance, Alive, Armed, cred, link, Log, network, session, StopGracefully,
     surface
<1>22. CASE RaiseBanner \/ ShutDownMachine
  BY <1>22 DEF
     Advance, Alive, cred, forensic, link, network, RaiseBanner, session,
     ShutDownMachine, surface
<1>23. ASSUME NEW l \in Stops, AbortFires(l) PROVE FirewallInv'
  BY <1>23 DEF
     AbortFires, Alive, CancelRun, cred, forensic, link, network, surface
<1>24. CASE RungBanner \/ RungReturns \/ ChannelLost \/ Interrupt
  BY <1>24 DEF
     Alive, CancelRun, ChannelLost, cred, forensic, Interrupt, link, network,
     RungBanner, RungReturns, Serving, session, stopping, surface
<1>26. CASE RungRestoresEgress
  BY <1>26 DEF cred, forensic, link, RungRestoresEgress, Serving, session, stopping, surface
<1>27. ASSUME NEW r \in Layers, RungApplies(r) PROVE FirewallInv'
  BY <1>27 DEF cred, forensic, RungApplies, Serving, session, stopping, surface
<1>28. ASSUME NEW r \in Layers, RungHandsOver(r) PROVE FirewallInv'
  BY <1>28 DEF cred, forensic, RungHandsOver, session, stopping, surface
<1>25. CASE UNCHANGED vars
  BY <1>25 DEF vars, session, forensic, cred, network, link, surface, stopping
<1>q. QED
  BY Actions, <1>1, <1>2, <1>3, <1>4, <1>5, <1>6, <1>7, <1>8, <1>9, <1>10, <1>11,
  <1>12, <1>13, <1>14, <1>15, <1>16, <1>17, <1>18, <1>19, <1>20, <1>21, <1>22,
  <1>23, <1>24, <1>25, <1>26, <1>27, <1>28

----------------------------------------------------------------------------
(***************************************************************************)
(* The inductive invariant, and what follows from it.                      *)
(***************************************************************************)
IInv == TypeOK /\ CredInv /\ LadderInv /\ ChainInv /\ SurfaceInv /\ FirewallInv

\* The inductive invariant holds throughout every run of the server.
THEOREM Invariance == Spec => []IInv
<1>1. Init => IInv
  <2> SUFFICES ASSUME Init PROVE IInv
    OBVIOUS
  <2> USE DEF Init
  <2>1. CredInv
    BY DEF CredInv, NobodyRemovesEarly, CleanupIsPending, Stops, Onces, Alive
  <2>2. LadderInv
    BY DEF LadderInv, Stops, Onces
  <2>3. ChainInv
    BY DEF ChainInv, StartPoints
  <2>4. SurfaceInv
    BY DEF SurfaceInv, AfterArming
  <2>5. FirewallInv
    BY DEF FirewallInv, AfterArming, StartPoints, Stops, Standing
  <2>q. QED
    BY <2>1, <2>2, <2>3, <2>4, <2>5, InitTyped DEF IInv
<1>2. IInv /\ [Next]_vars => IInv'
  BY TypedStep, CredInvStep, LadderInvStep, ChainInvStep, SurfaceInvStep, FirewallInvStep
     DEF IInv
<1>q. QED
  BY <1>1, <1>2, PTL DEF Spec

\* Whatever ends the session and whoever removes the credentials, none is left
\* that removal was not tried on, and it is tried once.
THEOREM CredentialsAreRemoved == Spec => []NoCredentialResidue
<1>1. IInv => NoCredentialResidue
  BY DEF IInv, CredInv, CleanupIsPending, NoCredentialResidue
<1>q. QED
  BY <1>1, Invariance, PTL

\* The machine is told to go down only over finalized forensics.
THEOREM ForensicsComeFirst == Spec => []ForensicsBeforeShutdown
<1>1. IInv => ForensicsBeforeShutdown
  BY DEF IInv, CredInv, CleanupIsPending, LadderInv, ForensicsBeforeShutdown
<1>q. QED
  BY <1>1, Invariance, PTL

\* A sealed evidence bundle was sealed over final inputs.
THEOREM SealedBundleIsFinal == Spec => []BundleInputsFinal
<1>1. IInv => BundleInputsFinal
  BY DEF IInv, ChainInv, BundleInputsFinal
<1>q. QED
  BY <1>1, Invariance, PTL

\* No request is served before the session is guarded.
THEOREM ServedUnderGuard == Spec => []ServesOnlyGuarded
<1>1. IInv => ServesOnlyGuarded
  <2> SUFFICES ASSUME IInv, pc = "serve" PROVE ServesOnlyGuarded
    BY DEF ServesOnlyGuarded
  <2>1. ~secrets /\ ~token /\ monitor
    BY DEF IInv, SurfaceInv, AfterArming
  <2>2. /\ guard = (IF cfg.harness = "enforce" THEN "harness" ELSE "local")
        /\ pinned <=> cfg.harness # "enforce"
        /\ servant = "none" <=> cfg.harness = "none"
    BY DEF IInv, SurfaceInv, AfterArming
  <2>q. QED
    BY <2>1, <2>2 DEF ServesOnlyGuarded
<1>q. QED
  BY <1>1, Invariance, PTL

\* What containment did to the firewall is undone on exit.
THEOREM FirewallIsUndone == Spec => []FirewallUndone
<1>1. IInv => FirewallUndone
  BY DEF IInv, TypeOK, TypeNetwork, FirewallInv, Standing, FirewallUndone, CredInv,
         CleanupIsPending, Alive, AfterArming
<1>q. QED
  BY <1>1, Invariance, PTL

\* When the local egress state comes down, nothing that began before the
\* executor's Restore, and nothing a rung handed over, is still above it.
THEOREM LayersComeDownInOrder == Spec => LayeredRestore
<1> DEFINE Layered == egress # "restored" /\ egress' = "restored"
                        => /\ isolated' \in {"no", "after"}
                           /\ \A r \in Layers : layer'[r] \in {"off", "missed"}
<1>1. IInv /\ [Next]_vars => [Layered]_vars
  <2> SUFFICES ASSUME IInv, [Next]_vars, egress # "restored", egress' = "restored"
               PROVE  /\ isolated' \in {"no", "after"}
                      /\ \A r \in Layers : layer'[r] \in {"off", "missed"}
    OBVIOUS
  <2>1. CleanupEgress
    BY NetworkChanges DEF ProvisionEgress, RestoreHarness, RestoreHarnessEgress,
       RestoreExecutor, Isolate, SuspendEgress, RungApplies, RungHandsOver,
       RungRestoresEgress, network
  <2>2. "restoreExecutor" \notin pending /\ "cleanupEgress" \in pending /\ pc = "unwind"
    BY <2>1, RankedAbove DEF IInv, CleanupEgress, Pop, Top
  <2>3. restored
    BY <2>2 DEF IInv, FirewallInv
  <2>4. isolated # "before" /\ \A r \in Layers : layer[r] \notin Standing
    BY <2>3 DEF IInv, FirewallInv
  <2>5. UNCHANGED <<isolated, layer>>
    BY <2>1 DEF CleanupEgress
  <2>q. QED
    BY <2>4, <2>5 DEF IInv, TypeOK, TypeNetwork, Standing
<1>q. QED
  BY <1>1, Invariance, PTL DEF Spec, LayeredRestore
=============================================================================
