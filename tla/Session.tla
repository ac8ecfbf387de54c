------------------------------ MODULE Session ------------------------------
(***************************************************************************)
(* One run of the server: RunStdio (internal/winmcp/server.go), from the   *)
(* policy load to the end of the deferred unwind, with everything that can *)
(* act on the session concurrently: the kill ladder, the graceful stop of  *)
(* the Kill tool, the agentweave-harness driving its rungs over the        *)
(* control channel, and the loss of that channel.                          *)
(*                                                                         *)
(* The Go defer stack is the set  pending  of registered defers together   *)
(* with  Rank, the order in which the source registers them: the unwind    *)
(* always runs the pending defer of highest rank.                          *)
(*                                                                         *)
(* The two actions that several goroutines may call, removing credentials  *)
(* and closing the desktop engine, are guarded by a sync.Once: one caller  *)
(* runs the body, every other caller waits until it has been run.          *)
(***************************************************************************)
EXTENDS Naturals

CONSTANT Configs   \* the start-up configurations considered

ConfigType ==
    [ harness  : {"none", "observe", "enforce"},  \* what the bootstrap channel acks
      credFile : BOOLEAN,                         \* --credentials-file given
      evidence : BOOLEAN,                         \* transparency.evidence_dir set
      egress   : BOOLEAN,                         \* policy enforces egress
      isolate  : BOOLEAN,                         \* kill.actions.isolate
      lock     : BOOLEAN,                         \* kill.actions.lock
      shutdown : BOOLEAN,                         \* kill.actions.shutdown
      elevated : BOOLEAN ]                        \* may isolate and shut down

ASSUME ConfigsAssumption == Configs \subseteq ConfigType

Onces == {"creds", "engine"}
Stops == {"trip", "graceful"}
Layers == {"isolate", "rules"}   \* what harness rungs put into the firewall

(***************************************************************************)
(* Registration order of the defers of RunStdio.                           *)
(***************************************************************************)
Defers == { "sealAudit", "stopAnchor", "closeEngine", "cleanupCreds", "cancelRun",
            "cleanupEgress", "restoreExecutor", "restoreHarnessEgress",
            "restoreHarness", "closeServant", "telemetry" }

\* Mutants: the chain is closed before the engine, and the egress state is
\* restored before the executor's isolation.
RankChainFirst ==
    [ closeEngine |-> 1, stopAnchor |-> 2, sealAudit |-> 3, cleanupCreds |-> 4,
      cancelRun |-> 5, cleanupEgress |-> 6, restoreExecutor |-> 7,
      restoreHarnessEgress |-> 8, restoreHarness |-> 9, closeServant |-> 10,
      telemetry |-> 11 ]
RankEgressFirst ==
    [ sealAudit |-> 1, stopAnchor |-> 2, closeEngine |-> 3, cleanupCreds |-> 4,
      cancelRun |-> 5, restoreExecutor |-> 6, cleanupEgress |-> 7,
      restoreHarnessEgress |-> 8, restoreHarness |-> 9, closeServant |-> 10,
      telemetry |-> 11 ]

Rank ==
    [ sealAudit |-> 1, stopAnchor |-> 2, closeEngine |-> 3, cleanupCreds |-> 4,
      cancelRun |-> 5, cleanupEgress |-> 6, restoreExecutor |-> 7,
      restoreHarnessEgress |-> 8, restoreHarness |-> 9, closeServant |-> 10,
      telemetry |-> 11 ]

VARIABLES
    cfg,        \* the configuration of this start
    pc,         \* where RunStdio is
    pending,    \* defers registered and not yet run
    result,     \* what RunStdio returns
    ctx,        \* cause of runCtx: "live" until the first cancel
    chain,      \* audit chain: "none", "open", "closed"
    trail,      \* kinds of entries appended while the chain was open
    engine,     \* desktop engine (and its recording): "none", "up", "closed"
    creds,      \* session credentials in Credential Manager
    removals,   \* how often removeCredentials ran over installed entries
    once,       \* the two sync.Once guards
    egress,     \* OS egress enforcement of the local policy
    isolated,   \* firewall isolation by the kill ladder
    restored,   \* the executor's Restore has run
    servant,    \* harness control channel
    rung,       \* harness rung at work: on a guard, or on a layer
    layer,      \* what harness rungs did to the firewall: "off", "bare" (applied,
                \* its undo not handed over yet), "held", or "missed" by its defer
    secrets,    \* environment secrets still readable by tools
    token,      \* harness bootstrap variables still in the environment
    guard,      \* receiving chain installed
    pinned,     \* rug-pull baselines set and Status/Kill tools served
    monitor,    \* in-flight monitor started
    ladder,     \* progress of the trip and of the graceful stop
    timer,      \* abort timers started by the executor
    banner,     \* a security banner was raised
    poweroff,   \* machine shutdown initiated
    sealArmed,  \* sealAtExit set
    bundle      \* what AutoSealEvidence saw

session  == <<cfg, pc, pending, result, ctx>>
forensic == <<chain, trail, engine, banner, sealArmed, bundle>>
cred     == <<creds, removals, once>>
network  == <<egress, isolated, restored, layer>>
link     == <<servant, rung>>
surface  == <<secrets, token, guard, pinned, monitor>>
stopping == <<ladder, timer, poweroff>>
vars     == <<session, forensic, cred, network, link, surface, stopping>>

Armed   == cfg.isolate \/ cfg.lock \/ cfg.shutdown
Alive   == pc # "exited"
Tripped == ladder["trip"] # "idle"

\* audit.Append: an entry appended to a closed chain is lost.
Log(kinds) == trail' = IF chain = "open" THEN trail \cup kinds ELSE trail

\* context.CancelCauseFunc: the first cause wins.
CancelRun(cause) == ctx' = IF ctx = "live" THEN cause ELSE ctx

Init ==
    /\ cfg \in Configs
    /\ pc = "policy" /\ pending = {} /\ result = "none" /\ ctx = "live"
    /\ chain = "none" /\ trail = {} /\ engine = "none"
    /\ banner = FALSE /\ sealArmed = FALSE
    /\ bundle = [sealed |-> FALSE, final |-> FALSE, settled |-> FALSE]
    /\ creds = "absent" /\ removals = 0 /\ once = [o \in Onces |-> "new"]
    /\ egress = "off" /\ isolated = "no" /\ restored = FALSE
    /\ layer = [r \in Layers |-> "off"]
    /\ servant = "none" /\ rung = "none"
    /\ secrets = TRUE /\ token = (cfg.harness # "none")
    /\ guard = "none" /\ pinned = FALSE /\ monitor = FALSE
    /\ ladder = [l \in Stops |-> "idle"] /\ timer = {} /\ poweroff = FALSE

----------------------------------------------------------------------------
(***************************************************************************)
(* Start-up.  Every stage either falls through to the next or returns an   *)
(* error, which starts the unwind of the defers registered so far.         *)
(***************************************************************************)
Return(r) == pc' = "unwind" /\ result' = r
Goto(p)   == pc' = p /\ UNCHANGED result

LoadPolicy ==
    /\ pc = "policy"
    /\ Goto("audit") \/ Return("failed")
    /\ UNCHANGED <<cfg, pending, ctx, forensic, cred, network, link, surface, stopping>>

OpenAudit ==
    /\ pc = "audit"
    /\ \/ /\ Goto("engine")
          /\ chain' = "open" /\ trail' = {"started"}
          /\ pending' = {"sealAudit", "stopAnchor"}
       \/ /\ Return("failed")
          /\ UNCHANGED <<chain, trail, pending>>
    /\ UNCHANGED <<cfg, ctx, engine, banner, sealArmed, bundle,
                   cred, network, link, surface, stopping>>

StartEngine ==
    /\ pc = "engine"
    /\ \/ /\ Goto("admission")
          /\ engine' = "up"
          /\ pending' = pending \cup {"closeEngine"}
       \/ /\ Return("failed")
          /\ UNCHANGED <<engine, pending>>
    /\ UNCHANGED <<cfg, ctx, chain, trail, banner, sealArmed, bundle,
                   cred, network, link, surface, stopping>>

\* Start-up decision: admitted, refused by the policy (audited, with a
\* banner), or refused because a persona was asked for in Session 0.
Admission ==
    /\ pc = "admission"
    /\ \/ Goto("surface") /\ Log({"decided"}) /\ UNCHANGED banner
       \/ Return("denied") /\ Log({"decided", "denied"}) /\ banner' = TRUE
       \/ Return("failed") /\ Log({"decided"}) /\ UNCHANGED banner
    /\ UNCHANGED <<cfg, pending, ctx, chain, engine, sealArmed, bundle,
                   cred, network, link, surface, stopping>>

\* buildInventory, the persona bypass check and the credential exposure check.
ResolveSurface ==
    /\ pc = "surface"
    /\ \/ Goto("provision") /\ Log({"configured"})
       \/ Return("failed") /\ UNCHANGED trail
       \/ Return("failed") /\ Log({"configured", "refused"})
    /\ UNCHANGED <<cfg, pending, ctx, chain, engine, banner, sealArmed, bundle,
                   cred, network, link, surface, stopping>>

\* A removal deletes every installed entry; entries whose deletion fails stay.
RemoveInstalled ==
    /\ creds' \in {"absent", "stuck"}
    /\ removals' = removals + 1
    /\ Log({"removed"})

\* provisionCredentials: the file is refused, an install fails part way and is
\* rolled back, or everything asked for is installed.
ProvisionCredentials ==
    /\ pc = "provision"
    /\ \/ /\ Goto("attach")
          /\ pending' = pending \cup {"cleanupCreds", "cancelRun"}
          /\ IF cfg.credFile
             THEN creds' = "present" /\ Log({"installed"})
             ELSE UNCHANGED <<creds, trail>>
          /\ UNCHANGED removals
       \/ /\ cfg.credFile
          /\ Return("failed")
          /\ UNCHANGED <<pending, creds, trail, removals>>
       \/ /\ cfg.credFile
          /\ Return("failed")
          /\ RemoveInstalled
          /\ UNCHANGED pending
    /\ UNCHANGED <<cfg, ctx, chain, engine, banner, sealArmed, bundle, once,
                   network, link, surface, stopping>>

\* The harness attach: the bootstrap variables are cleared whether or not the
\* handshake succeeds, and from here on the servant serves rungs.
AttachHarness ==
    /\ pc = "attach"
    /\ \/ /\ cfg.harness = "none"
          /\ Goto("egress")
          /\ UNCHANGED <<token, servant, trail>>
       \/ /\ cfg.harness # "none"
          /\ token' = FALSE
          /\ \/ Goto("egress") /\ servant' = "serving" /\ Log({"attached"})
             \/ Return("failed") /\ UNCHANGED <<servant, trail>>
    /\ UNCHANGED <<cfg, pending, ctx, chain, engine, banner, sealArmed, bundle, cred,
                   network, rung, secrets, guard, pinned, monitor, stopping>>

ProvisionEgress ==
    /\ pc = "egress"
    /\ \/ /\ Goto("executor")
          /\ egress' = IF cfg.egress THEN "enforced" ELSE "off"
          /\ pending' = pending \cup {"cleanupEgress"}
       \/ /\ Return("failed")
          /\ UNCHANGED <<egress, pending>>
    /\ UNCHANGED <<cfg, ctx, forensic, cred, isolated, restored, layer,
                   link, surface, stopping>>

\* The kill executor's Restore and, with a harness, the harness teardown.
ArmExecutor ==
    /\ pc = "executor"
    /\ Goto("status")
    /\ pending' = pending \cup {"restoreExecutor"} \cup
                  (IF servant = "none" THEN {}
                   ELSE {"restoreHarnessEgress", "restoreHarness", "closeServant"})
    /\ UNCHANGED <<cfg, ctx, forensic, cred, network, link, surface, stopping>>

\* Telemetry is best-effort and shed under an enforcing harness; an
\* unresolvable status token fails the start.
ResolveStatusToken ==
    /\ pc = "status"
    /\ \E t \in SUBSET (IF cfg.harness = "enforce" THEN {} ELSE {"telemetry"}) :
           pending' = pending \cup t
    /\ Goto("install") \/ Return("failed")
    /\ UNCHANGED <<cfg, ctx, forensic, cred, network, link, surface, stopping>>

\* ScrubSecretEnv, then the receiving chain.
InstallReceiving ==
    /\ pc = "install"
    /\ Goto("register")
    /\ secrets' = FALSE
    /\ guard' = IF cfg.harness = "enforce" THEN "harness" ELSE "local"
    /\ UNCHANGED <<cfg, pending, ctx, forensic, cred, network, link,
                   token, pinned, monitor, stopping>>

\* Mutant: the guardrail tools are served whoever enforces.
RegisterSurfaceAlways ==
    /\ pc = "register"
    /\ Goto("monitor")
    /\ pinned' = TRUE /\ Log({"pinned"})
    /\ UNCHANGED <<cfg, pending, ctx, chain, engine, banner, sealArmed, bundle, cred,
                   network, link, secrets, token, guard, monitor, stopping>>

\* RegisterAll and, unless the harness enforces, the guardrail tools together
\* with the rug-pull baselines.
RegisterSurface ==
    /\ pc = "register"
    /\ Goto("monitor")
    /\ pinned' = (cfg.harness # "enforce")
    /\ IF cfg.harness # "enforce" THEN Log({"pinned"}) ELSE UNCHANGED trail
    /\ UNCHANGED <<cfg, pending, ctx, chain, engine, banner, sealArmed, bundle, cred,
                   network, link, secrets, token, guard, monitor, stopping>>

StartMonitor ==
    /\ pc = "monitor"
    /\ Goto("serve")
    /\ monitor' = TRUE
    /\ UNCHANGED <<cfg, pending, ctx, forensic, cred, network, link,
                   secrets, token, guard, pinned, stopping>>

\* server.Run has returned, with an error or without: the evidence seal is
\* armed, the return value chosen.
Finish ==
    /\ pc = "serve"
    /\ sealArmed' = cfg.evidence
    /\ \E r \in IF Tripped THEN {"killed"}
              ELSE IF ctx = "stopped" THEN {"clean"} ELSE {"clean", "failed"} : Return(r)
    /\ UNCHANGED <<cfg, pending, ctx, chain, trail, engine, banner, bundle, cred,
                   network, link, surface, stopping>>

RunCancelled      == ctx # "live" /\ Finish
ClientDisconnects == ctx = "live" /\ Finish

----------------------------------------------------------------------------
(***************************************************************************)
(* The unwind: the pending defer of highest rank runs and is popped.       *)
(***************************************************************************)
Top(d) == /\ pc = "unwind"
          /\ d \in pending
          /\ \A e \in pending : Rank[e] <= Rank[d]

Pop(d) == Top(d) /\ pending' = pending \ {d}

\* Defers with no effect on the modelled state.
PopQuietly ==
    /\ Pop("telemetry") \/ Pop("stopAnchor")
    /\ UNCHANGED <<cfg, pc, result, ctx, forensic, cred, network, link, surface, stopping>>

CloseServant ==
    /\ Pop("closeServant")
    /\ servant' = "closed"
    /\ UNCHANGED <<cfg, pc, result, ctx, forensic, cred, network, rung, surface, stopping>>

\* The undo that a rung handed over, if one did.  A rung that is still between
\* applying and handing over is missed.
Undo(r) ==
    layer' = [layer EXCEPT ![r] = CASE @ = "held" -> "off"
                                    [] @ = "bare" -> "missed"
                                    [] OTHER      -> @]

RestoreHarness ==
    /\ Pop("restoreHarness")
    /\ Undo("isolate")
    /\ UNCHANGED <<cfg, pc, result, ctx, forensic, cred, egress, isolated, restored,
                   link, surface, stopping>>

\* EgressRestoreHolder.Run, idempotent.
RestoreHarnessEgress ==
    /\ Pop("restoreHarnessEgress")
    /\ Undo("rules")
    /\ UNCHANGED <<cfg, pc, result, ctx, forensic, cred, egress, isolated, restored,
                   link, surface, stopping>>

\* Mutant: only a ladder that completed is undone.
RestoreCompleted ==
    /\ Pop("restoreExecutor")
    /\ isolated' = IF ladder["trip"] = "done" THEN "no" ELSE isolated
    /\ restored' = TRUE
    /\ UNCHANGED <<cfg, pc, result, ctx, forensic, cred, egress, layer,
                   link, surface, stopping>>

RestoreExecutor ==
    /\ Pop("restoreExecutor")
    /\ isolated' = "no"
    /\ restored' = TRUE
    /\ UNCHANGED <<cfg, pc, result, ctx, forensic, cred, egress, layer,
                   link, surface, stopping>>

CleanupEgress ==
    /\ Pop("cleanupEgress")
    /\ egress' = IF egress = "off" THEN "off" ELSE "restored"
    /\ UNCHANGED <<cfg, pc, result, ctx, forensic, cred, isolated, restored, layer,
                   link, surface, stopping>>

CancelRunCtx ==
    /\ Pop("cancelRun")
    /\ CancelRun("nil")
    /\ UNCHANGED <<cfg, pc, result, forensic, cred, network, link, surface, stopping>>

\* Mutant: a flag instead of a sync.Once, so that a second caller does not wait.
PopFlag ==
    /\ \/ Pop("cleanupCreds") /\ once["creds"] # "new"
       \/ Pop("closeEngine") /\ once["engine"] # "new"
    /\ UNCHANGED <<cfg, pc, result, ctx, forensic, cred, network, link, surface, stopping>>

\* The two defers that go through a sync.Once return once its body has run.
PopOnce ==
    /\ \/ Pop("cleanupCreds") /\ once["creds"] = "done"
       \/ Pop("closeEngine") /\ once["engine"] = "done"
    /\ UNCHANGED <<cfg, pc, result, ctx, forensic, cred, network, link, surface, stopping>>

\* auditLog.Close, then the evidence seal over what is on disk now.
SealAudit ==
    /\ Pop("sealAudit")
    /\ chain' = "closed"
    /\ bundle' = [ sealed  |-> sealArmed,
                   final   |-> engine # "up",
                   settled |-> "installed" \in trail => "removed" \in trail ]
    /\ UNCHANGED <<cfg, pc, result, ctx, trail, engine, banner, sealArmed, cred,
                   network, link, surface, stopping>>

Exit ==
    /\ pc = "unwind" /\ pending = {}
    /\ pc' = "exited"
    /\ UNCHANGED <<cfg, pending, result, ctx, forensic, cred, network, link, surface, stopping>>

----------------------------------------------------------------------------
(***************************************************************************)
(* sync.Once: the first goroutine at a call enters the body; the others    *)
(* wait for "done".                                                        *)
(***************************************************************************)
AtCall(o) ==
    \/ Top(IF o = "creds" THEN "cleanupCreds" ELSE "closeEngine")
    \/ \E l \in Stops : ladder[l] = o
    \/ rung = o

EnterOnce(o) ==
    /\ Alive /\ once[o] = "new" /\ AtCall(o)
    /\ once' = [once EXCEPT ![o] = "running"]
    /\ UNCHANGED <<session, forensic, creds, removals, network, link, surface, stopping>>

\* removeCredentials over what provisioning installed; nothing to do for none.
RemoveCredentials ==
    /\ Alive /\ once["creds"] = "running"
    /\ once' = [once EXCEPT !["creds"] = "done"]
    /\ IF creds = "present" THEN RemoveInstalled ELSE UNCHANGED <<creds, removals, trail>>
    /\ UNCHANGED <<session, chain, engine, banner, sealArmed, bundle,
                   network, link, surface, stopping>>

\* Desktop.Close: recording finalized, overlay and WMI closed, STA told to quit.
CloseDesktop ==
    /\ Alive /\ once["engine"] = "running"
    /\ once' = [once EXCEPT !["engine"] = "done"]
    /\ engine' = "closed"
    /\ UNCHANGED <<session, chain, trail, banner, sealArmed, bundle, creds, removals,
                   network, link, surface, stopping>>

----------------------------------------------------------------------------
(***************************************************************************)
(* Kill ladder and graceful stop (contain.KillExecutor, external): each    *)
(* runs in the goroutine that tripped it and RunStdio does not wait for    *)
(* it.  The order is the one docs/security-architecture.md draws; the      *)
(* hooks Finalize and Abort are RunStdio's own.                            *)
(***************************************************************************)
Advance(l, from, to) ==
    /\ Alive
    /\ ladder[l] = from
    /\ ladder' = [ladder EXCEPT ![l] = to]

\* Any armed detector once the monitor runs.  The monitor is not waited for: it
\* watches through the unwind, and a check under way may trip after the cancel.
Trip ==
    /\ monitor /\ pc \in {"serve", "unwind"}
    /\ Advance("trip", "idle", "alert")
    /\ Log({"tripped"})
    /\ UNCHANGED <<session, chain, engine, banner, sealArmed, bundle, cred, network,
                   link, surface, timer, poweroff>>

\* The Kill tool; with containment armed it trips the switch instead.
StopGracefully ==
    /\ pc = "serve" /\ pinned /\ ~Armed
    /\ Advance("graceful", "idle", "creds")
    /\ Log({"stopped"})
    /\ UNCHANGED <<session, chain, engine, banner, sealArmed, bundle, cred, network,
                   link, surface, timer, poweroff>>

RaiseBanner ==
    /\ Advance("trip", "alert", "isolate")
    /\ banner' = TRUE
    /\ UNCHANGED <<session, chain, trail, engine, sealArmed, bundle, cred, network,
                   link, surface, timer, poweroff>>

Isolate ==
    /\ Advance("trip", "isolate", "creds")
    /\ isolated' = IF ~(cfg.isolate /\ cfg.elevated) THEN isolated
                   ELSE IF restored THEN "after" ELSE "before"
    /\ UNCHANGED <<session, forensic, cred, egress, restored, layer,
                   link, surface, timer, poweroff>>

\* Finalize: cleanupCreds, suspendEgress, dsk.Close.
FinalizeCreds(l) ==
    /\ once["creds"] = "done"
    /\ Advance(l, "creds", "suspend")
    /\ UNCHANGED <<session, forensic, cred, network, link, surface, timer, poweroff>>

SuspendEgress(l) ==
    /\ Advance(l, "suspend", "engine")
    /\ egress' = IF egress = "enforced" THEN "suspended" ELSE egress
    /\ UNCHANGED <<session, forensic, cred, isolated, restored, layer,
                   link, surface, timer, poweroff>>

\* Mutant: the engine is closed in the background.
FinalizeEngineAsync(l) ==
    /\ once["engine"] # "new"
    /\ Advance(l, "engine", IF l = "trip" THEN "shutdown" ELSE "abort")
    /\ UNCHANGED <<session, forensic, cred, network, link, surface, timer, poweroff>>

FinalizeEngine(l) ==
    /\ once["engine"] = "done"
    /\ Advance(l, "engine", IF l = "trip" THEN "shutdown" ELSE "abort")
    /\ UNCHANGED <<session, forensic, cred, network, link, surface, timer, poweroff>>

ShutDownMachine ==
    /\ Advance("trip", "shutdown", "abort")
    /\ poweroff' = (cfg.shutdown /\ cfg.elevated)
    /\ UNCHANGED <<session, forensic, cred, network, link, surface, timer>>

\* Abort: the cancel is deferred by a timer so that a reply can still flush.
Abort(l) ==
    /\ Advance(l, "abort", "done")
    /\ timer' = timer \cup {l}
    /\ UNCHANGED <<session, forensic, cred, network, link, surface, poweroff>>

\* Mutant: the graceful stop reports, and does not cancel.
AbortTripOnly(l) ==
    /\ Alive /\ l \in timer
    /\ timer' = timer \ {l}
    /\ l = "trip" /\ CancelRun("killed")
    /\ UNCHANGED <<cfg, pc, pending, result, forensic, cred, network, link, surface,
                   ladder, poweroff>>

AbortFires(l) ==
    /\ Alive /\ l \in timer
    /\ timer' = timer \ {l}
    /\ CancelRun(IF l = "trip" THEN "killed" ELSE "stopped")
    /\ UNCHANGED <<cfg, pc, pending, result, forensic, cred, network, link, surface,
                   ladder, poweroff>>

----------------------------------------------------------------------------
(***************************************************************************)
(* The harness: rungs it drives over the control channel, one at a time,   *)
(* and the loss of the channel.                                            *)
(***************************************************************************)
Serving == Alive /\ servant = "serving" /\ rung = "none"

RungBanner ==
    /\ Serving
    /\ banner' = TRUE
    /\ UNCHANGED <<session, chain, trail, engine, sealArmed, bundle, cred, network, link,
                   surface, stopping>>

\* The isolation rung and the egress rung: the firewall is changed first, the
\* undo handed to RunStdio afterwards.  Applied again over an undo that is held,
\* a layer stays held.
RungApplies(r) ==
    /\ Serving
    /\ rung' = r
    /\ layer' = [layer EXCEPT ![r] = IF @ = "held" THEN "held" ELSE "bare"]
    /\ UNCHANGED <<session, forensic, cred, egress, isolated, restored, servant, surface,
                   stopping>>

RungHandsOver(r) ==
    /\ Alive /\ rung = r
    /\ rung' = "none"
    /\ layer' = [layer EXCEPT ![r] = IF @ = "bare" THEN "held" ELSE @]
    /\ UNCHANGED <<session, forensic, cred, egress, isolated, restored, servant, surface,
                   stopping>>

\* The egress_restore rung.
RungRestoresEgress ==
    /\ Serving
    /\ layer' = [layer EXCEPT !["rules"] = "off"]
    /\ UNCHANGED <<session, forensic, cred, egress, isolated, restored, link, surface,
                   stopping>>

\* The finalize and credential rungs call dsk.Close and cleanupCreds.
RungCalls(o) ==
    /\ Serving
    /\ rung' = o
    /\ UNCHANGED <<session, forensic, cred, network, servant, surface, stopping>>

RungReturns ==
    /\ Alive /\ rung \in Onces /\ once[rung] = "done"
    /\ rung' = "none"
    /\ UNCHANGED <<session, forensic, cred, network, servant, surface, stopping>>

\* OnLost cancels the session's context.
ChannelLost ==
    /\ Alive /\ servant = "serving"
    /\ servant' = "lost"
    /\ CancelRun("lost")
    /\ UNCHANGED <<cfg, pc, pending, result, forensic, cred, network, rung, surface, stopping>>

\* Interrupt or termination signal: the parent context of runCtx ends.
Interrupt ==
    /\ Alive /\ ctx = "live"
    /\ CancelRun("signal")
    /\ UNCHANGED <<cfg, pc, pending, result, forensic, cred, network, link, surface, stopping>>

----------------------------------------------------------------------------
StartUp ==
    \/ LoadPolicy \/ OpenAudit \/ StartEngine \/ Admission \/ ResolveSurface
    \/ ProvisionCredentials \/ AttachHarness \/ ProvisionEgress \/ ArmExecutor
    \/ ResolveStatusToken \/ InstallReceiving \/ RegisterSurface \/ StartMonitor

Unwind ==
    \/ PopQuietly \/ CloseServant \/ RestoreHarness \/ RestoreHarnessEgress
    \/ RestoreExecutor \/ CleanupEgress \/ CancelRunCtx \/ PopOnce \/ SealAudit \/ Exit

Main == StartUp \/ RunCancelled \/ Unwind

Guarded == (\E o \in Onces : EnterOnce(o)) \/ RemoveCredentials \/ CloseDesktop

Ladder(l) ==
    \/ FinalizeCreds(l) \/ SuspendEgress(l) \/ FinalizeEngine(l) \/ Abort(l)
    \/ l = "trip" /\ (RaiseBanner \/ Isolate \/ ShutDownMachine)

Harness ==
    \/ RungBanner \/ (\E r \in Layers : RungApplies(r) \/ RungHandsOver(r))
    \/ RungRestoresEgress \/ (\E o \in Onces : RungCalls(o)) \/ RungReturns
    \/ ChannelLost

Stopped == ~Alive /\ UNCHANGED vars

Next ==
    \/ Harness \/ Main \/ ClientDisconnects \/ Guarded \/ Trip \/ StopGracefully
    \/ (\E l \in Stops : Ladder(l) \/ AbortFires(l))
    \/ Interrupt \/ Stopped

\* Goroutines that can run do run, timers fire; nothing is assumed of the
\* client, the detectors or the harness.
Fairness ==
    /\ WF_vars(Main) /\ WF_vars(Guarded)
    /\ \A l \in Stops : WF_vars(Ladder(l)) /\ WF_vars(AbortFires(l))

Spec == Init /\ [][Next]_vars /\ Fairness

----------------------------------------------------------------------------
(***************************************************************************)
(* Properties                                                              *)
(***************************************************************************)
StartPoints == {"policy", "audit", "engine", "admission", "surface", "provision", "attach",
                "egress", "executor", "status", "install", "register", "monitor"}
Entries == {"started", "decided", "denied", "configured", "refused", "installed", "removed",
            "attached", "pinned", "tripped", "stopped"}
Causes  == {"live", "nil", "lost", "signal", "killed", "stopped"}
Steps   == {"idle", "alert", "isolate", "creds", "suspend", "engine", "shutdown", "abort", "done"}

TypeSession ==
    /\ cfg \in Configs
    /\ pc \in StartPoints \cup {"serve", "unwind", "exited"}
    /\ pending \subseteq Defers
    /\ result \in {"none", "failed", "denied", "killed", "clean"}
    /\ ctx \in Causes

TypeForensic ==
    /\ chain \in {"none", "open", "closed"} /\ trail \subseteq Entries
    /\ engine \in {"none", "up", "closed"}
    /\ banner \in BOOLEAN /\ sealArmed \in BOOLEAN
    /\ bundle \in [sealed : BOOLEAN, final : BOOLEAN, settled : BOOLEAN]

TypeCred ==
    /\ creds \in {"absent", "present", "stuck"} /\ removals \in Nat
    /\ once \in [Onces -> {"new", "running", "done"}]

TypeNetwork ==
    /\ egress \in {"off", "enforced", "suspended", "restored"}
    /\ isolated \in {"no", "before", "after"} /\ restored \in BOOLEAN
    /\ layer \in [Layers -> {"off", "bare", "held", "missed"}]

TypeLink ==
    /\ servant \in {"none", "serving", "lost", "closed"}
    /\ rung \in Onces \cup Layers \cup {"none"}

TypeSurface ==
    /\ secrets \in BOOLEAN /\ token \in BOOLEAN
    /\ guard \in {"none", "local", "harness"}
    /\ pinned \in BOOLEAN /\ monitor \in BOOLEAN

TypeStopping ==
    /\ ladder \in [Stops -> Steps] /\ timer \subseteq Stops
    /\ poweroff \in BOOLEAN

\* Every variable has its type.
TypeOK ==
    /\ TypeSession /\ TypeForensic /\ TypeCred /\ TypeNetwork
    /\ TypeLink /\ TypeSurface /\ TypeStopping

\* "Removed again on every shutdown path": whatever ends the session, and whoever
\* is removing when it does, no session credential is left that removal was not
\* tried on, and removal runs at most once although three goroutines may call it.
NoCredentialResidue ==
    /\ ~Alive => creds # "present"
    /\ removals <= 1

\* The ladder seals and finalizes "before any shutdown": when the machine is told
\* to go down the recording is final, the credentials have been dealt with and
\* the human has been shown the banner, even if another goroutine was finalizing.
ForensicsBeforeShutdown ==
    poweroff => engine = "closed" /\ creds # "present" /\ banner

\* The evidence bundle is sealed over final inputs: the recording is finalized,
\* and a chain that says credentials were installed also says they were removed.
BundleInputsFinal ==
    bundle.sealed => chain = "closed" /\ bundle.final /\ bundle.settled

\* No request is served unguarded: by then the environment holds no secret, the
\* local chain is in force exactly when its baselines are, and it is shed only
\* under a harness that acked enforce.
ServesOnlyGuarded ==
    pc = "serve" =>
        /\ ~secrets /\ ~token /\ monitor
        /\ (guard = "local") <=> pinned
        /\ guard = "harness" => (servant # "none" /\ cfg.harness = "enforce")

\* What containment did to the firewall is undone on exit: isolation applied
\* before the executor's Restore ran, and, once the harness teardown defers are
\* registered, whatever a rung had done and handed the undo of.
FirewallUndone ==
    ~Alive => /\ isolated # "before"
              /\ restored => \A r \in Layers : layer[r] \in {"off", "missed"}

\* The unwind peels the layers off in order.  When the local egress state comes
\* down, the firewall holds no isolation that began before the executor's
\* Restore, and nothing of a harness rung that had handed over its undo: what may
\* still be over it is only an isolation that a late trip began after Restore,
\* which nothing undoes.
LayeredRestore ==
    [][egress # "restored" /\ egress' = "restored"
         => /\ isolated' \in {"no", "after"}
            /\ \A r \in Layers : layer'[r] \in {"off", "missed"}]_vars

\* Once the switch trips, the Kill tool stops the session, the channel is lost or
\* the process is interrupted, the process exits (given that Desktop.Close
\* returns, which is Recording's subject).
StopEndsSession == (ctx # "live" \/ \E l \in Stops : ladder[l] # "idle") ~> ~Alive

\* The comment at the harness teardown: the egress rules a harness applied "come
\* out on exit, in case the harness never sent an explicit egress_restore".
HarnessRulesComeOut == ~Alive => layer["rules"] # "held"
=============================================================================
