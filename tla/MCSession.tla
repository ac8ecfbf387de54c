----------------------------- MODULE MCSession -----------------------------
(***************************************************************************)
(* Instances of Session for TLC.                                           *)
(***************************************************************************)
EXTENDS Session

\* Containment armed and possible, with every harness mode.
ArmedConfigs ==
    { c \in ConfigType : c.credFile /\ c.evidence /\ c.egress
                         /\ c.isolate /\ c.elevated /\ c.shutdown /\ ~c.lock }

\* Containment off, so that the Kill tool stops the session gracefully.  A
\* harness, whose rungs meet the ladder in the armed configurations, is left out.
GracefulConfigs ==
    { c \in ConfigType : c.credFile /\ c.evidence /\ c.egress
                         /\ ~c.isolate /\ ~c.elevated /\ ~c.shutdown /\ ~c.lock
                         /\ c.harness = "none" }

\* Armed without elevation, so that the ladder skips what it may not do, or with
\* nothing but the workstation lock; no credentials, no evidence directory and no
\* egress policy.
BareConfigs ==
    { c \in ConfigType : ~c.credFile /\ ~c.evidence /\ ~c.egress
                         /\ ~c.elevated /\ c.harness = "none"
                         /\ c.shutdown = c.isolate /\ c.lock = ~c.isolate }

AllConfigs == ArmedConfigs \cup GracefulConfigs \cup BareConfigs

HarnessConfigs == { c \in ArmedConfigs : c.harness = "observe" }
=============================================================================
