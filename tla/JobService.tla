----------------------------- MODULE JobService -----------------------------
(***************************************************************************)
(* What the desktop engine promises its callers (Desktop.Do and            *)
(* Desktop.Close): jobs are served one at a time, each asked for job is    *)
(* answered or refused, and once the engine is closed the jobs still       *)
(* waiting are refused and none that is asked for later is begun.          *)
(***************************************************************************)
CONSTANT Callers

VARIABLES
    job,    \* each caller's job: "none", "asked", "running", "answered", "refused"
    open    \* the engine has not been closed

vars == <<job, open>>

Init == job = [c \in Callers |-> "none"] /\ open = TRUE

Ask(c) ==
    /\ job[c] \notin {"asked", "running"}
    /\ job' = [job EXCEPT ![c] = "asked"]
    /\ UNCHANGED open

Begin(c) ==
    /\ job[c] = "asked" /\ open
    /\ \A d \in Callers : job[d] # "running"
    /\ job' = [job EXCEPT ![c] = "running"]
    /\ UNCHANGED open

Answer(c) ==
    /\ job[c] = "running"
    /\ job' = [job EXCEPT ![c] = "answered"]
    /\ UNCHANGED open

Refuse(c) ==
    /\ job[c] = "asked" /\ ~open
    /\ job' = [job EXCEPT ![c] = "refused"]
    /\ UNCHANGED open

\* Closing refuses those that wait already, or leaves that to them.
Close ==
    /\ open /\ open' = FALSE
    /\ \E waiting \in SUBSET { c \in Callers : job[c] = "asked" } :
           job' = [c \in Callers |-> IF c \in waiting THEN "refused" ELSE job[c]]

Next == Close \/ \E c \in Callers : Ask(c) \/ Begin(c) \/ Answer(c) \/ Refuse(c)

\* An asked for job is begun in its turn unless the engine closes.
Spec ==
    /\ Init /\ [][Next]_vars
    /\ \A c \in Callers : WF_vars(Answer(c)) /\ SF_vars(Begin(c) \/ Refuse(c))
=============================================================================
