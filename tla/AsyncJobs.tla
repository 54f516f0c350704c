----------------------------- MODULE AsyncJobs -----------------------------
(***************************************************************************)
(* The contract of asynchronous jobs (common.async_jobs and                *)
(* common.job_cancel, contract version 1) as the Power Worker adopts it:   *)
(* one slot, one terminal per job, announced once; a terminal "cancelled"  *)
(* needs an accepted cancellation of that very job, and a terminal         *)
(* "stopped" needs admission to be closed.  The Worker's threads, locks    *)
(* and events are in PowerWorker, which implements this specification.     *)
(***************************************************************************)
CONSTANTS Jobs

VARIABLES phase,      \* where each job is in its life
          outcome,    \* the terminal outcome of each job
          cancelled,  \* the jobs an accepted POST /cancel named
          admitting   \* new commands may be accepted

vars == <<phase, outcome, cancelled, admitting>>

Outcomes == {"succeeded", "failed", "cleanup_failed", "cancelled", "stopped"}

Init ==
    /\ phase = [j \in Jobs |-> "none"]
    /\ outcome = [j \in Jobs |-> "none"]
    /\ cancelled = {}
    /\ admitting = TRUE

\* POST /command is accepted: no other job is queued or running.
Admit(j) ==
    /\ admitting
    /\ phase[j] = "none"
    /\ \A k \in Jobs : phase[k] \notin {"queued", "running"}
    /\ phase' = [phase EXCEPT ![j] = "queued"]
    /\ UNCHANGED <<outcome, cancelled, admitting>>

Start(j) ==
    /\ phase[j] = "queued"
    /\ phase' = [phase EXCEPT ![j] = "running"]
    /\ UNCHANGED <<outcome, cancelled, admitting>>

\* The race the contract admits: a cancellation may be accepted for a job
\* whose outcome is already decided, and then changes nothing.
RequestCancel(j) ==
    /\ phase[j] \in {"queued", "running", "terminal"}
    /\ cancelled' = cancelled \cup {j}
    /\ UNCHANGED <<phase, outcome, admitting>>

\* The terminal is created.  A failure of the runtime also closes admission.
End(j, o) ==
    /\ phase[j] = "running"
    /\ o = "cancelled" => j \in cancelled
    /\ o = "stopped" => ~admitting
    /\ phase' = [phase EXCEPT ![j] = "terminal"]
    /\ outcome' = [outcome EXCEPT ![j] = o]
    /\ UNCHANGED admitting \/ (o = "failed" /\ admitting' = FALSE)
    /\ UNCHANGED cancelled

\* job_finished, once.
Announce(j) ==
    /\ phase[j] = "terminal"
    /\ phase' = [phase EXCEPT ![j] = "announced"]
    /\ UNCHANGED <<outcome, cancelled, admitting>>

\* A stop: jobs accepted before keep their execution and their terminal.
Close ==
    /\ admitting' = FALSE
    /\ UNCHANGED <<phase, outcome, cancelled>>

Next ==
    \/ \E j \in Jobs : \/ Admit(j) \/ Start(j) \/ RequestCancel(j) \/ Announce(j)
                       \/ \E o \in Outcomes : End(j, o)
    \/ Close

Spec == Init /\ [][Next]_vars
=============================================================================
