------------------------------ MODULE WebJobs ------------------------------
(***************************************************************************)
(* The job manager of the WebUI server (powers_tool_webui): JobManager in  *)
(* jobs.py, and the route handlers and background tasks of app.py that     *)
(* drive it.                                                               *)
(*                                                                         *)
(* Everything but instrument I/O runs on one asyncio event loop.  The      *)
(* bodies of JobManager never await while they hold the manager's lock, so *)
(* a coroutine runs atomically from one real suspension to the next:       *)
(* asyncio.to_thread, asyncio.sleep and the creation of a task.  Each such *)
(* segment is one action.  The calls given to to_thread run in the         *)
(* default thread pool, PoolSize at a time, in the order of submission;    *)
(* each task has one call at a time, so a call is named by its task's job. *)
(*                                                                         *)
(* Jobs are told apart by what the manager does with them:                 *)
(*   "workflow"  ramp, ramp-list, sequence on real hardware                *)
(*   "other"     every other command on real hardware                      *)
(*   "planned"   a workflow in simulate or dry-run mode                    *)
(*   "offline"   another command in simulate or dry-run mode               *)
(*   "live"      live-data                                                 *)
(***************************************************************************)
EXTENDS Naturals, Sequences, FiniteSets

CONSTANTS
    Commands,       \* jobs of POST /api/jobs
    Lives,          \* jobs of POST /api/live
    NoJob,          \* None
    Kinds,          \* what the clients submit to /api/jobs
    PoolSize,       \* threads of the default executor
    BadParameters   \* a live-data request may have unusable parameters

Jobs == Commands \cup Lives

ASSUME JobsAssumption ==
    /\ Commands \cap Lives = {} /\ NoJob \notin Jobs
    /\ Kinds \subseteq {"workflow", "other", "planned", "offline"}
    /\ PoolSize \in Nat \ {0} /\ BadParameters \in BOOLEAN

VARIABLES
    kind,             \* of each job; fixed
    \* Job and JobManager
    status, errorCode, cancelRequested, ioInProgress, activeJob, hardwareLock,
    shutdownStarted, shutdownJobs,
    terminals,        \* the terminal events of each job, in order
    \* the background task of each job, and what its last call returned
    task, result,
    \* the thread pool: calls waiting for a thread, calls running in one
    pool, running,
    \* the coroutine JobManager.shutdown
    shutdownPc

jobVars == <<status, errorCode, cancelRequested, terminals>>
lockVars == <<activeJob, hardwareLock>>
taskVars == <<task, result, ioInProgress>>
poolVars == <<pool, running>>
shutdownVars == <<shutdownStarted, shutdownJobs, shutdownPc>>
vars == <<kind, jobVars, lockVars, taskVars, poolVars, shutdownVars>>

-----------------------------------------------------------------------------
(* Data *)

\* A status is "none", "accepted", "started", "cancel_requested" or terminal;
\* "progress" is "started" to every test of a status.
Terminal == {"finished", "failed", "cancelled"}

\* A task is suspended before its first step ("ready"), in to_thread of the
\* lock's acquire ("acquiring") or of the command ("executing", then "closing"
\* its session), after either has returned ("acquired", "returned"), or in a
\* sleep ("sleeping", "sleeping_locked").
Results == {"none", "ok", "cancelled", "cleanup_failed", "error"}

\* Job.requires_hardware_lock
RequiresHardwareLock(j) == kind[j] \in {"workflow", "other"}

Unfinished(j) == status[j] \notin Terminal \cup {"none"}

Init ==
    /\ kind \in {k \in [Jobs -> Kinds \cup {"live"}] :
                    \A j \in Jobs : k[j] = "live" <=> j \in Lives}
    /\ status = [j \in Jobs |-> "none"] /\ errorCode = [j \in Jobs |-> "none"]
    /\ cancelRequested = [j \in Jobs |-> FALSE]
    /\ ioInProgress = [j \in Lives |-> FALSE]
    /\ activeJob = NoJob /\ hardwareLock = NoJob
    /\ shutdownStarted = FALSE /\ shutdownJobs = {} /\ shutdownPc = "idle"
    /\ terminals = [j \in Jobs |-> << >>]
    /\ task = [j \in Jobs |-> "none"] /\ result = [j \in Jobs |-> "none"]
    /\ pool = << >> /\ running = {}

-----------------------------------------------------------------------------
(* JobManager's operations on one job *)

SetStatus(j, s) == status' = [status EXCEPT ![j] = s]

\* finish_job, complete_cancel and fail_job end a job whatever its status is.
EndJob(j, s, code) ==
    /\ SetStatus(j, s)
    /\ errorCode' = [errorCode EXCEPT ![j] = code]
    /\ terminals' = [terminals EXCEPT ![j] = Append(@, s)]
    /\ UNCHANGED cancelRequested

\* Mutants: ending any job frees the slot; ending a job keeps it.
SlotClearedBy(j) == NoJob
SlotKept(j) == activeJob

SlotAfter(j) == IF activeJob = j THEN NoJob ELSE activeJob

Goto(j, pc) == task' = [task EXCEPT ![j] = pc]

\* asyncio.to_thread
Call(j) == pool' = Append(pool, j) /\ UNCHANGED running

\* Mutant: the task does not wait for the lock.
EntersAtOnce(j, pc) == hardwareLock' = j /\ Goto(j, pc) /\ Call(j)

\* hardware_io: the lock if it is free, else a thread waits for it.
EnterHardwareIo(j, pc) ==
    IF hardwareLock = NoJob
    THEN hardwareLock' = j /\ Goto(j, pc) /\ Call(j)
    ELSE UNCHANGED hardwareLock /\ Goto(j, "acquiring") /\ Call(j)

\* Mutant: a running job is cancelled at once.
StatusAtOnce(j) ==
    IF status[j] \in {"accepted", "started", "cancel_requested"} THEN "cancelled"
    ELSE status[j]

\* cancel_job, for one job: the status it leaves.
CancelledStatus(j) ==
    CASE status[j] = "accepted" -> "cancelled"
      [] status[j] \in {"started", "cancel_requested"} -> "cancel_requested"
      [] OTHER -> status[j]

CancelJobs(J) ==
    /\ status' = [j \in Jobs |-> IF j \in J THEN CancelledStatus(j) ELSE status[j]]
    /\ cancelRequested' = [j \in Jobs |-> cancelRequested[j] \/ (j \in J /\ Unfinished(j))]
    /\ terminals' = [j \in Jobs |->
                        IF j \in J /\ Unfinished(j) /\ CancelledStatus(j) = "cancelled"
                        THEN Append(terminals[j], "cancelled") ELSE terminals[j]]
    /\ UNCHANGED errorCode

-----------------------------------------------------------------------------
(* Route handlers *)

\* Mutant: a stopping server accepts jobs.
AdmitsAlways(j) == RequiresHardwareLock(j) => activeJob = NoJob

\* What create_job and submit_job test; a rejected request changes nothing.
Admits(j) ==
    /\ ~shutdownStarted
    /\ RequiresHardwareLock(j) => activeJob = NoJob

\* POST /api/jobs, when the background task is only created.
CreateJob(j) ==
    /\ j \in Commands /\ kind[j] # "offline"
    /\ status[j] = "none" /\ Admits(j)
    /\ SetStatus(j, "accepted") /\ Goto(j, "ready")
    /\ UNCHANGED <<kind, errorCode, cancelRequested, terminals, lockVars, result,
                   ioInProgress, poolVars, shutdownVars>>

\* POST /api/jobs, when create_job awaits the background coroutine itself: the
\* job starts in the same segment.
CreateOfflineJob(j) ==
    /\ kind[j] = "offline"
    /\ status[j] = "none" /\ Admits(j)
    /\ SetStatus(j, "started") /\ Goto(j, "executing") /\ Call(j)
    /\ UNCHANGED <<kind, errorCode, cancelRequested, terminals, lockVars, result,
                   ioInProgress, shutdownVars>>

\* POST /api/live
StartLiveData(j) ==
    /\ j \in Lives
    /\ status[j] = "none" /\ Admits(j)
    /\ SetStatus(j, "accepted") /\ Goto(j, "ready")
    /\ UNCHANGED <<kind, errorCode, cancelRequested, terminals, lockVars, result,
                   ioInProgress, poolVars, shutdownVars>>

\* POST /api/jobs/{job_id}/cancel and POST /api/live/{job_id}/stop
CancelJob(j) ==
    /\ Unfinished(j)
    /\ CancelJobs({j})
    /\ UNCHANGED <<kind, lockVars, taskVars, poolVars, shutdownVars>>

-----------------------------------------------------------------------------
(* The background task of a command: _execute_job_background *)

\* start_job returns True.
Starts(j) ==
    /\ status[j] = "accepted"
    /\ RequiresHardwareLock(j) => activeJob = NoJob

TaskStart(j) ==
    /\ j \in Commands /\ task[j] = "ready" /\ Starts(j)
    /\ SetStatus(j, "started")
    /\ IF RequiresHardwareLock(j)
       THEN activeJob' = j /\ EnterHardwareIo(j, "executing")
       ELSE Goto(j, "executing") /\ Call(j) /\ UNCHANGED lockVars
    /\ UNCHANGED <<kind, errorCode, cancelRequested, terminals, result,
                   ioInProgress, shutdownVars>>

\* Mutant: a job that finds the slot taken is given up silently.
GivesUp(j) == FALSE

\* A job that does not start is failed unless it was cancelled.
FailsToStart(j) == status[j] # "cancelled"

TaskCannotStart(j) ==
    /\ j \in Commands /\ task[j] = "ready" /\ ~Starts(j)
    /\ Goto(j, "done")
    /\ \/ FailsToStart(j) /\ EndJob(j, "failed", "other") /\ activeJob' = SlotAfter(j)
       \/ ~FailsToStart(j) /\ UNCHANGED <<jobVars, activeJob>>
    /\ UNCHANGED <<kind, hardwareLock, result, ioInProgress, poolVars, shutdownVars>>

TaskAcquired(j) ==
    /\ j \in Commands /\ task[j] = "acquired"
    /\ Goto(j, "executing") /\ Call(j)
    /\ UNCHANGED <<kind, jobVars, lockVars, result, ioInProgress, shutdownVars>>

\* How the job ends, from what the call returned or raised: a workflow on real
\* hardware that a cancellation missed is a failed cleanup.
Ending(j) ==
    CASE result[j] = "ok" /\ ~cancelRequested[j] -> <<"finished", "none">>
      [] result[j] = "ok" /\ cancelRequested[j] /\ kind[j] = "workflow" ->
            <<"failed", "cleanup_failed">>
      [] result[j] = "ok" /\ cancelRequested[j] /\ kind[j] # "workflow" ->
            <<"cancelled", "none">>
      [] result[j] = "cancelled" -> <<"cancelled", "none">>
      [] result[j] = "cleanup_failed" -> <<"failed", "cleanup_failed">>
      [] result[j] = "error" -> <<"failed", "other">>

TaskReturns(j) ==
    /\ j \in Commands /\ task[j] = "returned"
    /\ Goto(j, "done")
    /\ result' = [result EXCEPT ![j] = "none"]
    /\ EndJob(j, Ending(j)[1], Ending(j)[2])
    /\ activeJob' = SlotAfter(j)
    /\ hardwareLock' = IF RequiresHardwareLock(j) THEN NoJob ELSE hardwareLock
    /\ UNCHANGED <<kind, ioInProgress, poolVars, shutdownVars>>

-----------------------------------------------------------------------------
(* The background task of live data: _execute_live_data_background *)

\* complete_cancel after the loop.
LiveEnds(j) ==
    /\ EndJob(j, "cancelled", errorCode[j]) /\ activeJob' = SlotAfter(j)
    /\ Goto(j, "done")

\* The reading of the panel starts in a thread.
LiveReads(j) ==
    /\ ioInProgress' = [ioInProgress EXCEPT ![j] = TRUE]
    /\ Goto(j, "executing") /\ Call(j)

\* One pass of the loop, from its test to the next suspension; the lock is
\* not held.  st is the status the pass finds.
LivePass(j, st) ==
    \/ /\ cancelRequested[j]
       /\ LiveEnds(j)
       /\ UNCHANGED <<hardwareLock, ioInProgress, poolVars>>
    \/ /\ ~cancelRequested[j] /\ activeJob # NoJob
       /\ Goto(j, "sleeping") /\ status' = st
       /\ UNCHANGED <<errorCode, cancelRequested, terminals, lockVars, ioInProgress,
                      poolVars>>
    \/ /\ ~cancelRequested[j] /\ activeJob = NoJob
       /\ EnterHardwareIo(j, "executing") /\ status' = st
       /\ ioInProgress' = [ioInProgress EXCEPT ![j] = (hardwareLock = NoJob)]
       /\ UNCHANGED <<errorCode, cancelRequested, terminals, activeJob>>

\* start_job, whose result is not looked at, and the first pass.
LiveStart(j) ==
    /\ j \in Lives /\ task[j] = "ready"
    /\ LivePass(j, IF status[j] = "accepted" THEN [status EXCEPT ![j] = "started"]
                                             ELSE status)
    /\ UNCHANGED <<kind, result, shutdownVars>>

\* The interval of the request cannot be used.
LiveStartFails(j) ==
    /\ BadParameters
    /\ j \in Lives /\ task[j] = "ready"
    /\ EndJob(j, "failed", "other") /\ activeJob' = SlotAfter(j) /\ Goto(j, "done")
    /\ UNCHANGED <<kind, hardwareLock, result, ioInProgress, poolVars, shutdownVars>>

\* Mutant: after the wait, the task reads without looking again.
ReadsAfterWait(j) == TRUE

\* The lock is obtained after a wait: a cancellation and an active command
\* are looked for again.
MayReadAfterWait(j) == ~cancelRequested[j] /\ activeJob = NoJob

LiveAcquired(j) ==
    /\ j \in Lives /\ task[j] = "acquired"
    /\ \/ /\ MayReadAfterWait(j)
          /\ LiveReads(j)
          /\ UNCHANGED <<jobVars, lockVars>>
       \/ /\ ~MayReadAfterWait(j) /\ cancelRequested[j]
          /\ LiveEnds(j) /\ hardwareLock' = NoJob
          /\ UNCHANGED <<ioInProgress, poolVars>>
       \/ /\ ~MayReadAfterWait(j) /\ ~cancelRequested[j]
          /\ Goto(j, "sleeping_locked")
          /\ UNCHANGED <<jobVars, lockVars, ioInProgress, poolVars>>
    /\ UNCHANGED <<kind, result, shutdownVars>>

\* Mutant: the flag is cleared only when the monitoring goes on.
IoUnlessCancelled(j) == [ioInProgress EXCEPT ![j] = cancelRequested[j]]

IoAfterReading(j) == [ioInProgress EXCEPT ![j] = FALSE]

\* Mutant: the lock is kept while the monitoring goes on.
LockWhileMonitoring(j) == IF cancelRequested[j] THEN NoJob ELSE hardwareLock

LockAfterReading(j) == NoJob

\* A reading or its error: the sample is reported and the task sleeps, or
\* ends at once when it is cancelled.
LiveReturns(j) ==
    /\ j \in Lives /\ task[j] = "returned"
    /\ ioInProgress' = IoAfterReading(j) /\ hardwareLock' = LockAfterReading(j)
    /\ result' = [result EXCEPT ![j] = "none"]
    /\ \/ cancelRequested[j] /\ LiveEnds(j)
       \/ ~cancelRequested[j] /\ Goto(j, "sleeping") /\ UNCHANGED <<jobVars, activeJob>>
    /\ UNCHANGED <<kind, poolVars, shutdownVars>>

LiveWakes(j) ==
    /\ j \in Lives /\ task[j] = "sleeping"
    /\ LivePass(j, status)
    /\ UNCHANGED <<kind, result, shutdownVars>>

\* The busy sleep inside hardware_io ends: the lock is released and the next
\* pass finds the command still active, which waits for this very lock.
LiveWakesLocked(j) ==
    /\ j \in Lives /\ task[j] = "sleeping_locked"
    /\ hardwareLock' = NoJob
    /\ \/ cancelRequested[j] /\ LiveEnds(j)
       \/ /\ ~cancelRequested[j] /\ activeJob # NoJob
          /\ Goto(j, "sleeping") /\ UNCHANGED <<jobVars, activeJob>>
    /\ UNCHANGED <<kind, result, ioInProgress, poolVars, shutdownVars>>

LoopStep(j) ==
    \/ TaskStart(j) \/ TaskCannotStart(j) \/ TaskAcquired(j) \/ TaskReturns(j)
    \/ LiveStart(j) \/ LiveStartFails(j) \/ LiveAcquired(j) \/ LiveReturns(j)
    \/ LiveWakes(j) \/ LiveWakesLocked(j)

-----------------------------------------------------------------------------
(* The thread pool *)

CallStarts ==
    /\ pool # << >> /\ Cardinality(running) < PoolSize
    /\ running' = running \cup {Head(pool)} /\ pool' = Tail(pool)
    /\ UNCHANGED <<kind, jobVars, lockVars, taskVars, shutdownVars>>

\* threading.Lock.acquire returns.
LockAcquired(j) ==
    /\ j \in running /\ task[j] = "acquiring"
    /\ hardwareLock = NoJob
    /\ hardwareLock' = j /\ Goto(j, "acquired") /\ running' = running \ {j}
    /\ UNCHANGED <<kind, jobVars, activeJob, result, ioInProgress, pool, shutdownVars>>

(***************************************************************************)
(* execute_job_command up to the end of the core command's body, or        *)
(* execute_live_panel_read.  The cancellation is polled: a workflow that   *)
(* ends "ok" saw none at its last poll.                                    *)
(***************************************************************************)
BodyEnds(j, r) ==
    /\ j \in running /\ task[j] = "executing"
    /\ \/ r = "error"
       \/ r = "ok" /\ (kind[j] = "workflow" => ~cancelRequested[j])
       \/ r = "cancelled" /\ cancelRequested[j] /\ j \in Commands
       \/ r = "cleanup_failed" /\ cancelRequested[j] /\ kind[j] = "workflow"
    /\ result' = [result EXCEPT ![j] = r] /\ Goto(j, "closing")
    /\ UNCHANGED <<kind, jobVars, lockVars, ioInProgress, poolVars, shutdownVars>>

\* The session closes: after a cancellation, its cleanup may fail.
CallReturns(j) ==
    /\ j \in running /\ task[j] = "closing"
    /\ \/ UNCHANGED result
       \/ /\ RequiresHardwareLock(j) /\ cancelRequested[j]
          /\ result' = [result EXCEPT ![j] = "cleanup_failed"]
    /\ Goto(j, "returned") /\ running' = running \ {j}
    /\ UNCHANGED <<kind, jobVars, lockVars, ioInProgress, pool, shutdownVars>>

ThreadStep(j) ==
    \/ \E r \in Results : BodyEnds(j, r)
    \/ CallReturns(j)

-----------------------------------------------------------------------------
(* JobManager.shutdown, which the launcher and the desktop host run on the  *)
(* loop, again if it has failed or timed out.                               *)

\* Mutant: each call looks at the jobs of its own time only.
JobsOfThisCall == {j \in Jobs : Unfinished(j)}

ShutdownJobs == shutdownJobs \cup {j \in Jobs : Unfinished(j)}

Shutdown ==
    /\ shutdownPc \in {"idle", "failed", "timeout"}
    /\ shutdownStarted' = TRUE /\ shutdownPc' = "polling"
    /\ shutdownJobs' = ShutdownJobs
    /\ CancelJobs(shutdownJobs')
    /\ UNCHANGED <<kind, lockVars, taskVars, poolVars>>

CleanupFailures == {j \in shutdownJobs : errorCode[j] = "cleanup_failed"}

JobsQuiet ==
    /\ \A j \in shutdownJobs : ~Unfinished(j)
    /\ activeJob = NoJob
    /\ \A j \in Lives : ~ioInProgress[j]

ShutdownEnds ==
    /\ shutdownPc = "polling"
    /\ \/ CleanupFailures # {} /\ shutdownPc' = "failed"
       \/ CleanupFailures = {} /\ JobsQuiet /\ shutdownPc' = "returned"
    /\ UNCHANGED <<kind, jobVars, lockVars, taskVars, poolVars, shutdownStarted,
                   shutdownJobs>>

ShutdownTimesOut ==
    /\ shutdownPc = "polling" /\ CleanupFailures = {} /\ ~JobsQuiet
    /\ shutdownPc' = "timeout"
    /\ UNCHANGED <<kind, jobVars, lockVars, taskVars, poolVars, shutdownStarted,
                   shutdownJobs>>

-----------------------------------------------------------------------------
\* The server waits for requests: no task and no shutdown is under way.
Waiting ==
    /\ \A j \in Jobs : task[j] \in {"none", "done"}
    /\ shutdownPc # "polling"
    /\ UNCHANGED vars

Next ==
    \/ \E j \in Jobs : \/ CreateJob(j) \/ CreateOfflineJob(j) \/ StartLiveData(j)
                       \/ CancelJob(j) \/ LoopStep(j) \/ LockAcquired(j) \/ ThreadStep(j)
    \/ CallStarts
    \/ Shutdown \/ ShutdownEnds \/ ShutdownTimesOut
    \/ Waiting

Spec == Init /\ [][Next]_vars

(***************************************************************************)
(* The event loop runs every ready task, the pool serves its queue and     *)
(* every instrument call ends.  A released lock is given to a waiting      *)
(* thread in the end: a task that has just released it sleeps before it    *)
(* asks again.  Nothing makes clients submit or cancel, the user quit or a *)
(* shutdown time out.                                                      *)
(***************************************************************************)
Fairness ==
    /\ \A j \in Jobs : WF_vars(LoopStep(j)) /\ WF_vars(ThreadStep(j)) /\ SF_vars(LockAcquired(j))
    /\ WF_vars(CallStarts)
    /\ WF_vars(ShutdownEnds)

FairSpec == Spec /\ Fairness

-----------------------------------------------------------------------------
(* Properties *)

\* Jobs whose call is on the instrument: a command or a reading in a thread.
OnInstrument == {j \in running : task[j] \in {"executing", "closing"}
                                 /\ (RequiresHardwareLock(j) \/ j \in Lives)}

\* "Live Data reads must not overlap real hardware command I/O", and commands
\* do not overlap: one thread at a time is on the instrument, and its task
\* holds the hardware lock.
HardwareExclusive ==
    /\ Cardinality(OnInstrument) <= 1
    /\ \A j \in OnInstrument : hardwareLock = j

\* The slot and the lock are kept "until the current thread I/O and Core stop
\* cleanup finish": a real command between its start and its end is the active
\* job, and a job with a terminal status has neither slot, lock nor thread.
TerminalMeansReleased ==
    /\ \A j \in Commands : RequiresHardwareLock(j) /\ status[j] \in {"started", "cancel_requested"}
                              => activeJob = j
    /\ \A j \in Jobs : status[j] \in Terminal =>
          activeJob # j /\ j \notin running /\ hardwareLock # j

\* A command has at most one terminal event, and it is its status; it has one
\* when its task is over.
OneTerminalEvent ==
    \A j \in Commands :
        /\ Len(terminals[j]) <= 1
        /\ task[j] = "done" => status[j] \in Terminal
        /\ status[j] \in Terminal <=> terminals[j] = <<status[j]>>

\* The end of a command is final: no late cancellation or result changes it.
EndIsFinal ==
    [][\A j \in Commands : status[j] \in Terminal =>
          status'[j] = status[j] /\ errorCode'[j] = errorCode[j]]_vars

\* When shutdown returns, nothing touches the instrument any more and nothing
\* will: every job has ended and no call is left.
QuietAfterShutdown ==
    shutdownPc = "returned" =>
        /\ \A j \in Jobs : ~Unfinished(j)
        /\ activeJob = NoJob /\ hardwareLock = NoJob
        /\ pool = << >> /\ running = {}

\* A failed cleanup stays known: shutdown, once it has failed, never returns
\* quietly when it is called again.
CleanupFailureStops == [](shutdownPc = "failed" => [](shutdownPc # "returned"))

\* Live data steps back: a reading begins only while no command is active.
LiveStepsBack ==
    [][\A j \in Lives : ~ioInProgress[j] /\ ioInProgress'[j] => activeJob = NoJob]_vars

\* Every accepted command ends.
CommandsEnd == \A j \in Commands : status[j] = "accepted" ~> status[j] \in Terminal

\* A live-data job that is asked to stop does, whatever the commands do.
LiveStops == \A j \in Lives : cancelRequested[j] ~> status[j] \in Terminal /\ ~ioInProgress[j]

\* A shutdown ends by itself: it needs its timeout only for slow instruments.
ShutdownCompletes == shutdownPc = "polling" ~> shutdownPc # "polling"
=============================================================================
