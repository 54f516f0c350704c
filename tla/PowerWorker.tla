---------------------------- MODULE PowerWorker ----------------------------
(***************************************************************************)
(* The Power Worker daemon: one process with                               *)
(*   - the main thread, which serves HTTP until it is told to stop         *)
(*     (run_worker in worker.py);                                          *)
(*   - one daemon thread per HTTP request (worker_http.py);                *)
(*   - the job runner thread, which executes the accepted jobs one at a    *)
(*     time (worker_execution.py).                                         *)
(* They share WorkerState (worker_state.py) under one Condition.  Each     *)
(* `with state.lock` section is one action; code outside a section that    *)
(* another thread can observe, an emitted JSONL event in particular, is an *)
(* action of its own.                                                      *)
(*                                                                         *)
(* A request is identified with the thread that handles it, and a job with *)
(* the POST /command request that submits it.  Commands are told apart by  *)
(* what the Worker does with them only:                                    *)
(*   "workflow"  ramp, ramp-list, sequence: cancellable, with safe-off     *)
(*   "log"       cancellable, read-only, no cleanup on its session         *)
(*   "other"     everything else: never cancellable, but stoppable         *)
(***************************************************************************)
EXTENDS Naturals, Sequences

CONSTANTS
    Jobs,           \* POST /command requests, and the jobs they submit
    Cancels,        \* POST /cancel requests
    Stops,          \* POST /stop requests
    NoJob,          \* None
    Commands,       \* what the clients submit, of CommandKinds
    Mode,           \* execution mode: "live", "simulate" or "dry_run"
    FilesMode,      \* artifact_mode is "files", not "memory"
    Interrupts,     \* Ctrl-C may reach serve_forever
    ServeFailures   \* serve_forever may raise

Requests == Jobs \cup Cancels \cup Stops

ASSUME RequestsAssumption ==
    /\ Jobs \cap Cancels = {} /\ Jobs \cap Stops = {} /\ Cancels \cap Stops = {}
    /\ NoJob \notin Requests

CommandKinds == {"workflow", "log", "other"}
Cancellable == {"workflow", "log"}

ASSUME ModeAssumption ==
    /\ Commands \subseteq CommandKinds
    /\ Mode \in {"live", "simulate", "dry_run"}
    /\ FilesMode \in BOOLEAN /\ Interrupts \in BOOLEAN /\ ServeFailures \in BOOLEAN

VARIABLES
    \* WorkerState
    status, activeJob, lastJob, fatalError, stopEvent, shutdownEvent,
    jobCancelEvent, nextJob, pendingTerminal, shutdownFlag,
    cleanupResults, cleanupFailed,
    \* request handler threads
    handlerPc, answer, target, command,
    \* the job runner thread
    runnerPc, job, result, terminalEvent, shouldShutdown,
    \* the main thread and the HTTP server
    mainPc, served, httpShutdown,
    \* JSONL output: the job_finished events of each job, as the sequence of
    \* their outcomes, and the Worker's own terminal events
    finished, workerEvents,
    \* history: the jobs whose workflow safe-off passed every stage
    safeOff

stateVars == <<status, activeJob, lastJob, fatalError, stopEvent, shutdownEvent,
               jobCancelEvent, nextJob, pendingTerminal, shutdownFlag,
               cleanupResults, cleanupFailed>>
handlerVars == <<handlerPc, answer, target, command>>
runnerVars == <<runnerPc, job, result, terminalEvent, shouldShutdown>>
mainVars == <<mainPc, served, httpShutdown>>
outputVars == <<finished, workerEvents>>
vars == <<stateVars, handlerVars, runnerVars, mainVars, outputVars, safeOff>>

-----------------------------------------------------------------------------
(* Data *)

\* What run_core_command returns or raises: a dict whose status is completed
\* or failed; an error that stays an error ("failed": CoreValidationError and
\* CoreIoError) or may be reclassified ("execution": every other one);
\* CommandCancelled of a cancellable command; TriggerInterrupted and
\* CommandCancelled of another one; StopCleanupError.
CoreResults == {"completed", "step_failed", "failed", "execution",
                "cancelled", "interrupted", "cleanup_failed"}

\* Terminal outcomes: the success, and the error codes that matter below.
Outcomes == {"succeeded", "failed", "cleanup_failed", "cancelled", "stopped"}

NoActive == [job |-> NoJob, status |-> "none"]
ActiveJobs == [job : Jobs, status : {"queued", "running", "stopping"}]
NoTerminal == [job |-> NoJob, outcome |-> "none"]
Terminals == [job : Jobs, outcome : Outcomes]

Answers == {"none", "accepted", "busy", "run_not_ready", "job_not_active",
            "artifact_error"}
WorkerEvents == {"worker_stopping", "summary_ok", "summary_failed"}

RunnerPcs == {"wait", "begin", "core", "unwind", "check", "classify",
              "publish", "finish", "announce", "drain", "gone"}
MainPcs == {"serving", "failing", "closing", "flagging", "requesting",
            "releasing", "joining", "summarized", "exited"}

\* The runner is inside _run_job_impl: the job has no terminal yet.
Running == {"begin", "core", "unwind", "check", "classify", "publish"}

Finished(j) == finished[j] # << >>
Accepted(j) == handlerPc[j] = "emit" \/ answer[j] = "accepted"

\* The stop_requested callback that run_core_command polls.
StopRequested == stopEvent \/ jobCancelEvent

\* status_snapshot: the Common worker_state that GET /status reports.
WorkerState == IF status = "error" THEN "failed"
               ELSE IF status = "stopping" \/ stopEvent THEN "stopping"
               ELSE "running"

-----------------------------------------------------------------------------
Init ==
    /\ status = "ready" /\ activeJob = NoActive /\ lastJob = NoTerminal
    /\ fatalError = FALSE
    /\ stopEvent = FALSE /\ shutdownEvent = FALSE /\ jobCancelEvent = FALSE
    /\ nextJob = NoJob /\ pendingTerminal = NoTerminal /\ shutdownFlag = FALSE
    /\ cleanupResults = FALSE /\ cleanupFailed = FALSE
    /\ handlerPc = [r \in Requests |-> "idle"]
    /\ answer = [r \in Requests |-> "none"]
    /\ target = [c \in Cancels |-> NoJob]
    /\ command \in [Jobs -> Commands]
    /\ runnerPc = "wait" /\ job = NoJob /\ result = "none"
    /\ terminalEvent = NoTerminal /\ shouldShutdown = FALSE
    /\ mainPc = "serving" /\ served = "none" /\ httpShutdown = FALSE
    /\ finished = [j \in Jobs |-> << >>] /\ workerEvents = << >>
    /\ safeOff = {}

EmitFinished(t) == finished' = [finished EXCEPT ![t.job] = Append(@, t.outcome)]
EmitWorker(e) == workerEvents' = Append(workerEvents, e)

(***************************************************************************)
(* run_worker's except clause stores status = "error" without the lock.    *)
(* When that store falls between the test and the store of a section that  *)
(* sets status, the section overwrites it and only the main thread's       *)
(* progress shows.                                                         *)
(***************************************************************************)
MainMeanwhile ==
    /\ UNCHANGED served
    /\ \/ UNCHANGED mainPc
       \/ /\ ServeFailures /\ mainPc = "serving" /\ status' # status
          /\ mainPc' = "failing"

\* Mutant: the server is told to stop only under the status test.
RequestShutdownOnce ==
    IF status \in {"stopping", "error"}
    THEN UNCHANGED <<status, workerEvents, httpShutdown>>
    ELSE status' = "stopping" /\ httpShutdown' = TRUE /\ EmitWorker("worker_stopping")

\* request_worker_shutdown: the status section and the server.shutdown thread.
RequestShutdown ==
    /\ httpShutdown' = TRUE
    /\ IF status \in {"stopping", "error"}
       THEN UNCHANGED <<status, workerEvents>>
       ELSE status' = "stopping" /\ EmitWorker("worker_stopping")

\* Mutant: a failed result does not supply the fatal error.
RecordCleanupOnly(ok) ==
    /\ cleanupResults' = TRUE /\ UNCHANGED fatalError
    /\ IF ok
       THEN UNCHANGED <<cleanupFailed, status>>
       ELSE cleanupFailed' = TRUE /\ status' = "error"

\* record_cleanup_result for the results of one phase.  The power_cleanup
\* events and the individual results are not kept.
RecordCleanup(ok) ==
    /\ cleanupResults' = TRUE
    /\ IF ok
       THEN UNCHANGED <<cleanupFailed, status, fatalError>>
       ELSE cleanupFailed' = TRUE /\ status' = "error" /\ fatalError' = TRUE

-----------------------------------------------------------------------------
(* Request handler threads *)

Reply(r, a) ==
    /\ handlerPc' = [handlerPc EXCEPT ![r] = "done"]
    /\ answer' = [answer EXCEPT ![r] = a]

Goto(r, pc) ==
    /\ handlerPc' = [handlerPc EXCEPT ![r] = pc]
    /\ UNCHANGED answer

\* The server accepts a connection and starts the handler thread.  A client
\* learns the id it cancels from an event, a response or a status snapshot.
Arrive(r) ==
    /\ mainPc = "serving" /\ handlerPc[r] = "idle"
    /\ Goto(r, "lock")
    /\ IF r \in Cancels
       THEN \E j \in Jobs : Accepted(j) /\ target' = [target EXCEPT ![r] = j]
       ELSE UNCHANGED target
    /\ UNCHANGED <<command, stateVars, runnerVars, mainVars, outputVars, safeOff>>

\* POST /stop: the locked section only publishes the stop.
HandleStop(r) ==
    /\ r \in Stops /\ handlerPc[r] = "lock"
    /\ stopEvent' = TRUE /\ shutdownFlag' = TRUE
    /\ Goto(r, "emit")
    /\ UNCHANGED <<status, activeJob, lastJob, fatalError, shutdownEvent,
                   jobCancelEvent, nextJob, pendingTerminal, cleanupResults,
                   cleanupFailed, target, command, runnerVars, mainVars,
                   outputVars, safeOff>>

\* Mutant: any active cancellable job will do.
CancelAnyActive(r) ==
    status = "busy" /\ activeJob.job # NoJob /\ command[activeJob.job] \in Cancellable

\* The guard of POST /cancel.
CancelNamesActive(r) ==
    /\ status = "busy"
    /\ activeJob.job # NoJob /\ activeJob.job = target[r]
    /\ command[activeJob.job] \in Cancellable

HandleCancel(r) ==
    /\ r \in Cancels /\ handlerPc[r] = "lock"
    /\ CancelNamesActive(r)
    /\ jobCancelEvent' = TRUE
    /\ activeJob' = [activeJob EXCEPT !.status = "stopping"]
    /\ Goto(r, "emit")
    /\ UNCHANGED <<status, lastJob, fatalError, stopEvent, shutdownEvent, nextJob,
                   pendingTerminal, shutdownFlag, cleanupResults, cleanupFailed,
                   target, command, runnerVars, mainVars, outputVars, safeOff>>

RejectCancel(r) ==
    /\ r \in Cancels /\ handlerPc[r] = "lock"
    /\ ~CancelNamesActive(r)
    /\ Reply(r, "job_not_active")
    /\ UNCHANGED <<target, command, stateVars, runnerVars, mainVars, outputVars, safeOff>>

\* POST /command, admission: what the locked section answers when it rejects.
ClosedToCommands == stopEvent \/ shutdownFlag

\* Mutant: the queue is tested, not the status.
SlotUnqueued == nextJob = NoJob

SlotFree == status = "ready"

\* Mutant: the snapshot shows a state that active_job does not have.
AcceptedJob(r) == [job |-> r, status |-> "accepted"]

QueuedJob(r) == [job |-> r, status |-> "queued"]

RejectCommand(r) ==
    /\ r \in Jobs /\ handlerPc[r] = "lock"
    /\ \/ ClosedToCommands /\ Reply(r, "run_not_ready")
       \/ ~ClosedToCommands /\ ~SlotFree /\ Reply(r, "busy")
       \/ ~ClosedToCommands /\ SlotFree /\ FilesMode
          /\ Reply(r, "artifact_error")       \* request.json cannot be written
    /\ UNCHANGED <<target, command, stateVars, runnerVars, mainVars, outputVars, safeOff>>

AcceptCommand(r) ==
    /\ r \in Jobs /\ handlerPc[r] = "lock"
    /\ ~ClosedToCommands /\ SlotFree
    /\ status' = "busy" /\ jobCancelEvent' = FALSE /\ pendingTerminal' = NoTerminal
    /\ activeJob' = QueuedJob(r) /\ nextJob' = r
    /\ Goto(r, "emit")
    /\ MainMeanwhile
    /\ UNCHANGED <<lastJob, fatalError, stopEvent, shutdownEvent, shutdownFlag,
                   cleanupResults, cleanupFailed, target, command, runnerVars,
                   httpShutdown, outputVars, safeOff>>

\* Outside the lock: the event of the accepted request (stop_requested, status,
\* job_accepted; not kept), then its response.  Nothing orders them before
\* what the runner or the main thread does meanwhile.
EmitThenReply(r) ==
    /\ handlerPc[r] = "emit"
    /\ Reply(r, "accepted")
    /\ UNCHANGED <<target, command, stateVars, runnerVars, mainVars, outputVars, safeOff>>

\* Handler threads are daemon threads: they run until the process exits.
HandlerStep(r) ==
    /\ mainPc # "exited"
    /\ \/ HandleStop(r) \/ HandleCancel(r) \/ RejectCancel(r)
       \/ RejectCommand(r) \/ AcceptCommand(r) \/ EmitThenReply(r)

-----------------------------------------------------------------------------
(* The job runner thread: job_runner *)

\* shutdown_event ends the loop even when a job is still queued.
RunnerLeave ==
    /\ runnerPc = "wait" /\ shutdownEvent
    /\ runnerPc' = "gone"
    /\ UNCHANGED <<stateVars, handlerVars, job, result, terminalEvent,
                   shouldShutdown, mainVars, outputVars, safeOff>>

\* Mutant: the stop does not wait for the queued job.
StopSeen == shutdownFlag

StopSeenIdle == shutdownFlag /\ nextJob = NoJob

\* An idle runner sees the stop: no-session cleanup results, then shutdown.
RunnerDrain ==
    /\ runnerPc = "wait" /\ ~shutdownEvent
    /\ StopSeenIdle
    /\ runnerPc' = "gone" /\ cleanupResults' = TRUE
    /\ RequestShutdown /\ MainMeanwhile
    /\ UNCHANGED <<activeJob, lastJob, fatalError, stopEvent, shutdownEvent,
                   jobCancelEvent, nextJob, pendingTerminal, shutdownFlag,
                   cleanupFailed, handlerVars, job, result, terminalEvent,
                   shouldShutdown, finished, safeOff>>

RunnerTake ==
    /\ runnerPc = "wait" /\ ~shutdownEvent
    /\ nextJob # NoJob
    /\ job' = nextJob /\ nextJob' = NoJob /\ runnerPc' = "begin"
    /\ UNCHANGED <<status, activeJob, lastJob, fatalError, stopEvent, shutdownEvent,
                   jobCancelEvent, pendingTerminal, shutdownFlag, cleanupResults,
                   cleanupFailed, handlerVars, result, terminalEvent,
                   shouldShutdown, mainVars, outputVars, safeOff>>

\* _run_job_impl, first section: the snapshot shows the job running.  The
\* job_started event that follows is not kept.
RunnerBegin ==
    /\ runnerPc = "begin" /\ runnerPc' = "core"
    /\ activeJob' = IF activeJob.job = job
                    THEN [activeJob EXCEPT !.status =
                              IF jobCancelEvent THEN "stopping" ELSE "running"]
                    ELSE activeJob
    /\ UNCHANGED <<status, lastJob, fatalError, stopEvent, shutdownEvent,
                   jobCancelEvent, nextJob, pendingTerminal, shutdownFlag,
                   cleanupResults, cleanupFailed, handlerVars, job, result,
                   terminalEvent, shouldShutdown, mainVars, outputVars, safeOff>>

(***************************************************************************)
(* The core command.  Its body ends on an open session or before one is    *)
(* open; cancellation is raised only where stop_requested was polled (for  *)
(* a ramp also by the poll before its first step, outside the handler that *)
(* turns outputs OFF), and a workflow polls once more before it returns.   *)
(***************************************************************************)
CoreMayEnd(r, opened) ==
    /\ Mode = "dry_run" => r \in {"completed", "failed"} /\ ~opened
    /\ r = "completed" /\ Mode # "dry_run" => opened
    /\ r = "completed" /\ opened /\ command[job] = "workflow" => ~StopRequested
    /\ r = "execution" => opened
    /\ r = "step_failed" => opened /\ command[job] = "workflow"
    /\ r = "cancelled" => /\ command[job] \in {"workflow", "log"} /\ StopRequested
                          /\ command[job] = "workflow" => opened
    /\ r = "interrupted" => command[job] = "other" /\ StopRequested
    /\ r # "cleanup_failed"

RunnerCore(r, opened) ==
    /\ runnerPc = "core" /\ CoreMayEnd(r, opened)
    /\ result' = r /\ runnerPc' = IF opened THEN "unwind" ELSE "check"
    /\ UNCHANGED <<stateVars, handlerVars, job, terminalEvent, shouldShutdown,
                   mainVars, outputVars, safeOff>>

\* A workflow sees the request at a poll: cancel_workflow_with_safe_off
\* requests and verifies output OFF, drains the error queue and raises.
RunnerSafeOff(ok) ==
    /\ runnerPc = "core" /\ command[job] = "workflow" /\ Mode # "dry_run"
    /\ StopRequested
    /\ RecordCleanup(ok)
    /\ result' = IF ok THEN "cancelled" ELSE "cleanup_failed"
    /\ safeOff' = IF ok THEN safeOff \cup {job} ELSE safeOff
    /\ runnerPc' = "unwind"
    /\ UNCHANGED <<activeJob, lastJob, stopEvent, shutdownEvent, jobCancelEvent,
                   nextJob, pendingTerminal, shutdownFlag, handlerVars, job,
                   terminalEvent, shouldShutdown, mainVars, outputVars>>

\* StopAwareSessionContext.__exit__ (log runs on a plain session).
StopCleanupDue ==
    /\ command[job] # "log"
    /\ StopRequested \/ result \in {"cancelled", "cleanup_failed"}

RunnerCloseSession(ok) ==
    /\ runnerPc = "unwind" /\ runnerPc' = "check"
    /\ IF StopCleanupDue
       THEN /\ RecordCleanup(ok)
            /\ result' = IF ok THEN result ELSE "cleanup_failed"
       ELSE ok /\ UNCHANGED <<cleanupResults, cleanupFailed, status, fatalError, result>>
    /\ UNCHANGED <<activeJob, lastJob, stopEvent, shutdownEvent, jobCancelEvent,
                   nextJob, pendingTerminal, shutdownFlag, handlerVars, job,
                   terminalEvent, shouldShutdown, mainVars, outputVars, safeOff>>

\* After a normal return: a cancellation that no poll saw is raised late, and
\* a failed step is raised as a CoreExecutionError.
LateResult ==
    IF jobCancelEvent /\ command[job] = "workflow" /\ result \in {"completed", "step_failed"}
    THEN IF Mode = "live" THEN "cleanup_failed" ELSE "cancelled"
    ELSE IF result = "step_failed" THEN "execution" ELSE result

RunnerCheckLate ==
    /\ runnerPc = "check" /\ runnerPc' = "classify"
    /\ result' = LateResult
    /\ UNCHANGED <<stateVars, handlerVars, job, terminalEvent, shouldShutdown,
                   mainVars, outputVars, safeOff>>

\* Mutant: every stop of a cancellable command counts as its cancellation.
ClassifiedByCommand ==
    IF result = "completed" THEN "succeeded"
    ELSE IF result \in {"failed", "cleanup_failed"} THEN result
    ELSE IF result = "execution" /\ ~StopRequested THEN "failed"
    ELSE IF command[job] \in Cancellable THEN "cancelled" ELSE "stopped"

\* The except clause: an error raised while a stop or a cancellation is
\* pending is classified as that stop or cancellation.
Classified ==
    IF result = "completed" THEN "succeeded"
    ELSE IF result \in {"failed", "cleanup_failed"} THEN result
    ELSE IF result = "execution" /\ ~StopRequested THEN "failed"
    ELSE IF jobCancelEvent /\ command[job] \in Cancellable THEN "cancelled"
    ELSE "stopped"

RunnerClassify ==
    /\ runnerPc = "classify" /\ runnerPc' = "publish"
    /\ result' = Classified
    /\ UNCHANGED <<stateVars, handlerVars, job, terminalEvent, shouldShutdown,
                   mainVars, outputVars, safeOff>>

\* Mutant: last_job keeps the outcome from before the artifacts are written.
TerminalBeforeArtifacts(o) == [job |-> job, outcome |-> result]

Terminal(o) == [job |-> job, outcome |-> o]

\* Telemetry and result artifacts, then the section that sets last_job.
RunnerPublish(o) ==
    /\ runnerPc = "publish" /\ runnerPc' = "finish"
    /\ o = result \/ (FilesMode /\ o = "failed")
    /\ lastJob' = Terminal(o)
    /\ pendingTerminal' = [job |-> job, outcome |-> o]
    /\ UNCHANGED <<status, activeJob, fatalError, stopEvent, shutdownEvent,
                   jobCancelEvent, nextJob, shutdownFlag, cleanupResults,
                   cleanupFailed, handlerVars, job, result, terminalEvent,
                   shouldShutdown, mainVars, outputVars, safeOff>>

\* An exception outside the core command, handled by job_runner.
RunnerFails ==
    /\ runnerPc \in {"begin", "publish"} /\ runnerPc' = "finish"
    /\ status' = "error" /\ fatalError' = TRUE /\ shutdownFlag' = TRUE
    /\ IF pendingTerminal = NoTerminal
       THEN /\ lastJob' = [job |-> job, outcome |-> "failed"]
            /\ pendingTerminal' = [job |-> job, outcome |-> "failed"]
       ELSE UNCHANGED <<lastJob, pendingTerminal>>
    /\ UNCHANGED <<activeJob, stopEvent, shutdownEvent, jobCancelEvent, nextJob,
                   cleanupResults, cleanupFailed, handlerVars, job, result,
                   terminalEvent, shouldShutdown, mainVars, outputVars, safeOff>>

StatusAfterJob == IF cleanupFailed THEN "error"
                  ELSE IF status = "busy" THEN "ready" ELSE status

\* Mutant: the pending terminal event stays behind.
PendingAfterEmit == pendingTerminal

PendingAfterJob == NoTerminal

\* The section after every job: release the slot and take the terminal event.
RunnerFinish ==
    /\ runnerPc = "finish" /\ runnerPc' = "announce"
    /\ activeJob' = NoActive /\ jobCancelEvent' = FALSE
    /\ status' = StatusAfterJob
    /\ terminalEvent' = pendingTerminal /\ pendingTerminal' = PendingAfterJob
    /\ shouldShutdown' = shutdownFlag
    /\ job' = NoJob /\ result' = "none"
    /\ MainMeanwhile
    /\ UNCHANGED <<lastJob, fatalError, stopEvent, shutdownEvent, nextJob,
                   shutdownFlag, cleanupResults, cleanupFailed, handlerVars,
                   httpShutdown, outputVars, safeOff>>

RunnerAnnounce ==
    /\ runnerPc = "announce"
    /\ runnerPc' = IF shouldShutdown THEN "drain" ELSE "wait"
    /\ EmitFinished(terminalEvent)
    /\ terminalEvent' = NoTerminal
    /\ UNCHANGED <<stateVars, handlerVars, job, result, shouldShutdown, mainVars,
                   workerEvents, safeOff>>

\* The stop arrived during the job: shut the server down after it.
RunnerShutdownAfterJob ==
    /\ runnerPc = "drain" /\ runnerPc' = "wait"
    /\ cleanupResults' = TRUE /\ shouldShutdown' = FALSE
    /\ RequestShutdown /\ MainMeanwhile
    /\ UNCHANGED <<activeJob, lastJob, fatalError, stopEvent, shutdownEvent,
                   jobCancelEvent, nextJob, pendingTerminal, shutdownFlag,
                   cleanupFailed, handlerVars, job, result, terminalEvent,
                   finished, safeOff>>

RunnerStep ==
    \/ RunnerLeave \/ RunnerDrain \/ RunnerTake \/ RunnerBegin
    \/ \E r \in CoreResults, opened \in BOOLEAN : RunnerCore(r, opened)
    \/ \E ok \in BOOLEAN : RunnerSafeOff(ok) \/ RunnerCloseSession(ok)
    \/ RunnerCheckLate \/ RunnerClassify
    \/ \E o \in Outcomes : RunnerPublish(o)
    \/ RunnerFails \/ RunnerFinish \/ RunnerAnnounce \/ RunnerShutdownAfterJob

-----------------------------------------------------------------------------
(* The main thread: run_worker *)

MainGoto(pc) == mainPc' = pc /\ UNCHANGED httpShutdown

\* serve_forever returns after server.shutdown ...
MainShutdown ==
    /\ mainPc = "serving" /\ httpShutdown
    /\ MainGoto("closing") /\ served' = "shutdown"
    /\ UNCHANGED <<stateVars, handlerVars, runnerVars, outputVars, safeOff>>

\* ... or Ctrl-C ends it.
MainInterrupt ==
    /\ Interrupts /\ mainPc = "serving"
    /\ MainGoto("closing") /\ served' = "interrupt"
    /\ UNCHANGED <<stateVars, handlerVars, runnerVars, outputVars, safeOff>>

\* serve_forever raises: two stores without the lock.
MainServeFails ==
    /\ ServeFailures /\ mainPc = "serving" /\ MainGoto("failing")
    /\ status' = "error" /\ UNCHANGED served
    /\ UNCHANGED <<activeJob, lastJob, fatalError, stopEvent, shutdownEvent,
                   jobCancelEvent, nextJob, pendingTerminal, shutdownFlag,
                   cleanupResults, cleanupFailed, handlerVars, runnerVars,
                   outputVars, safeOff>>

MainStoreFatal ==
    /\ mainPc = "failing" /\ MainGoto("closing")
    /\ fatalError' = TRUE /\ served' = "failure"
    /\ UNCHANGED <<status, activeJob, lastJob, stopEvent, shutdownEvent,
                   jobCancelEvent, nextJob, pendingTerminal, shutdownFlag,
                   cleanupResults, cleanupFailed, handlerVars, runnerVars,
                   outputVars, safeOff>>

\* finally: stop_event, shutdown_flag, request_worker_shutdown, shutdown_event.
MainStop ==
    /\ mainPc = "closing" /\ MainGoto("flagging")
    /\ stopEvent' = TRUE
    /\ UNCHANGED <<status, activeJob, lastJob, fatalError, shutdownEvent,
                   jobCancelEvent, nextJob, pendingTerminal, shutdownFlag,
                   cleanupResults, cleanupFailed, handlerVars, runnerVars, served,
                   outputVars, safeOff>>

MainFlag ==
    /\ mainPc = "flagging" /\ MainGoto("requesting")
    /\ shutdownFlag' = TRUE
    /\ UNCHANGED <<status, activeJob, lastJob, fatalError, stopEvent, shutdownEvent,
                   jobCancelEvent, nextJob, pendingTerminal, cleanupResults,
                   cleanupFailed, handlerVars, runnerVars, served, outputVars, safeOff>>

MainRequestShutdown ==
    /\ mainPc = "requesting" /\ mainPc' = "releasing"
    /\ RequestShutdown
    /\ UNCHANGED <<activeJob, lastJob, fatalError, stopEvent, shutdownEvent,
                   jobCancelEvent, nextJob, pendingTerminal, shutdownFlag,
                   cleanupResults, cleanupFailed, handlerVars, runnerVars, served,
                   finished, safeOff>>

MainReleaseRunner ==
    /\ mainPc = "releasing" /\ MainGoto("joining")
    /\ shutdownEvent' = TRUE
    /\ UNCHANGED <<status, activeJob, lastJob, fatalError, stopEvent,
                   jobCancelEvent, nextJob, pendingTerminal, shutdownFlag,
                   cleanupResults, cleanupFailed, handlerVars, runnerVars, served,
                   outputVars, safeOff>>

RunnerJoined == runnerPc = "gone"

\* runner_thread.join and server_close, then the summary.
SummaryOk == status # "error" /\ ~fatalError /\ ~cleanupFailed

MainSummary ==
    /\ mainPc = "joining" /\ RunnerJoined /\ MainGoto("summarized")
    /\ EmitWorker(IF SummaryOk THEN "summary_ok" ELSE "summary_failed")
    /\ UNCHANGED <<stateVars, handlerVars, runnerVars, served, finished, safeOff>>

MainExit ==
    /\ mainPc = "summarized" /\ MainGoto("exited")
    /\ UNCHANGED <<stateVars, handlerVars, runnerVars, served, outputVars, safeOff>>

MainClosing ==
    \/ MainStoreFatal \/ MainStop \/ MainFlag \/ MainRequestShutdown
    \/ MainReleaseRunner \/ MainSummary \/ MainExit

MainStep == MainShutdown \/ MainInterrupt \/ MainServeFails \/ MainClosing

-----------------------------------------------------------------------------
Terminated == mainPc = "exited" /\ UNCHANGED vars

Next ==
    \/ \E r \in Requests : Arrive(r) \/ HandlerStep(r)
    \/ RunnerStep
    \/ MainStep
    \/ Terminated

Spec == Init /\ [][Next]_vars

(***************************************************************************)
(* The threads are scheduled, every wait has a timeout, and an admitted    *)
(* command has finitely many steps.  Nothing makes clients send requests,  *)
(* the user press Ctrl-C or serve_forever raise.                           *)
(***************************************************************************)
Fairness ==
    /\ \A r \in Requests : WF_vars(HandlerStep(r))
    /\ WF_vars(RunnerStep)
    /\ WF_vars(MainShutdown \/ MainClosing)

FairSpec == Spec /\ Fairness

-----------------------------------------------------------------------------
(* Properties *)

Summarized == \E i \in 1..Len(workerEvents) :
                  workerEvents[i] \in {"summary_ok", "summary_failed"}

\* Types of all variables, by owner.
StateTypeOK ==
    /\ status \in {"ready", "busy", "stopping", "error"}
    /\ activeJob \in ActiveJobs \cup {NoActive}
    /\ lastJob \in Terminals \cup {NoTerminal}
    /\ pendingTerminal \in Terminals \cup {NoTerminal}
    /\ nextJob \in Jobs \cup {NoJob}
    /\ fatalError \in BOOLEAN /\ stopEvent \in BOOLEAN /\ shutdownEvent \in BOOLEAN
    /\ jobCancelEvent \in BOOLEAN /\ shutdownFlag \in BOOLEAN
    /\ cleanupResults \in BOOLEAN /\ cleanupFailed \in BOOLEAN

HandlerTypeOK ==
    /\ handlerPc \in [Requests -> {"idle", "lock", "emit", "done"}]
    /\ answer \in [Requests -> Answers]
    /\ target \in [Cancels -> Jobs \cup {NoJob}]
    /\ command \in [Jobs -> CommandKinds]

RunnerTypeOK ==
    /\ runnerPc \in RunnerPcs
    /\ job \in Jobs \cup {NoJob}
    /\ result \in CoreResults \cup Outcomes \cup {"none"}
    /\ terminalEvent \in Terminals \cup {NoTerminal}
    /\ shouldShutdown \in BOOLEAN

MainTypeOK ==
    /\ mainPc \in MainPcs
    /\ served \in {"none", "shutdown", "interrupt", "failure"}
    /\ httpShutdown \in BOOLEAN

OutputTypeOK ==
    /\ finished \in [Jobs -> Seq(Outcomes)]
    /\ workerEvents \in Seq(WorkerEvents)
    /\ safeOff \subseteq Jobs

TypeOK == StateTypeOK /\ HandlerTypeOK /\ RunnerTypeOK /\ MainTypeOK /\ OutputTypeOK

\* The single slot: next_job, active_job and the runner's local job never
\* name two jobs, and a Worker that says "ready" has none of them.
SingleSlot ==
    /\ nextJob # NoJob => /\ activeJob.job = nextJob
                          /\ runnerPc \notin Running \cup {"finish"}
    /\ runnerPc \in Running \cup {"finish"} => job # NoJob /\ activeJob.job = job
    /\ activeJob.job # NoJob => activeJob.job \in {nextJob, job}
    /\ status = "ready" => activeJob = NoActive

\* Cancellation belongs to one job: while job_cancel_event is set, an accepted
\* POST /cancel named the job in the slot.  It never reaches the next job.
CancelAccepted(j) ==
    \E c \in Cancels : target[c] = j /\ (handlerPc[c] = "emit" \/ answer[c] = "accepted")

CancelScope ==
    jobCancelEvent => activeJob.job # NoJob /\ CancelAccepted(activeJob.job)

\* A job has one job_finished event at most, and a job whose terminal is on
\* its way to the event stream has none yet.
AtMostOneFinished ==
    \A j \in Jobs :
        /\ Len(finished[j]) <= 1
        /\ j \in {pendingTerminal.job, terminalEvent.job, nextJob} => finished[j] = << >>
        /\ runnerPc \in Running /\ job = j => finished[j] = << >>

\* After a shutdown that a stop (or a runtime failure) requested, every accepted
\* job has its job_finished event before the summary.
NoJobLost ==
    Summarized /\ served = "shutdown" =>
        \A j \in Jobs : Accepted(j) => Len(finished[j]) = 1

\* The JSONL terminal and last_job are the same terminal.
TerminalAgreement ==
    \A j \in Jobs : lastJob.job = j /\ Finished(j) => finished[j][1] = lastJob.outcome

\* "failed requires a non-null Common fatal_error", outside the two unlocked
\* stores of run_worker's except clause; and a failed cleanup is never hidden.
FailedHasFatalError ==
    /\ WorkerState = "failed" /\ mainPc # "failing" => fatalError
    /\ cleanupFailed => status = "error"

\* While the server is serving, the runner asks it to stop only when no job is
\* queued, running or in cleanup, and the cleanup results exist.
ShutdownAfterCleanup ==
    httpShutdown /\ mainPc = "serving" =>
        /\ nextJob = NoJob /\ activeJob = NoActive
        /\ runnerPc \in {"wait", "gone"}
        /\ cleanupResults

\* Every accepted job ends with its job_finished event, unless Ctrl-C or a
\* server failure ends the Worker first.
JobsFinish ==
    \A j \in Jobs :
        Accepted(j) ~> (Finished(j) \/ served \in {"interrupt", "failure"})

\* An accepted stop, from wherever it is set, ends the process.
StopCompletes == stopEvent ~> (mainPc = "exited")

-----------------------------------------------------------------------------
(* What the documents say and the code does not do *)

\* docs/contracts/common-worker-protocol.md: "already terminal ... jobs use
\* HTTP 409".
TerminalJobsRejectCancel ==
    [][\A c \in Cancels :
          handlerPc[c] = "lock" /\ handlerPc'[c] = "emit" => lastJob.job # target[c]]_vars

\* docs/contracts/power-worker-contract.md: "Known fatal/runtime or cleanup
\* failure makes summary.ok false".
SummaryReportsCleanupFailure ==
    \A j \in Jobs : finished[j] = <<"cleanup_failed">> =>
        \A i \in 1..Len(workerEvents) : workerEvents[i] # "summary_ok"

\* docs/contracts/power-worker-contract.md: for Ramp, Ramp List and Sequence
\* "Terminal cancelled is allowed only when every stage succeeds".
CancelledMeansSafeOff ==
    \A j \in Jobs :
        command[j] = "workflow" /\ finished[j] = <<"cancelled">> => j \in safeOff

-----------------------------------------------------------------------------
(* The Worker implements the asynchronous job contract AsyncJobs. *)

Phase(j) ==
    IF Finished(j) THEN "announced"
    ELSE IF j \in {pendingTerminal.job, terminalEvent.job} THEN "terminal"
    ELSE IF runnerPc \in Running /\ job = j THEN "running"
    ELSE IF nextJob = j THEN "queued"
    ELSE "none"

Outcome(j) ==
    IF Finished(j) THEN finished[j][1]
    ELSE IF pendingTerminal.job = j THEN pendingTerminal.outcome
    ELSE IF terminalEvent.job = j THEN terminalEvent.outcome
    ELSE "none"

Abstract == INSTANCE AsyncJobs WITH
    phase <- [j \in Jobs |-> Phase(j)],
    outcome <- [j \in Jobs |-> Outcome(j)],
    cancelled <- {j \in Jobs : CancelAccepted(j)},
    admitting <- ~ClosedToCommands

\* Every behaviour of the Worker is one of the contract.
ImplementsAsyncJobs == Abstract!Spec
=============================================================================
