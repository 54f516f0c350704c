# powers-tool: TLA+ models and proofs

powers-tool controls bench power supplies (Keysight E36312A, EDU36311A, E3646A, GW Instek PSM-2010)
from a command line, a long-lived *Power Worker* process with an HTTP API, and a local WebUI. All three call
one Core that admits a command, opens an instrument and runs the command on it. What must never go wrong is of three kinds.
It is concurrent: two threads on one instrument, an accepted job that is lost, a cancellation that stops the wrong job, a process that exits
before its outputs are off. It is partial: a command of twenty instrument calls fails at the twelfth, or the supply rejects a
write without an exception. And it is about what was checked when: a setpoint above a limit, a command that nobody ever accepted on that model,
a restore on another supply than the snapshot's. This directory models these parts and checks them.

## Inventory

Sources are under `src/src/`. "Hard" names the behaviour a unit test hardly reaches.

| Component | State | Operations | Hard | What makes it correct |
|---|---|---|---|---|
| **Power Worker** (`powers_tool_cli/worker*.py`) | `status`, `next_job`, `active_job`, `last_job`, `fatal_error`, `cleanup`, `stop_event`, `job_cancel_event`, `shutdown_event` under one lock | `/command`, `/cancel`, `/stop` handlers (a thread each), the runner thread, the main thread | a handler between two sections of the runner; stores without the lock; Ctrl-C; daemon threads at exit | one slot, one terminal per job, a cancellation reaches only its job, nothing accepted is lost, shutdown after cleanup |
| **WebUI job manager** (`powers_tool_webui/jobs.py`, `app.py`, `commands.py`) | jobs, `active_job_id`, `_hardware_io_lock`, `_shutdown_*` | create, cancel, start, finish, fail; live data; shutdown | an `await` between a test and its use; a thread pool; a lock held over a sleep | one thread on the instrument, the slot is freed before a terminal, silence after a shutdown |
| **Workflows** (`operations.py`, `ramp_list.py`, `sequence.py`, `stop_cleanup.py`) | outputs and setpoints of the instrument | ramp, ramp list, sequence, their cancellation | cancellation or failure between two writes | no output left on after a cancellation; setpoints before output on |
| **Commands** (`operations.py`, `trigger.py`, `snapshot.py`, `restore.py`, `protection.py`, `drivers/`) | outputs, settings, triggers, rear pins, error queue of the instrument | every other command that opens a session, as its driver calls | any call fails, before or after its effect; a write rejected in silence; a protection trips; two commands in sequence | success means done; triggers restored; temporary outputs off; only own channels change |
| **Support policy** (`support_policy.py`, `support_evidence.py`, `model_enablement.py`, `live_support.py`) | registry, evidence, runtime inventory (data) | import validation, live gate, projection for the page, enablement check | hundreds of scopes edited by hand; three derivations of one answer | what the gate admits has accepted evidence; gate, page and enablement agree |
| **Admission** (`command_contract.py`, `parameter_constraints.py`, `command_runner.py`, `validation.py`, `safety.py`, `identity.py`, `electrical_ratings.py`, `worker_protocol.py`, `powers_tool_webui/commands.py`, `powers_tool_cli/commands/output_run.py`) | a request; the safety configuration and document files | normalise, admit, admit again, adapter gates, identify, check limits | files edited between two checks; defaults resolved twice; the instrument at an address is another one | written within checked limits, enabled only when confirmed, on the instrument that was meant |
| **WebUI event streams** (`app.py`, `jobs.py`) | ring of 256 events per job | add, stream from an id | back-pressure between reading events and status | the terminal event is sent |
| **WebUI launcher / desktop host** (`launcher.py`, `_desktop_host.py`, `desktop/`) | server thread, loop, UI state | start, port fallback, quit, retry | three threads poll each other; shutdown repeated | no server left behind, no second server |
| **WebUI frontend** (`static/*.js`) | current job, event source, live samples | submit, cancel, reconcile | a late event of an old job | the screen follows the current job |
| **Lifecycle client** (`lifecycle_client.py`) | Worker process | start, ready, stop, kill | timeouts against a slow Worker | no orphan process |
| **CLI parsing and rendering, transport, simulator, packaging** | none or external | | | not modelled |

Interactions: the Worker's handlers, runner and main thread share `WorkerState`; the WebUI's handlers and
background tasks share the `JobManager` singleton on one event loop and give instrument I/O to
`asyncio.to_thread`. Both hand Core a `stop_requested` callback, which Core polls, and Core reports cleanup
results back. All adapters admit a request and hand it to `run_core_command`, which admits it again, asks the support policy, opens the
session and dispatches to a command's handler. `PROJECT.json` lists the hazards, each at its line, with the properties that cover it.

## Modules

| Module | Models |
|---|---|
| `AsyncJobs` | abstract: the life of an asynchronous job as the Common contract describes it |
| `PowerWorker` | the Worker; implements `AsyncJobs` |
| `PowerWorkerProofs` | theorems about `PowerWorker`: its invariants, the refinement, the shutdown |
| `WebJobs` | the WebUI's job manager, route handlers, background tasks and thread pool |
| `WebJobsProofs` | theorems about `WebJobs` |
| `Workflow` | one Ramp, Ramp List or Sequence on an open session, its cancellation cleanup and the close |
| `SequenceLemmas` | lemmas on sequences, flattened sequences and index sets that the proofs about scripts share |
| `WorkflowProofs` | theorems about `Workflow`: first what its scripts lead through for every plan, then its properties |
| `Instrument` | what each driver call changes on each of the three kinds of supply |
| `Scripts` | the vocabulary of command handlers: driver calls in blocks that say what an exception does |
| `TriggerCommands`, `OutputCommands`, `StateCommands` | the handlers, as scripts |
| `Commands` | executes programs of commands on one supply, with every failure |
| `CommandsProofs`, `RestoreProofs` | theorems about `Commands`; those on a restore from a snapshot in a module of their own |
| `SupportPolicy` | registry, evidence and inventory, the edits to them, import, gate, projection, enablement check |
| `SupportPolicyProofs` | theorems about `SupportPolicy` |
| `Limits`, `Identity`, `Contract`, `Capabilities`, `SnapshotDocument`, `WorkflowDocument` | the pure decisions: limit layers and ratings, resolution of an identity, parameter contracts, commands per model, restore documents, documents of ramp lists and sequences |
| `Admission` | composes these: a request from the adapter to the last driver call |
| `AdmissionProofs` | theorems about `Admission` |
| `MCPowerWorker`, `MCWebJobs`, `MCWorkflow`, `MCCommands`, `MCSupportPolicy`, `MCAdmission` | the instances TLC checks |

`Commands` and `Workflow` take a request as admitted; `Admission` takes a command as its checks and setpoints. `PowerWorker` and `WebJobs` take a whole
command as one call that ends with an outcome, which `Workflow` and `Commands` open up.

### PowerWorker

State variables carry the names of `WorkerState`'s fields; `handlerPc`, `runnerPc` and `mainPc` say where each thread
stands, and `pendingTerminal` is the terminal that is stored but not yet announced. One action is one
section under `state.lock` (or one unlocked store in `worker.py`): `AcceptCommand` is the whole admission of
`/command`, `RunnerTake` the runner's wait loop taking `next_job`, `RunnerCore` the call of Core,
`RunnerSafeOff` and `RunnerCloseSession` the cleanup, `RunnerClassify` the except clauses, `RunnerPublish` the
section that stores `last_job`, `RunnerFinish` the section that releases the slot, `RunnerAnnounce` the emission of
`job_finished`. `MainInterrupt` ... `MainExit` are `run_worker` from `serve_forever` to `return`. The result of
Core is a choice over what it can return or raise (`CoreMayEnd`). `MainMeanwhile` stands for a store of the failing main thread that
falls inside a runner section, since that thread does not take the lock.

### WebJobs

A coroutine runs from one real suspension to the next without interruption, so a segment is one action. The bodies of
`JobManager` never suspend while they hold its `asyncio.Lock`, which is therefore never contended and not a
variable. `task` says where a background task is suspended, `pool` and `running` are the default executor's queue
and threads, `hardwareLock` is the holder of `_hardware_io_lock` and `activeJob` is `active_job_id`.
`Shutdown`, `ShutdownEnds` and `ShutdownTimesOut` are `JobManager.shutdown`, called again after a failure as launcher and desktop
host do. Statuses `started` and `progress` are one value: every test of the code treats them alike.

### Workflow

What `PowerWorker` takes as one step with a chosen outcome, `Workflow` opens up. A workflow that nothing disturbs makes a fixed
sequence of calls: polls of `stop_requested` and calls on the instrument. The operators `Ramp`, `RampList` and `Sequence` are the loops of
`operations.py`, `ramp_list.py` and `sequence.py` and yield that sequence, the *script* of a plan. An action executes one call
(`PollStop`, `WriteSetpoint`, `SwitchOutput`, `ReadBack`, `FirePulse`, ...), and the environment acts between any two: `RequestStop`,
`Trip`, `QueueError`. Each instrument call may raise, having taken effect or not; `Handler` and `Catch` are the except clauses, which
differ: a cancellation leads to the safe-off of `stop_cleanup.py` (`SafeOff`, `ConfirmOff`, `DrainErrors`), a failed
sequence to `SequenceSafeOff`, a failed ramp list to its closing poll with the outputs left as they are, a failed ramp to its caller. `CycleOff`
is the `finally` clause of a cycle-output step. `CloseSession` is `StopAwareSessionContext.__exit__`.

Data are abstracted to what the properties tell apart: a voltage is the pair of its segment (or step) and index, a current limit is written or
not, all delays are zero or none is, and a sleep is one poll. A completion pulse is one call that ends with a read of the error queue. A PSM-2010's pair of setpoints
is written whole or not at all. Ctrl-C in the middle of a call (`KeyboardInterrupt`) takes the same clauses as a cancellation and is not a separate event.

### Commands

A handler of Core is straight-line code inside `try`, `except` and `finally`, and the interesting part is which calls still run once one of them has
failed. `Scripts` writes a handler as its driver calls in the order of an undisturbed run, in blocks: `plain` (outside every `try`), `try`,
`collect` (attempts whose errors are raised together later), `shrug` (caught and forgotten), `waitfail` (the handler of a wait that ends without
its event), `failure` (the handler of every exception), `cleanup` (a `finally` that raises) and `effort` (a `finally` whose errors are noted).
`TriggerCommands`, `OutputCommands` and `StateCommands` are the handlers in this form, and `Instrument` says what each driver call does to each kind of supply:
*independent* (E36312A and EDU36311A: one switch per output), *global* (E3646A: channels preselected, one switch for all) and *pair* (PSM-2010: the
setpoints of its output share a range). Setting values are classes 0, 1 and 2: the properties compare them, and on a pair supply they tell the ranges apart.

`Commands` executes a program, one to three commands on one supply. `Open`, `Identified` and `NotOpened` are the session and its `*IDN?` query; `Perform` executes a call;
`Refuse` is a check that rejects; `Completed` and `WaitFails` are the ends of a trigger wait; `Raise` a call that fails with or without its effect;
`Reject` a write the supply ignores, noting it in its error queue only; `Astray` a lost E3646A channel selection; `Return` the end, with
the exceptions the cleanup has gathered; `NextCommand` the next command, which finds the supply as the last one left it. The environment may `RequestStop`,
`Trip` a protection and `Settle` a transient.

### Support policy

The policy is data that maintainers edit: model policies hold command policies hold exact scopes (transport and backend) hold feature
scopes, and an open scope cites evidence records of a second registry. `BuiltRegistry` builds it as the module does. `EditScope`, `EditFeature`, `AddScope`, `EditCommand`, `EditModel`,
`EditEvidence` and `EditInventory` are the edits; `Import` is the validation that runs when the package is imported (an unsound registry ends the import), and `CheckEnablement`
the check before a release. The gate (`LiveAllowed`), the projection shown on the page (`ProjectedOpen`, `ProjectedFeature`) and the enablement check (`InventorySound`)
are three separate computations of the code and stay separate here.

### Admission

`Import` builds the identity indexes and rejects an ambiguous registry. `Receive` takes a request of the CLI, the Worker or the WebUI; `Admit` is the
adapter's admission: contract, defaults, aliases, document, planning identity, adapter gates. `Start` is `run_core_command`, which admits again.
`Open` identifies the instrument, selects a driver and lays out the session's remaining steps: checks of every channel, then writes. `CheckLimits`, `CheckConfirmation`, `CheckChannel`
and `CheckRestore` read the safety configuration *when they run*; `Write` and `Raise` are driver calls. `EditFiles` changes the configuration or the document between any two of them.
`Limits` merges the layers (whole, model, resource, channel) as `_merge_limits` does, `Identity` resolves a reported maker and name by the registry, `Contract` holds the parameter
contract of every command, `SnapshotDocument` the validation of a restore's document, and `WorkflowDocument` the documents of ramp lists and sequences: their versions and fields, the contract of each step, and
what makes a plan of them (`RampListPlanned`, `SequencePlanned`), which is computed at both admissions, and once more before a sequence that needs no hardware, against the configuration of that moment. Their sessions are laid out like those of
the commands: `RampListSteps` has all checks of all segments, an E3646A's first setpoints before its one switch (`Prestage`), then the loops; `SequenceSteps` has the preflight of `_preflight_sequence`
(`SequenceChecks`: each pair an output will be switched on with, as it will be by then), then the steps. `Reject` is a step for a channel the instrument lacks, which the preflight does not look for when the step only reads or is a safe-off;
`AfterFailure` is what each command does once a call has raised. Numbers are integers; parameters are tagged values, so that 1, 1.0 and TRUE differ as they do for the contract.
Stop requests, pulses, verification, delays and protection writes are in `Commands` and `Workflow`; a simulated sequence ends where it goes to the simulator; YAML and the shorthand spelling of steps are left out; programmed setpoints that a check uses are read when the session opens. The WebUI's `capabilities` and `safety inspect` jobs open nothing and are left out.

## Runs

| Run | Instance | Shows |
|---|---|---|
| `worker_jobs` | 2 workflow jobs, 1 cancel, 1 stop, Ctrl-C | `TypeOK`, `SingleSlot`, `CancelScope`, `AtMostOneFinished`, `NoJobLost`, `ShutdownAfterCleanup`, refinement of `AsyncJobs` (`ImplementsAsyncJobs`) |
| `worker_failures` | 1 job of each kind, artifact, cleanup, runtime and server failures, fair | `TerminalAgreement`, `FailedHasFatalError`; `JobsFinish` and `StopCompletes` |
| `web_jobs` | 2 commands of 4 kinds, 2 live-data jobs, pool of 4 | `HardwareExclusive`, `TerminalMeansReleased`, `OneTerminalEvent`, `EndIsFinal`, `QuietAfterShutdown`, `LiveStepsBack` |
| `web_live` | 1 command, 2 live-data jobs, pool of 3, fair | `CommandsEnd`, `LiveStops`, `ShutdownCompletes`, `CleanupFailureStops` |
| `workflows` | 18 plans, 2 channels, 3 kinds of supply, any call raises | `CancelledIsOff`, `CancelNotLost`, `FailedSequenceIsOff`, `CompletedIsSound`, `StopWithinUnit`, `EnabledProgrammed`, `UnitWritten` |
| `commands` | 19 programs of 1 to 3 commands, 3 kinds of supply, 3 disturbances | `SuccessMeansDone`, `TriggerRestored`, `TemporaryOutputsOff`, `RestoreSwitchesOnLast`, `OnlyOwnChannelsChange` |
| `support_policy` | 3 models, 3 governed commands, 3 evidence records, every pair of edits | `AdmittedHasEvidence`, `ProjectionAgrees`, `ReleasedModelsUsable` |
| `admission` | 7 instruments, 3 registries, 3 safety configurations, 4 document files and 14 documents in requests, 2 edits per request | `OnlyIntendedInstrument`, `ReadmissionStable`, `WrittenWithinLimits`, `EnabledChecked` |
| `workflow_late_pulse` | as `workflows` | documented behaviour the code does not have, see Findings |
| `worker_cancel_terminal`, `worker_late_cancel`, `worker_cancelled_unsafe` | 1 job, 1 cancel | documented behaviour the code does not have, see Findings |

### Bounds

*Worker.* Two jobs are enough for every property that relates a job to the next (a stale cancellation, a
slot taken twice): the Worker keeps the state of at most two, the running and the queued one. One cancellation and one stop suffice because
the flags they set are never counted; each may name either job and arrive at any step. *WebUI.* Two commands give
the race for the slot; two live-data jobs are needed because a live-data task waits for the hardware lock only when another
one holds it, and only then is its test stale when the lock comes. The pool has a thread per task.
With fewer threads than waiting tasks the model deadlocks, as the code would: the default executor of
Python has at least five threads, so it takes that many simultaneous monitors.

*Workflows.* A plan has two channels, which tell one output from another and from all, and up to two voltages, segments and loops:
the code tells only the first and the last of each from the others. The plans of `MCWorkflow` cover every branch on the plan that the code
has: each kind of workflow on each kind of supply, enabling or not, each timing of the pulse, verification, delays, overlapping segments that
share a channel, one channel of an E3646A or both, and each action of a sequence. `MaxErrors` is one more than `MaxReads`, so that a drain can fail to empty the queue; the code's 20 behaves alike.

*Commands.* Two channels again, one program for each branch of a handler and each way a command can find what another left behind (an armed trigger,
a tripped output, a snapshot, a range). `MaxDisturbances` = 3 failures, rejections, trips and stops per program: one to end the command,
one in its cleanup, and one to mask what the other left. *Support policy.* `MaxEdits` = 2: an edit and the second one that could hide
it (a scope with its evidence, a model with its inventory); the three models are one of each kind of policy the builder makes
(two backends, one backend with range-dependent ratings, a candidate). *Admission.* Seven supplies: each driver, one whose programmed pair fits no range, one of another serial number under a vendor's alias, another maker's supply of the same model name,
a de-scoped model and an unknown one; configurations with a layer that narrows and one that
widens; every command with up to two optional parameters, which reaches each pairwise rule of the contracts. The ramp lists have two loops, two channels and overlapping segments (so that a channel is on when a later segment starts), an old version
that switches nothing on, a pulse that fits and one that would need a second loop (as for a ramp), and documents wrong in one field; the sequences switch outputs on before and after they program them, by channel and all, and one fails at its last step. `MaxEdits` = 2 per request: a file is swapped and swapped back.
Nothing is counted without a bound: each request is one value of a constant set.

### Fairness

`PowerWorker`: every thread keeps running (weak fairness of each handler step, runner step and main step); clients need not
send anything and nobody needs to press Ctrl-C. `WebJobs`: the event loop runs each ready task, the pool serves
its queue, each instrument call ends (all have VISA timeouts), and a thread blocked in `Lock.acquire` gets a lock that
is free again and again (strong fairness): a task that releases the lock sleeps before it asks again. A shutdown's timeout is
not fair: `ShutdownCompletes` shows that it is not needed. The other specifications state none; their properties are safety.

### Deadlock

It is checked for the Worker, the WebUI and the workflows, where `Terminated`, `Waiting` and `Finished` mark where the programs may rest. Three
specifications really stop and say `CHECK_DEADLOCK FALSE`: `Commands` when the last command of its program has ended, `SupportPolicy` when the data is refused, blocked or
released, `Admission` when the import fails.

### What the properties leave open

Some properties name what excuses them, because the code does not promise more. `SuccessMeansDone` holds unless a trigger wait's `*CLS` erased a queued error (`trigger.py:607-629`) or the `*TRG` of a completion pulse also started a
transient somebody had left armed. `TemporaryOutputsOff` leaves three cases: an `output_on` that fails after it took effect is not switched off (`operations.py:670`, `:970`), an OFF the supply
rejects, and an OFF that raises, which also ends cycle-output's loop over the channels after it (`operations.py:674-676`). `RestoreSwitchesOnLast` allows a restore to switch on after a rejected write, since it reads
the error queue only at the end (`restore.py:459-505`). `TriggerRestored` allows what the cleanup's own failures leave.
`EnabledProgrammed` asks for the setpoints of the channels of the plan: an E3646A's switch also energizes an output that the plan does not use, with whatever setpoints it had (`operations.py:779-782`, `ramp_list.py:1041`),
which `docs/core/supported-models.md:204-206` documents; two plans of the run use one of its channels and reach this.
`OnlyOwnChannelsChange` allows the E3646A's one switch (`drivers/e3646a.py:65-76`; `docs/core/supported-models.md:204-206`). `WrittenWithinLimits` speaks of a configuration that was on disk when the
channel was checked, since every check reads the file again (`operations.py:1121`); a restore consults the ratings only. `ReadmissionStable` lets a ramp list or a sequence that was admitted be refused at its second
admission, but only after an edit and only for the limits of the configuration, since each planning reads that file again (`ramp_list.py:350-356`, `sequence.py:381`). `EnabledChecked` asks no confirmation of a sequence, and
looks at the channel a step names only: `_preflight_sequence` (`sequence.py:700-760`) checks the pair of each channel that a step switches on, but on an E3646A the `OUTP ON` of one channel (`drivers/e3646a.py:66`) switches both, so the other
channel of a sequence may go on with what was programmed before, unchecked until a step of its own. The run's third instrument, an E3646A whose second output holds an unrated pair, reaches this; for all other commands the property covers every requested channel.

Other behaviours met on the way that are documented or deliberate, and that a reader may not expect:
an E3646A's `output-on --channel 1` checks channel 1 only, and also energizes channel 2 (`operations.py:559-575`); a more specific configuration layer may raise a
global limit (`docs/cli/README.md:1225`), but the CLI's own pre-check knows no model and so never sees a model's layer; two `set` calls on a PSM-2010 may reach a pair that no range
admits (`docs/contracts/commands-parameter-contract.md:178-183`); setting a voltage while an output is on needs no confirmation, nor does a sequence; candidates carry no feature scopes
(`support_policy.py:1314-1323`); the CLI's `sequence --resource-alias` resolves the alias and keeps it (`cli_runtime.py:232-235`), and the plan then asks for the limits with both a resource and an alias, which are refused for its set, apply, output-on, output-off and cycle-output steps
(`sequence.py:866-876`), though its preflight asks with one of them (`sequence.py:765-774`); a ramp or ramp list that enables outputs needs a confirmation above the thresholds (`ramp_list.py:985-992`), though `docs/cli/README.md:1026-1028` says
that neither requires `--confirm`; trigger-abort reports success though single aborts failed
(`trigger.py:1069-1084`); trigger-pulse aborts transients other channels have armed; a session whose `*IDN?` fails is not closed (`snapshot.py:140-155`, `protection.py:222-237`).

### Findings

* `worker_cancel_terminal`: `/cancel` answers 202 for a job whose terminal is already in `last_job`, because the slot is released one section later; the
  Common protocol promises 409.
* `worker_late_cancel`: a cancellation seen after the session closed ends the job with `cleanup_failed`, but the Worker is ready again and its summary is `ok`; the
  contract says a cleanup failure makes `summary.ok` false.
* `worker_cancelled_unsafe`: a ramp stopped by its first poll, which lies outside the `try` that cleans up, and an instrument write that fails while a cancellation is pending are
  reported as `cancelled` though no safe-off stage ran; the contract allows `cancelled` only when every stage succeeded.
* `workflow_late_pulse`: a stop that arrives during a voltage write is followed by the step or segment pulse, since nothing polls in between; `docs/core/README.md`
  says that Core stops future pulses after the current VISA call.

## Proofs

### The Worker

For every set of jobs, cancellations and stops, every mode and every combination of failures; the only assumptions are those of `PowerWorker` on
its constants (pairwise disjoint request sets, `NoJob` none of them, a known execution mode and Boolean switches).

| Module | Theorem | States |
|---|---|---|
| `PowerWorkerProofs` | `TypeCorrect` | `Spec => []TypeOK` |
| | `SlotCorrect` | `Spec => []SingleSlot` |
| | `CancelCorrect` | `Spec => []CancelScope` |
| | `OneTerminal` | `Spec => []AtMostOneFinished` |
| | `Refinement` | `Spec => ImplementsAsyncJobs` |
| | `FailuresReported` | `Spec => []FailedHasFatalError` |
| | `TerminalsAgree` | `Spec => []TerminalAgreement` |
| | `ShutdownComesLast` | `Spec => []ShutdownAfterCleanup` |
| | `NothingLost` | `Spec => []NoJobLost` |

These are all the safety properties the runs check, and the refinement. None is inductive. `SingleSlot` speaks of `next_job`, `active_job` and the
runner's local job, so `IInv` ties the program counter of the runner to the status and to these three: a ready Worker
has nothing in the slot, a job is queued exactly from `AcceptCommand` to `RunnerTake`, and
from there to `RunnerFinish` it is the runner's. `CancelScope` needs in addition that the event is clear whenever
no job runs. `AtMostOneFinished` needs that a job in the slot or pending was never announced. Steps that touch none of
these are handled at once by the lemmas `QuietKeepsSlot`, `QuietKeepsAll` and `QuietRequest`; `TypeStep` and `SlotStep` have one step
per action.

The refinement maps a job's place in the slot, the stored and the announced terminal to the abstract state. Its strengthening `RInv` adds what the abstract guards ask: where the runner may stand while it has a job
(`SlotOwner`), that a set cancellation is for a cancellable command (`CancelKind`), and that a result has its reason: cancelled only after an accepted cancellation, stopped only
when the Worker is closed to commands (`ResultFits`). Each action of a thread is
then one step of `AsyncJobs` or a stutter.

The shutdown argument, `EndInv`, adds that the last stored terminal is the pending or the last announced one (`LastTerminal`), that an accepted job is in hand (queued, active, running or pending) until it
is announced (`AcceptedPlaced`), and where the runner may stand once a stop was seen (`DrainPlace`, `ServedPlace`): it leaves its loop only when
nothing is in hand. `FailedHasFatalError` is itself part of it. TLC checked each strengthening on the instances of `worker_jobs` and `worker_failures` first.

### The WebUI

`WebJobsProofs`, for any number of commands, monitors, threads and every mix of kinds, from `JobsAssumption` alone:

| Theorem | States |
|---|---|
| `OneOnHardware` | `Spec => []HardwareExclusive` |
| `ReleasedAtEnd` | `Spec => []TerminalMeansReleased` |
| `OneTerminal` | `Spec => []OneTerminalEvent` |
| `SilenceAfterShutdown` | `Spec => []QuietAfterShutdown` |
| `EndsAreFinal` | `Spec => EndIsFinal` |
| `MonitorsStepBack` | `Spec => LiveStepsBack` |

`IInv` ties each task's place to its job: its data are typed and its call is in `pool` or `running` exactly where the task waits for it
(`DataInv`, `PlaceInv`), the status fits the place (`StatusInv`), the slot and the lock have the one holder the places allow (`SlotInv`), no call is in the pool twice
(`PoolInv`), the events fit the status (`EventInv`) and a finished shutdown left nothing (`ShutdownInv`). Every segment of the event loop is shown once to be a `Moves(j, pc, s)`, a task that goes from one
place to another and changes only its own job (`SegmentMoves`); that these moves keep the invariant is shown once (`MoveKeeps`), and the few other steps, cancellations, threads and shutdowns, have lemmas of
their own (`CancelKeeps`, `ThreadsKeep`, `StepKeeps`).

### The workflows

`WorkflowProofs`, for every number of channels and read limit and every set of plans that satisfies `PlansAssumption`:

| Theorem | States |
|---|---|
| `CancelledOutputsOff` | `Spec => []CancelledIsOff` |
| `FailedSequenceOutputsOff` | `Spec => []FailedSequenceIsOff` |
| `CancellationReachesCaller` | `Spec => []CancelNotLost` |
| `StopLeavesOneUnit` | `Spec => []StopWithinUnit` |
| `SuccessIsSound` | `Spec => []CompletedIsSound` |
| `OnlyProgrammedIsEnabled` | `Spec => EnabledProgrammed` |
| `UnitsAreWritten` | `Spec => UnitWritten` |

The first two speak of the final state only, so `IInv` carries them back through the cleanup loops: the channels
already visited are off or a stage has failed (`LoopProgress`), and a result exists only once the loops are through (`NoEarlyResult`, `CloseState`).
They hold although an output may trip at any time, because no step of a cleanup switches an output on, and they say nothing of the scripts: `CallEnded`
states how any call may end, and the lemmas `ProceedEnds`, `CatchEnds`, `RaiseEnds` and `EndEnds` show it for each of the ways. They need no assumption on the
plans and hold also for one that switches outputs on in an unwise order.

The other five depend on what the scripts contain. The first part of `WorkflowProofs` proves that once for every plan of any length (`ScriptLeads`): every script has a proof outline, which says what was written, read and polled
before and after each of its calls, such that a unit comes only after a poll and with the voltages it stands for, an output of a ramp is switched on only where its limit and its first voltage were written (on an E3646A, those of all channels of the plan), and at the end all units are done. The script is
built by concatenation and flattening, so the rules are those of sequential composition (`LeadsJoin`) and of loops (`LeadsLoop`). `Track` then follows the outline: where the workflow is in its script (`InScript`), that
what it wrote is what the outline says there (`OnCourse`), what a stop still allows (`Stopping`), the way of a raised cancellation to the caller (`Noting`) and what the reads of the error queue have shown (`Checked`). `PlansAssumption`
states the shape the planners give a plan: its kind, model and loops, channels of its supply, no empty segment list.

### The commands

`CommandsProofs` and `RestoreProofs`, for every program of admitted commands, any number of channels and any disturbances, from `CommandsAssumption` (what a command is once the contract has admitted it) and `NumChannelsAssumption`:

| Theorem | States |
|---|---|
| `AlwaysSound` | `Spec => []Sound`, the inductive invariant |
| `OutputsLeftOff` | `Spec => []TemporaryOutputsOff` |
| `OthersLeftAlone` | `Spec => OnlyOwnChannelsChange` |
| `TriggersPutBack` | `Spec => []TriggerRestored` |
| `RestoredBeforeOn` (`RestoreProofs`) | `Spec => RestoreSwitchesOnLast` |

`Sound` says what a supply is made of and that a running command stands at a place of its own script, with what an exception there leaves pending. It rests on two facts about the handlers: each of the thirty yields blocks
of calls that address the channels of the command, or is the block of its completion pulse (`BlocksFit`, one lemma per handler), and a call of a script is a call of one of its blocks (`ScriptPlaces`, which `CommandPlaces` applies).

`OutputsLeftOff` needs the course of the two commands that switch an output on for a while. Their scripts are three blocks: what may switch on, one OFF per channel in the order of the channels, and what switches nothing (`SwitchesWithin`).
`Watched` then says for each place what an output that is on is due to: it was on before, or one of the failures the property names, or it is among the enabled channels whose OFF is still to come; the script cannot end before the second block has run (`GoesOnWith`).

`OthersLeftAlone` needs two things. A call that writes has an own channel or the pulse's (`Addresses`), so another channel's setpoint can change only when a transient starts. A transient that a `*TRG` starts was armed before the command, or by the
pulse; and the pulse ends with the same six calls whatever the command (`PulseShape`), among them the one that holds the level at the present voltage, so that its step changes nothing unless one of these writes was rejected (`PulseReady`).

`TriggersPutBack` holds for the three commands that configure a trigger and for the seven that may end with a completion pulse. Each handler is blocks in four parts (`MendingBlocks`): blocks that touch no trigger, one that saves each of the
channels it will use, the body, and a tail that reads errors and puts back, in blocks that run whatever happened, every setting of every channel it used, the transient, the pins and the bus. `MendingPlaces` carries this over to the script (`Mends`), where the
invariant `Mending` says: until the last snapshot nothing was touched and the snapshots are of the supply as it was (`Early`); after it, whatever differs is still to be put back, or a call of the tail was hit (`Late`). The delicate part is the tail itself: a restore
passes through FIX, so it makes a difference of its own until its next call, and a failure in it skips the rest of its block but not the other blocks. It needs that the trigger commands take one channel (`SingleChannel`): a second channel would be aborted by nobody.

`RestoredBeforeOn` rests on two invariants. `Documented` says what a document is worth: a snapshot notes what is programmed, and the setpoints of a PSM-2010 fit its range, so the range in a document fits the setpoints next to it.
The restore needs that: it writes the range, then prepares the pair for the document's setpoints, which would choose another range for setpoints that do not fit, and only then writes them; when the document fits its own range the preparation changes nothing (`PrepareRestores`).
`RestoreOrder` says that at each place of a restore every setting of a channel is as the document says or still comes before the call that switches the channel on (`BackAt`), the voltage and the current only after the preparation, since
a new range may lower them. That the script has this order is shown once for every document and list of channels (`RestoreScript`, from the parts of one channel's list, `RestoreParts`); that each call keeps `BackAt` is a fact about one supply (`CallRestores`) and one about lists (`BackStep`).
TLC checked both invariants on the instance of `commands` first.

### The support policy

`SupportPolicyProofs`, for any models, commands, features, evidence and number of edits:

| Theorem | States |
|---|---|
| `ProductNeedsEvidence` | `Spec => []AdmittedHasEvidence` |
| `PageAgreesWithGate` | `Spec => []ProjectionAgrees` |
| `ReleaseOpensProductModels` | `Spec => []ReleasedModelsUsable` |

The gate reads the registry only and never the evidence; that what it admits has evidence rests on the import, which compared the two, and on nothing editing what was imported (`ServedStaysSound`).
A sound registry has one policy for a model and command (`OnePolicy`) and one scope for a connection (`OneScope`), so the page's own lookup finds the projection of the scope the gate finds (`PageShowsPolicy`),
and a feature is shown as open exactly when the gate lets it through (`FeatureShownIsAdmitted`). Assumed of the constants: governed commands are neither diagnostic nor offline (`support_policy.py:1403-1405` subtracts them),
an active model is not de-scoped (the two come from different tables of `models.py`) and has one enablement stage (`models.py` gives each model one `enablement_stage`), and a spelling without a feature is no feature of the inventory.
The opening half of `ReleasedModelsUsable` follows the shape of the built registry: a product model has one entry for each of its commands (`EntryOfModel`), an open gate has a scope that opened it (`OpenGateHasScope`), an open scope opens the gate (`OpenScopeOpensGate`), and what an edit can do to it the import would notice. Its other half, that a model the gate opens has a driver of its own, a simulator that answers as it, channels, ranges and ratings, and that a model without a runtime has none of them left over, is what the enablement check saw and no later edit can undo.

### Admission

`AdmissionProofs`, for every finite set of requests, and all benches, registries, snapshots and workflow files:

| Theorem | States |
|---|---|
| `IdentityKept` | `Spec => []IdentityInv`, the inductive invariant of the identity |
| `IntendedInstrument` | `Spec => []OnlyIntendedInstrument` |
| `RequestTyped` | `Spec => []TypedInv`: what a request holds once its entry point has admitted it |
| `WrittenWithin` | `Spec => WrittenWithinLimits` |
| `EnabledIsChecked` | `Spec => EnabledChecked` |
| `Readmission` | `Spec => []ReadmissionStable` |

What an instrument resolves to is the last entry of the registry that lists its name and admits its maker (`ResolvedEntry`); `IdentityInv` says that the registry in use passed the import's checks, that a session is opened only for a live
request, and that an open instrument has the model it resolves to, is driven, and is the one that the request and the snapshot name.

`WrittenWithin` says that no setpoint reaches an instrument that its ratings and the ceilings stated for it do not allow, whichever of the entry points, commands and documents it came from. Its argument has four parts:

- **Admission types what it admits.** The contract, the CLI and the document checks each leave a request whose setpoints are numbers and whose channels are spelled for its command (`Ready`, `Documented`); an instrument that opens leaves a bench with the channels the request names.
- **A planner checks before it writes.** For each command a lemma says that its script is `Laid`: a write stands behind checks of the limits of its channel that name the same value, or the value that the check reads back.
- **What a check passed is what the bench allows.** `StatedIsInForce` says that the ceilings a check consults are those in force, resolved from the file's model, alias and channel; a value that passed them is rated, and under the ceilings stated (`PassedIsRated`, `PassedNotAbove`).
- **The invariant** (`WorkInv`) says that what is left of the script stays `Grounded` in what was checked so far: executing a check moves its value from the script to the checked ones, a failure leaves a tail that writes nothing.

`EnabledIsChecked` says that an output that a request names goes on only with a rated pair and, where the request needs it, a confirmed one. A check somewhere before is not enough here: what counts is the pair that is programmed when the switch comes.

- **A script is lit** (`Lit`): before each `on` of a requested channel, the last step that sets its voltage and the last that sets its current, or what the instrument holds where none does (`ProgrammedAt`), form a pair that was granted (`Granted`): checked and, but for a sequence or a restore, asked for a confirmation, or recorded in a snapshot whose setpoints were found to fit.
- **Every planner lays out such a script** (`StepsLit`), command by command; `output-on` reads the programmed pair back, so its checks name what the instrument holds.
- **What remains is lit** (`TailLit`) by what has been checked and confirmed and what the instrument now holds. `LightInv` keeps this, and that what follows a failure switches nothing on (`FailureDark`). At the `on` itself nothing precedes, so the pair is the instrument's own (`GrantedIsSafe`).

`Readmission` says that an adapter and `run_core_command` admit the same request, with these steps:

- **Normalization ends.** What normalization leaves is `Normal` (`NormalizedIsNormal`), and what is `Normal` is admitted and left as it is (`NormalStays`), for all commands, aliases and defaults. Parameters that carry their document instead of its file (`MaterializedIsNormal`) and a ramp's channels in their order (`OrderedIsNormal`) are `Normal` again.
- **An identity that was resolved is resolved to itself** (`ResolvedAgain`, `GateAgain`, `PreparedAgain`): a model inferred from a simulator resource and a resource chosen for a model agree.
- **So each command's own admission holds again** (`SequenceAdmitsAgain`, `RampListAdmitsAgain`, `RestoreAdmitsAgain`, `RampAdmitsAgain`, joined in `AdmitsAgain`), with the same limits or with none. A request that carries its document looks at the files for limits only (`FilesAside`), so an edit changes nothing else; this is the invariant, `ReadmitInv`.

It holds because the gate comes before the plan: `validate_request_admission` lets a sequence with a pulse through `_apply_no_hardware_support_gate` first (`command_runner.py:83-89`), and the limits are then asked for the simulator's resource, as they are at the second admission. Were the plan made first, an alias
without a resource would be admitted once and refused the second time; the run has such requests.

Assumed of the constants, and evaluated by TLC on the run's tables: the models of a registry are a list (`RegistriesAssumption`), an instrument that answers with the name and a maker of a model of a consistent registry is of that model (`GenuineAssumption`),
an instrument has the parts named (`BenchesAssumption`); the tables of models and ratings are functions of models and channels (`ModelsAssumption`, which also has that no value is not a number, and `RatingsAssumption`); documents, limits files and requests are trees of tagged values, as a parser returns them
(`DocsAssumption`, `FilesAssumption`, `RequestsAssumption`, `RuntimesAssumption`); the simulator that stands for a model is known to be of that model (`SimulatorsAssumption`, which `model_enablement.py:237-241` compares); what argparse leaves in a direct request (`CliAssumption`); and closed facts of the contract tables, such as which fields of a command are required and of which type (`ContractsAssumption`),
that an alias and the name it stands for exclude each other and that no choice between parameters is decided by a default (`TablesAssumption`), and what a document may come with (`DocumentTablesAssumption`).
`Stated`, in the property, takes the later spelling where a file gives a model two tables, as the loader does.

### Only model-checked

Liveness and `ENABLED` (out of the prover's reach): `JobsFinish`, `StopCompletes`, `CommandsEnd`, `LiveStops`, `ShutdownCompletes`, `CleanupFailureStops`.
The property `SuccessMeansDone` of `Commands`
depends on the order of the calls in the scripts of some ten handlers, each of which needs a description of its course like the one `RestoreOrder` gives for the restore.

## Plan

Done: `AsyncJobs`, `PowerWorker` with all its safety properties and the refinement proved; `WebJobs` with its safety properties proved; `Workflow` with all its safety properties proved;
the commands, with four of their properties proved; the support policy, with its three properties proved; admission, with all its safety properties proved: its identity, its limits, what it switches on and its repetition. What would come next:

1. `Launcher` and `DesktopHost`: startup, readiness, quit and repeated shutdown, with `JobManager.shutdown` as an abstract step.
2. `JobEvents`: the ring of events, the SSE generator under back-pressure, and the frontend's `jobs.js` that reconciles with it.
3. `Lifecycle`: the client against a Worker that is slow, gone or stuck.
4. An abstract specification of a cancellable workflow that `Workflow` implements and `PowerWorker`'s `RunnerCore` to `RunnerCloseSession` agree with.
5. `SuccessMeansDone` of `Commands` from the same invariant.

## Not modelled

Parsing of options, rendering and help texts (no state); VISA and serial transport, and discovery (external: their results are choices of the environment);
the simulator (a test double); packaging and scripts; the contents of artifacts and events; authentication, whose rejections change no state; the parsing of YAML and JSON files, snapshot-diff and
the offline reports (pure functions of a document); the launcher, desktop host, event streams, frontend and lifecycle client (see Plan): each needs its peer process or the browser as a second component.

Behaviours of the modelled components that no property covers: Ctrl-C with a job still queued (`worker_execution.py:139`) and an output stream that fails
(`worker_io.py:48`, `BrokenPipeError` on the runner thread); an executor with fewer threads than waiting monitors (`jobs.py:135`); a live-data task that ignores the result of `start_job` (`app.py:528`);
an `interval_ms` that is not positive, for which the sleep of the live-data loop would not suspend (`app.py:606`); a slow reader of events (`app.py:484`); quit during startup
(`launcher.py:353`); a stop between the last poll of a workflow and its close (`operations.py:858`: outputs stay on, and the workflow succeeded); a ramp step that does not divide the span (`operations.py:400`);
two client processes, which share no lock on the instrument; the safety inspection of the WebUI with a configuration that lists no channels (`webui/commands.py:660`).
