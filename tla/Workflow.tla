------------------------------ MODULE Workflow ------------------------------
(***************************************************************************)
(* One execution of an output workflow on an open session: Ramp            *)
(* (operations.py), Ramp List (ramp_list.py) and Sequence (sequence.py) of *)
(* powers_tool_core, with the cancellation cleanup they share              *)
(* (stop_cleanup.py) and the close of the session.                         *)
(*                                                                         *)
(* A workflow that nothing disturbs makes a fixed sequence of calls, given *)
(* by its plan: polls of stop_requested and calls on the instrument.  That *)
(* sequence is its script.  An action executes one call.  In between, the  *)
(* user may request a stop, an output may trip, and the instrument may     *)
(* queue an error.  Any instrument call may raise, whether or not it took  *)
(* effect; what then follows depends on the kind of the workflow.          *)
(*                                                                         *)
(* A plan is a record:                                                     *)
(*   kind      "ramp", "ramplist" or "sequence"                            *)
(*   model     "independent" (E36312A, EDU36311A: one output per channel), *)
(*             "global" (E3646A: one switch for all outputs) or "pair"     *)
(*             (PSM-2010: one channel, its setpoints written together)     *)
(*   segments  of a ramp (one) or ramp list: [channels, volts], volts > 0  *)
(*   steps     of a sequence: [action, channels]                           *)
(*   loops, enable, pulse ("none", "step", "segment", "loop"), verify      *)
(*   paced     the delays, holds and settling times are not zero           *)
(***************************************************************************)
EXTENDS Naturals, SequencesExt

CONSTANTS
    Plans,        \* the plans executed
    NumChannels,  \* channels of a supply of model "independent" or "global"
    MaxReads,     \* MAX_WORKFLOW_CLEANUP_ERROR_READS, and 20 elsewhere
    MaxErrors     \* bound: errors in the instrument's queue

ASSUME BoundsAssumption ==
    NumChannels \in Nat \ {0} /\ MaxReads \in Nat \ {0} /\ MaxErrors \in Nat

Channels == 1..NumChannels

Segments == [channels : Seq(Channels) \ {<< >>}, volts : Nat \ {0}]
Actions == {"set", "apply", "output-on", "output-off", "cycle-output", "trigger-pulse", "wait", "measure"}
Steps == [action : Actions, channels : Seq(Channels)]

\* A plan names channels of its supply and leaves nothing empty: a PSM-2010 has
\* one channel, a ramp is one segment, a ramp list has at least one.
ASSUME PlansAssumption ==
    \A p \in Plans :
        /\ p.kind \in {"ramp", "ramplist", "sequence"}
        /\ p.model \in {"independent", "global", "pair"}
        /\ p.segments \in Seq(Segments) /\ p.steps \in Seq(Steps) /\ p.loops \in Nat \ {0}
        /\ p.kind = "ramp" => Len(p.segments) = 1
        /\ p.kind = "ramplist" => p.segments # << >>
        /\ p.model = "pair" => \A k \in DOMAIN p.segments : p.segments[k].channels = <<1>>

VARIABLES
    plan,             \* the plan; fixed
    pc,               \* the part of the code that runs
    at,               \* the next call of the script
    ch,               \* the channel of a cleanup loop
    cycle, pending,   \* enabled_channels of a cycle-output step; what it raised
    result,           \* what the execution returns or raises
    stageFailed,      \* a stage of the cancellation cleanup failed
    cleanupErrors,    \* channels in cleanup["errors"] of a failed sequence
    stop,             \* stop_requested()
    \* the instrument: outputs, setpoints written by this run, error queue
    on, limited, level, errors,
    \* history: completed units, a poll raised, units and call when the stop
    \* came, an error before the last unit, a trip after it, OFF accepted but
    \* ignored
    units, noticed, stopUnits, stopAt, earlyError, lateTrip, ignored

instrument == <<on, limited, level, errors>>
control == <<pc, at, ch, cycle, pending, result>>
cleanup == <<stageFailed, cleanupErrors>>
history == <<units, noticed, stopUnits, stopAt, earlyError, lateTrip, ignored>>
vars == <<plan, control, cleanup, stop, instrument, history>>

-----------------------------------------------------------------------------
(* Scripts *)

Call(op, c, v) == [op |-> op, ch |-> c, val |-> v, final |-> FALSE]
Plain(op) == <<Call(op, 0, <<0, 0>>)>>
On(op, c) == <<Call(op, c, <<0, 0>>)>>
Final(calls) == [i \in DOMAIN calls |-> [calls[i] EXCEPT !.final = TRUE]]

\* interruptible_sleep polls stop_requested, at least at its end.
Poll == Plain("poll")
Sleep == Poll
Unit == Plain("unit")       \* progress.complete_unit
Pulse == Plain("pulse")     \* run_post_action_completion_pulse
Errors == Plain("errors")   \* read_error_queue, raising if it is not empty

When(condition, calls) == IF condition THEN calls ELSE << >>
Each(s, F(_)) == FlattenSeq([i \in 1..Len(s) |-> F(s[i])])
Repeat(n, F(_)) == FlattenSeq([i \in 1..n |-> F(i)])

\* Voltage i of segment k, on channel c.
Voltage(c, k, i) == <<Call("voltage", c, <<k, i>>)>>
Voltages(channels, k, i) == Each(channels, LAMBDA c : Voltage(c, k, i))
States(channels) == Each(channels, LAMBDA c : On("state", c))
SwitchOn(channels) == Each(channels, LAMBDA c : On("on", c))
Readbacks(channels, k, i) ==
    Each(channels, LAMBDA c : <<Call("readback", c, <<k, i>>)>>)

\* set_output_pair also writes the first voltage.
Limits(p, channels, k) ==
    IF p.model = "pair" THEN <<Call("pair", Head(channels), <<k, 1>>)>>
    ELSE Each(channels, LAMBDA c : On("limit", c))

RampEnable(p, channels) ==
    (IF p.model = "global" THEN On("on", Head(channels)) ELSE SwitchOn(channels))
        \o States(channels)

\* Mutant: the pair is taken as written at the start of every loop.
RampVoltagesPairEachLoop(p, s, l, i) ==
    When(~(p.model = "pair" /\ i = 1), Voltages(s.channels, 1, i))

\* The pair of the first voltage is written once, before the loops.
RampVoltages(p, s, l, i) ==
    When(~(p.model = "pair" /\ l = 1 /\ i = 1), Voltages(s.channels, 1, i))

RampWrites(p, s, l, i) ==
    RampVoltages(p, s, l, i)
    \o Unit
    \o When(p.enable /\ l = 1 /\ i = 1, RampEnable(p, s.channels))
    \o When(p.pulse = "step", Pulse)
    \o When(p.paced /\ i < s.volts, Sleep)

\* Mutant: only the delays poll.
RampStepUnpolled(p, s, l, i) == RampWrites(p, s, l, i)

RampStep(p, s, l, i) == Poll \o RampWrites(p, s, l, i)

RampLoop(p, s, l) ==
    Repeat(s.volts, LAMBDA i : RampStep(p, s, l, i))
    \o When(p.paced, Sleep)
    \o When(p.verify, Readbacks(s.channels, 1, s.volts))
    \o Poll
    \o When(p.pulse = "segment", Pulse)

\* Mutant: the outputs are taken as they were switched.
RampFinalStatesAssumed(p, s) == << >>

RampFinalStates(p, s) == When(p.enable, States(s.channels))

\* The first poll is outside the try whose handler turns the outputs off.
Ramp(p) ==
    LET s == Head(p.segments)
    IN  Plain("firstpoll") \o Poll \o Limits(p, s.channels, 1)
        \o Repeat(p.loops, LAMBDA l : RampLoop(p, s, l))
        \o RampFinalStates(p, s)
        \o Errors \o Poll
        \o When(p.pulse = "loop", Pulse)

SegmentChannels(p, k) == ToSet(p.segments[k].channels)
PlanChannels(p) == UNION {SegmentChannels(p, k) : k \in 1..Len(p.segments)}
FirstSegment(p, c) ==
    CHOOSE k \in 1..Len(p.segments) :
        c \in SegmentChannels(p, k) /\ \A m \in 1..k - 1 : c \notin SegmentChannels(p, m)

InOrder(C) == Repeat(NumChannels, LAMBDA c : When(c \in C, <<c>>))

\* The channels that segment k is the first to use are enabled by it in the
\* first loop; each is read back at once.
SegmentEnable(p, k, l) ==
    Each(p.segments[k].channels, LAMBDA c :
        When(l = 1 /\ FirstSegment(p, c) = k, On("on", c) \o On("state", c)))

SegmentStep(p, k, l, i) ==
    Poll
    \o When(~(p.model = "pair" /\ i = 1), Voltages(p.segments[k].channels, k, i))
    \o Unit
    \o When(p.enable /\ p.model # "global" /\ i = 1, SegmentEnable(p, k, l))
    \o When(p.pulse = "step", Pulse)
    \o When(p.paced /\ i < p.segments[k].volts, Sleep)

\* execute_ramp_segment, after the poll of its caller and its own.
Segment(p, k, l) ==
    Poll \o Poll \o Limits(p, p.segments[k].channels, k)
    \o Repeat(p.segments[k].volts, LAMBDA i : SegmentStep(p, k, l, i))
    \o When(p.paced, Sleep)
    \o When(p.pulse = "segment", Pulse)
    \o Errors

\* Mutant: the first channel is staged, then the output is enabled.
PrestageFirstChannel(p) ==
    LET C == InOrder(PlanChannels(p))
        c == Head(C)
    IN  Poll \o Poll \o On("limit", c) \o Voltage(c, FirstSegment(p, c), 1)
        \o Poll \o On("on", c) \o States(C)

\* The one switch of an E3646A is thrown only when every channel of the plan
\* has the setpoints of its first segment.
Prestage(p) ==
    LET C == InOrder(PlanChannels(p))
    IN  Poll
        \o Each(C, LAMBDA c : Poll \o On("limit", c) \o Voltage(c, FirstSegment(p, c), 1))
        \o Poll \o On("on", Head(C)) \o States(C)

RampList(p) ==
    When(p.enable /\ p.model = "global", Prestage(p))
    \o Repeat(p.loops, LAMBDA l : Repeat(Len(p.segments), LAMBDA k : Segment(p, k, l)))
    \o Final(When(p.enable, States(InOrder(PlanChannels(p))))
             \o When(p.pulse = "loop", Errors)
             \o Poll
             \o When(p.pulse = "loop", Pulse))

\* execute_sequence_step; n is the step's index.
SequenceCalls(p, step, n) ==
    LET C == step.channels
        Setpoints(c) ==
            IF p.model = "pair" THEN <<Call("pair", c, <<n, 1>>)>>
            ELSE On("limit", c) \o Voltage(c, n, 1)
    IN  CASE step.action = "set" -> Each(C, LAMBDA c : Poll \o Setpoints(c))
          [] step.action = "apply" -> Each(C, LAMBDA c : Poll \o Setpoints(c) \o On("on", c))
          [] step.action = "output-on" -> SwitchOn(C)
          [] step.action = "output-off" -> Each(C, LAMBDA c : On("off", c))
          [] step.action = "cycle-output" ->
                Each(C, LAMBDA c : Poll \o On("cycleon", c)) \o Sleep \o Plain("endcycle")
          [] step.action = "trigger-pulse" -> Pulse
          [] step.action = "wait" -> Sleep
          [] step.action = "measure" -> Each(C, LAMBDA c : On("measure", c))

Sequence(p) ==
    Repeat(p.loops, LAMBDA l :
        Repeat(Len(p.steps), LAMBDA n : Poll \o SequenceCalls(p, p.steps[n], n) \o Unit))
    \o Poll

Script ==
    [p \in Plans |->
        CASE p.kind = "ramp" -> Ramp(p)
          [] p.kind = "ramplist" -> RampList(p)
          [] p.kind = "sequence" -> Sequence(p)]

\* One loop's completed units: the channels written and the voltage.
UnitsOfLoop(p) ==
    Repeat(Len(p.segments), LAMBDA k :
        [i \in 1..p.segments[k].volts |-> [channels |-> SegmentChannels(p, k), val |-> <<k, i>>]])

\* execution_units
Total(p) ==
    p.loops * (IF p.kind = "sequence" THEN Len(p.steps) ELSE Len(UnitsOfLoop(p)))

-----------------------------------------------------------------------------
(* The instrument *)

Supported == IF plan.model = "pair" THEN 1 ELSE NumChannels

\* An output switch acts on one output, or on all of an E3646A.
Switched(c, to) ==
    IF plan.model = "global" THEN [d \in Channels |-> to] ELSE [on EXCEPT ![c] = to]

Least(a, b) == IF a <= b THEN a ELSE b

Init ==
    /\ plan \in Plans
    /\ pc = "run" /\ at = 1 /\ ch = 1 /\ cycle = {} /\ pending = "none"
    /\ result = "none" /\ stageFailed = FALSE /\ cleanupErrors = {} /\ stop = FALSE
    /\ on \in {o \in [Channels -> BOOLEAN] : plan.model = "global" => \A c, d \in Channels : o[c] = o[d]}
    /\ limited = [c \in Channels |-> FALSE] /\ level = [c \in Channels |-> <<0, 0>>]
    /\ errors \in 0..MaxErrors
    /\ units = 0 /\ noticed = FALSE /\ stopUnits = 0 /\ stopAt = 0
    /\ earlyError = (errors > 0) /\ lateTrip = FALSE /\ ignored = {}

-----------------------------------------------------------------------------
(* How a call ends *)

Now == Script[plan][at]

AtCall(ops) == pc = "run" /\ Now.op \in ops

\* After the last call, and after the closing poll of a failed ramp list, the
\* workflow returns.
Proceed ==
    /\ IF at = Len(Script[plan]) \/ result = "step_failed"
       THEN /\ pc' = "close" /\ at' = at
            /\ result' = IF result = "none" THEN "completed" ELSE result
       ELSE pc' = "run" /\ at' = at + 1 /\ result' = result
    /\ UNCHANGED <<ch, cycle, pending>>

\* Ramp List catches a failure of a segment, closes with its last poll and
\* leaves the outputs as they are; Sequence turns them off; others raise.
ClosingPoll ==
    CHOOSE i \in 1..Len(Script[plan]) :
        /\ Script[plan][i].op = "poll"
        /\ \A j \in i + 1..Len(Script[plan]) : Script[plan][j].op # "poll"

\* Mutant: Sequence's clause of CoreExecutionError comes before that of its
\* subclass CommandCancelled.
HandlerOfBaseFirst(reason) ==
    IF plan.kind = "sequence" THEN "cleanup"
    ELSE IF reason = "cancelled" THEN IF Now.op = "firstpoll" THEN "close" ELSE "off"
    ELSE IF plan.kind = "ramplist" /\ ~Now.final THEN "run"
    ELSE "close"

Handler(reason) ==
    IF reason = "cancelled"
    THEN IF Now.op = "firstpoll" THEN "close" ELSE "off"
    ELSE IF plan.kind = "sequence" THEN "cleanup"
    ELSE IF plan.kind = "ramplist" /\ ~Now.final THEN "run"
    ELSE "close"

Catch(reason) ==
    /\ pc' = Handler(reason) /\ ch' = 1
    /\ at' = IF pc' = "run" THEN ClosingPoll ELSE at
    /\ result' = CASE pc' = "off" -> result
                   [] pc' \in {"cleanup", "run"} -> "step_failed"
                   [] pc' = "close" -> reason

\* A cycle-output step first runs its finally clause.
Raise(reason) ==
    IF cycle = {}
    THEN Catch(reason) /\ UNCHANGED <<cycle, pending>>
    ELSE pc' = "finally" /\ pending' = reason /\ UNCHANGED <<at, ch, result, cycle>>

End(ok) == IF ok THEN Proceed ELSE Raise("failed")

-----------------------------------------------------------------------------
(* The calls of the script *)

PollStop ==
    /\ AtCall({"firstpoll", "poll"})
    /\ IF stop THEN Raise("cancelled") ELSE Proceed
    /\ noticed' = stop
    /\ UNCHANGED <<plan, cleanup, stop, instrument, units, stopUnits, stopAt, earlyError, lateTrip, ignored>>

CompleteUnit ==
    /\ AtCall({"unit"}) /\ Proceed
    /\ units' = units + 1
    /\ UNCHANGED <<plan, cleanup, stop, instrument, noticed, stopUnits, stopAt, earlyError, lateTrip, ignored>>

\* took: the write reached the instrument, also when the call raised.
WriteSetpoint(ok, took) ==
    /\ AtCall({"limit", "voltage", "pair"}) /\ (ok => took) /\ End(ok)
    /\ limited' = IF took /\ Now.op # "voltage" THEN [limited EXCEPT ![Now.ch] = TRUE] ELSE limited
    /\ level' = IF took /\ Now.op # "limit" THEN [level EXCEPT ![Now.ch] = Now.val] ELSE level
    /\ UNCHANGED <<plan, cleanup, stop, on, errors, history>>

SwitchOutput(ok, took) ==
    /\ AtCall({"on", "off"}) /\ End(ok)
    /\ on' = IF took THEN Switched(Now.ch, Now.op = "on") ELSE on
    /\ UNCHANGED <<plan, cleanup, stop, limited, level, errors, history>>

\* enabled_channels gets the channel after output_on has returned.
CycleOn(ok, took) ==
    /\ AtCall({"cycleon"})
    /\ IF ok
       THEN pc' = "run" /\ at' = at + 1 /\ cycle' = cycle \cup {Now.ch} /\ UNCHANGED <<ch, pending, result>>
       ELSE Raise("failed")
    /\ on' = IF took THEN Switched(Now.ch, TRUE) ELSE on
    /\ UNCHANGED <<plan, cleanup, stop, limited, level, errors, history>>

EndCycle ==
    /\ AtCall({"endcycle"})
    /\ pc' = "finally" /\ pending' = "none"
    /\ UNCHANGED <<plan, at, ch, cycle, result, cleanup, stop, instrument, history>>

\* The last OFF leaves the clause: with what was raised, or to the next call.
\* An OFF that raises replaces what was raised.
CycleOff(ok, took) ==
    /\ pc = "finally"
    /\ \E c \in cycle :
          /\ \A d \in cycle : c <= d
          /\ on' = IF took THEN Switched(c, FALSE) ELSE on
          /\ cycle' = IF ok THEN cycle \ {c} ELSE {}
    /\ IF ok /\ cycle' # {} THEN UNCHANGED <<pc, at, ch, pending, result>>
       ELSE /\ pending' = "none"
            /\ IF ~ok THEN Catch("failed")
               ELSE IF pending # "none" THEN Catch(pending)
               ELSE pc' = "run" /\ at' = at + 1 /\ UNCHANGED <<ch, result>>
    /\ UNCHANGED <<plan, cleanup, stop, limited, level, errors, history>>

\* output_state and programmed_voltage, compared with what was written;
\* measurements.
ReadBack(ok) ==
    /\ AtCall({"state", "readback", "measure"})
    /\ End(/\ ok
           /\ Now.op = "state" => on[Now.ch]
           /\ Now.op = "readback" => level[Now.ch] = Now.val)
    /\ UNCHANGED <<plan, cleanup, stop, instrument, history>>

ReadErrors(ok) ==
    /\ AtCall({"errors"}) /\ End(ok /\ errors = 0)
    /\ errors' = IF ok THEN errors - Least(errors, MaxReads) ELSE errors
    /\ UNCHANGED <<plan, cleanup, stop, on, limited, level, history>>

\* However the pulse ends, the error queue is read after it.
FirePulse(ok, read) ==
    /\ AtCall({"pulse"}) /\ (ok => read) /\ End(ok /\ errors = 0)
    /\ errors' = IF read THEN errors - Least(errors, MaxReads) ELSE errors
    /\ UNCHANGED <<plan, cleanup, stop, on, limited, level, history>>

-----------------------------------------------------------------------------
(* cancel_workflow_with_safe_off, sequence_cleanup_safe_off, session close *)

\* Each loop visits every supported channel, whatever the calls raise.
Advance(next) ==
    IF ch < Supported THEN ch' = ch + 1 /\ pc' = pc ELSE ch' = 1 /\ pc' = next

SafeOff(ok, took) ==
    /\ pc = "off" /\ Advance("confirm")
    /\ on' = IF took THEN Switched(ch, FALSE) ELSE on
    /\ stageFailed' = (stageFailed \/ ~ok)
    /\ UNCHANGED <<plan, at, cycle, pending, result, cleanupErrors, stop, limited, level,
                   errors, history>>

\* Mutant: the state is read, and not compared.
StateRead(ok) == ok

StateConfirmed(ok) == ok /\ ~on[ch]

ConfirmOff(ok) ==
    /\ pc = "confirm" /\ Advance("drain")
    /\ stageFailed' = (stageFailed \/ ~StateConfirmed(ok))
    /\ UNCHANGED <<plan, at, cycle, pending, result, cleanupErrors, stop, instrument, history>>

DrainErrors(ok) ==
    /\ pc = "drain" /\ pc' = "close"
    /\ errors' = IF ok THEN errors - Least(errors, MaxReads) ELSE errors
    /\ stageFailed' = (stageFailed \/ ~ok \/ errors > 0)
    /\ result' = IF stageFailed' THEN "cleanup_failed" ELSE "cancelled"
    /\ UNCHANGED <<plan, at, ch, cycle, pending, cleanupErrors, stop, on, limited, level, history>>

\* Mutant: the cleanup ends at its first error.
AdvanceUnlessFailed(ok) ==
    IF ok THEN Advance("close") ELSE pc' = "close" /\ ch' = 1

AdvanceCleanup(ok) == Advance("close")

SequenceSafeOff(ok, took) ==
    /\ pc = "cleanup" /\ AdvanceCleanup(ok)
    /\ on' = IF took THEN Switched(ch, FALSE) ELSE on
    /\ cleanupErrors' = IF ok THEN cleanupErrors ELSE cleanupErrors \cup {ch}
    /\ ignored' = IF ok /\ ~took THEN ignored \cup {ch} ELSE ignored
    /\ UNCHANGED <<plan, at, cycle, pending, result, stageFailed, stop, limited, level, errors,
                   units, noticed, stopUnits, stopAt, earlyError, lateTrip>>

\* StopAwareSessionContext.__exit__: release to local and close; a failure of
\* either is a failed cleanup if a stop is pending or the workflow was cancelled.
CloseSession(ok) ==
    /\ pc = "close" /\ pc' = "done"
    /\ result' =
          IF ok THEN result
          ELSE IF stop \/ result \in {"cancelled", "cleanup_failed"} THEN "cleanup_failed"
          ELSE "failed"
    /\ UNCHANGED <<plan, at, ch, cycle, pending, cleanup, stop, instrument, history>>

-----------------------------------------------------------------------------
(* The environment *)

RequestStop ==
    /\ pc # "done" /\ ~stop
    /\ stop' = TRUE /\ stopUnits' = units /\ stopAt' = at
    /\ UNCHANGED <<plan, control, cleanup, instrument, units, noticed, earlyError, lateTrip, ignored>>

\* A protection trip switches an output off.
Trip(c) ==
    /\ pc # "done" /\ on[c]
    /\ on' = Switched(c, FALSE)
    /\ lateTrip' = (lateTrip \/ units = Total(plan))
    /\ UNCHANGED <<plan, control, cleanup, stop, limited, level, errors, units, noticed,
                   stopUnits, stopAt, earlyError, ignored>>

QueueError ==
    /\ pc # "done" /\ errors < MaxErrors
    /\ errors' = errors + 1
    /\ earlyError' = (earlyError \/ units < Total(plan))
    /\ UNCHANGED <<plan, control, cleanup, stop, on, limited, level, units, noticed,
                   stopUnits, stopAt, lateTrip, ignored>>

Finished == pc = "done" /\ UNCHANGED vars

Next ==
    \/ PollStop \/ CompleteUnit \/ EndCycle
    \/ \E ok, took \in BOOLEAN :
          \/ WriteSetpoint(ok, took) \/ SwitchOutput(ok, took) \/ CycleOn(ok, took)
          \/ CycleOff(ok, took) \/ SafeOff(ok, took) \/ SequenceSafeOff(ok, took)
          \/ FirePulse(ok, took)
    \/ \E ok \in BOOLEAN :
          \/ ReadBack(ok) \/ ReadErrors(ok)
          \/ ConfirmOff(ok) \/ DrainErrors(ok) \/ CloseSession(ok)
    \/ RequestStop
    \/ \E c \in Channels : Trip(c)
    \/ QueueError
    \/ Finished

Spec == Init /\ [][Next]_vars

-----------------------------------------------------------------------------
(* Properties *)

Pcs == {"run", "finally", "off", "confirm", "drain", "cleanup", "close", "done"}

\* "cancelled" means a complete cleanup: every output of the supply is off,
\* also one whose output_on raised and is in no list of enabled channels.  The
\* one exception is a ramp stopped by its first poll, before it wrote anything.
CancelledIsOff ==
    pc = "done" /\ result = "cancelled" /\ Now.op # "firstpoll" =>
        ~stageFailed /\ \A c \in 1..Supported : ~on[c]

\* A cancellation that a poll has raised is reported as cancelled or
\* cleanup_failed, never as an ordinary failure or success: no handler between
\* the poll and the caller takes it for something else.  Only a cycle-output
\* step whose OFF fails may, and then the sequence's own safe-off has run.
CancelNotLost ==
    pc = "done" /\ noticed =>
        \/ result \in {"cancelled", "cleanup_failed"}
        \/ plan.kind = "sequence" /\ result = "step_failed"
             /\ \E i \in 1..Len(plan.steps) : plan.steps[i].action = "cycle-output"

\* A sequence that fails leaves no output on, unless its cleanup says so or
\* the instrument accepted an OFF and ignored it.
FailedSequenceIsOff ==
    pc = "done" /\ plan.kind = "sequence" /\ result = "step_failed" =>
        \A c \in 1..Supported : on[c] => c \in cleanupErrors \cup ignored

\* A ramp or ramp list that reports success had no instrument error before its
\* last unit, and the outputs it enabled are still on, whatever tripped while
\* it ran.
CompletedIsSound ==
    pc = "done" /\ result = "completed" /\ plan.kind # "sequence" =>
        /\ ~earlyError
        /\ plan.enable => lateTrip \/ \A c \in PlanChannels(plan) : on[c]

\* Once a stop is requested, at most the unit in progress is completed.
StopWithinUnit == stop => units <= stopUnits + 1

\* A ramp or ramp list switches on no output but those of its plan, each after
\* its current limit and its first voltage are written.  The one switch of an
\* E3646A is thrown after those of every channel of the plan; the outputs that
\* the plan does not use come on with it, with the setpoints they had.
EnabledProgrammed ==
    [][\A c \in Channels : plan.kind # "sequence" /\ ~on[c] /\ on'[c] =>
          /\ plan.model = "global" \/ c \in PlanChannels(plan)
          /\ \A d \in IF plan.model = "global" THEN PlanChannels(plan) ELSE {c} :
                limited[d] /\ level[d] = <<FirstSegment(plan, d), 1>>]_vars

\* Whenever a unit counts as completed, its channels have its voltage; also on
\* the supply whose first voltage goes with the current limit.
UnitWritten ==
    [][units' # units /\ plan.kind # "sequence" =>
          LET u == UnitsOfLoop(plan)[(units % Len(UnitsOfLoop(plan))) + 1]
          IN  \A c \in u.channels : level[c] = u.val]_vars

\* docs/core/README.md: "After the current VISA call returns, Core stops future
\* workflow steps and pulses".  The call at which the stop came is stopAt.
NoPulseAfterStop ==
    [][\A ok, read \in BOOLEAN : FirePulse(ok, read) => ~(stop /\ stopAt + 1 < at)]_vars
=============================================================================
