------------------------------ MODULE Commands ------------------------------
(***************************************************************************)
(* The commands that run_core_command dispatches to the trigger, output,   *)
(* snapshot, restore, protection, telemetry and read-only handlers, each   *)
(* a script of driver calls (TriggerCommands, OutputCommands,              *)
(* StateCommands), executed one after the other on one supply.  Every call *)
(* may fail, with or without its effect; the supply may reject a write and *)
(* say so only in its error queue; a protection may trip; a stop may be    *)
(* requested at any time.                                                  *)
(***************************************************************************)
EXTENDS StateCommands, FiniteSets

CONSTANTS
    Programs,           \* the sequences of commands that are run
    MaxDisturbances     \* failures, rejections, trips and stops per program

Commands == UNION {ToSet(p) : p \in Programs}

TriggerNames == {"trigger-step", "trigger-list", "trigger-fire", "trigger-abort", "trigger-pulse",
                 "trigger-status"}
PulseNames == {"set", "apply", "output-on", "output-off", "safe-off", "cycle-output", "smoke-output"}
Names == TriggerNames \cup PulseNames \cup
    {"output-state", "snapshot", "restore-from-snapshot", "protection-set", "clear-protection", "protection-status",
     "log", "read-status", "live-panel", "validate-readonly", "readback", "measure-all", "clear", "error",
     "measure", "identify", "verify"}

\* The commands whose channel field does not take "all".
SingleChannel == {"trigger-step", "trigger-list", "trigger-pulse", "trigger-fire", "set", "smoke-output"}

\* A command as admitted: one channel of its supply or all of them in order;
\* triggers on a supply of independent outputs only, a restore on no E3646A.
Admitted(cmd) ==
    /\ cmd.name \in Names /\ cmd.model \in {"independent", "global", "pair"}
    /\ cmd.channels \in Seq(ChannelsOf(cmd.model)) \ {<< >>}
    /\ \A i, j \in DOMAIN cmd.channels : i < j => cmd.channels[i] < cmd.channels[j]
    /\ cmd.name \in SingleChannel => Len(cmd.channels) = 1
    /\ DOMAIN cmd.values = Settings
    /\ cmd.pulse \in ChannelsOf(cmd.model) \cup {0}
    /\ cmd.pulse # 0 => cmd.name \in PulseNames
    /\ cmd.name \in TriggerNames \/ cmd.pulse # 0 => cmd.model = "independent"
    /\ cmd.name = "restore-from-snapshot" => cmd.model # "global"

\* A program runs on one supply.
ASSUME CommandsAssumption ==
    /\ MaxDisturbances \in Nat
    /\ \A p \in Programs :
        /\ p \in Seq(Commands) \ {<< >>}
        /\ \A cmd \in ToSet(p) : Admitted(cmd) /\ cmd.model = p[1].model

\* run_core_command, run_trigger, run_operation, run_protection, run_readonly,
\* run_instrument_io: the handler of each command.
BlocksOf(cmd) ==
    CASE cmd.name = "trigger-step" -> NativeStep(cmd)
      [] cmd.name = "trigger-list" -> NativeList(cmd)
      [] cmd.name = "trigger-fire" -> TriggerFire(cmd)
      [] cmd.name = "trigger-abort" -> TriggerAbort(cmd)
      [] cmd.name = "trigger-pulse" -> TriggerPulse(cmd)
      [] cmd.name = "trigger-status" -> TriggerStatus(cmd)
      [] cmd.name = "set" -> Set(cmd)
      [] cmd.name = "apply" -> Apply(cmd)
      [] cmd.name = "output-on" -> OutputOnCommand(cmd)
      [] cmd.name = "output-off" -> OutputOffCommand(cmd)
      [] cmd.name = "safe-off" -> SafeOff(cmd)
      [] cmd.name = "output-state" -> OutputState(cmd)
      [] cmd.name = "cycle-output" -> CycleOutput(cmd)
      [] cmd.name = "smoke-output" -> SmokeOutput(cmd)
      [] cmd.name = "snapshot" -> Snapshot(cmd)
      [] cmd.name = "restore-from-snapshot" -> RestoreFromSnapshot(cmd)
      [] cmd.name = "protection-set" -> ProtectionSet(cmd)
      [] cmd.name = "clear-protection" -> ClearProtection(cmd)
      [] cmd.name = "protection-status" -> ProtectionStatus(cmd)
      [] cmd.name = "log" -> Telemetry(cmd)
      [] cmd.name = "read-status" -> ReadStatus(cmd)
      [] cmd.name = "live-panel" -> LivePanel(cmd)
      [] cmd.name = "validate-readonly" -> ValidateReadOnly(cmd)
      [] cmd.name \in {"readback", "measure-all"} -> ReadOnly(cmd)
      [] cmd.name = "clear" -> Clear(cmd)
      [] cmd.name = "error" -> ErrorCommand(cmd)
      [] cmd.name = "measure" -> Measure(cmd)
      [] cmd.name \in {"identify", "verify"} -> Identify(cmd)

ScriptOf == [cmd \in Commands |-> Script(BlocksOf(cmd))]

VARIABLES
    program, index,     \* the commands, and the one that runs
    phase,              \* "opening", "identify", "run" or "ended"
    rest,               \* what is left of its script
    pending,            \* the exception on its way up: "none", "error", "cancelled", "waitfailed"
    failed,             \* an error was noted, to be raised at the end
    stop,               \* stop_requested()
    inst,               \* the supply
    saved,              \* trigger snapshots, by channel
    enabled,            \* enabled_channels: output_on returned
    draft, doc,         \* the snapshot being taken, the document last written
    result,             \* how the command ended, "none" before
    before,             \* history: the supply when the command started
    hits,               \* history: what disturbed the command
    disturbances        \* how often the program was disturbed

control == <<program, index, phase, rest, pending, failed, result>>
data == <<saved, enabled, draft, doc>>
vars == <<control, data, stop, inst, before, hits, disturbances>>

command == program[index]
call == rest[1].call
block == rest[1].kind

Nothing == [c \in {} |-> None]      \* no snapshots, no document
Blank(model) == [c \in ChannelsOf(model) |-> [on |-> FALSE, set |-> [k \in Settings |-> None]]]

Init ==
    /\ program \in Programs /\ index = 1 /\ phase = "opening" /\ rest = << >>
    /\ pending = "none" /\ failed = FALSE /\ result = "none" /\ stop = FALSE
    /\ inst = Supply(command.model) /\ before = inst
    /\ saved = Nothing /\ enabled = {} /\ draft = Blank(command.model) /\ doc = Nothing
    /\ hits = {} /\ disturbances = 0

-----------------------------------------------------------------------------
(* Opening the session and identifying the supply *)

End(how) == phase' = "ended" /\ result' = how
Begin == phase' = "run" /\ rest' = ScriptOf[command] /\ UNCHANGED result

\* A restore without a complete document is refused; run_trigger and
\* run_telemetry look at the stop request before they open.
DocumentMissing == command.name = "restore-from-snapshot" /\ doc = Nothing
StoppedBefore == stop /\ command.name \in (TriggerNames \ {"trigger-abort"}) \cup {"log"}

Open ==
    /\ phase = "opening"
    /\ \/ DocumentMissing /\ End("refused") /\ UNCHANGED rest
       \/ StoppedBefore /\ End("cancelled") /\ UNCHANGED rest
       \/ /\ ~DocumentMissing /\ ~StoppedBefore /\ command.name \notin {"clear", "error"}
          /\ phase' = "identify" /\ UNCHANGED <<result, rest>>
       \/ command.name \in {"clear", "error"} /\ Begin
    /\ UNCHANGED <<program, index, pending, failed, data, stop, inst, before, hits, disturbances>>

\* *IDN? is answered, and the model admitted or refused.
Identified ==
    /\ phase = "identify"
    /\ \/ Begin
       \/ End("refused") /\ UNCHANGED rest
    /\ UNCHANGED <<program, index, pending, failed, data, stop, inst, before, hits, disturbances>>

Disturb(what) ==
    /\ disturbances < MaxDisturbances /\ disturbances' = disturbances + 1
    /\ hits' = hits \cup {what}

\* open_resource or *IDN? fails.
NotOpened ==
    /\ \/ phase = "opening" /\ ~DocumentMissing /\ ~StoppedBefore
       \/ phase = "identify"
    /\ End("error") /\ Disturb([what |-> "unopened", op |-> "", key |-> "", ch |-> 0, kind |-> "plain"])
    /\ UNCHANGED <<program, index, rest, pending, failed, data, stop, inst, before>>

-----------------------------------------------------------------------------
(* The way through a script *)

\* Whether a block runs after what happened before it.
Runs(kind, pend, fld) ==
    CASE kind = "plain" -> pend = "none" /\ ~fld
      [] kind \in {"try", "collect", "shrug"} -> pend = "none"
      [] kind = "waitfail" -> pend = "waitfailed"
      [] kind = "failure" -> pend # "none"
      [] OTHER -> TRUE

\* The script from one of these calls on, the first that runs; a plain block
\* that cannot run ends the command.
From(calls, pend, fld) ==
    LET stops == {p \in calls : rest[p].kind = "plain" \/ Runs(rest[p].kind, pend, fld)}
        next == Min(stops)
    IN  IF stops = {} \/ ~Runs(rest[next].kind, pend, fld) THEN << >>
        ELSE SubSeq(rest, next, Len(rest))

LaterBlocks == {p \in 2..Len(rest) : rest[p].block # rest[p - 1].block}

\* The call returns.
Proceed ==
    /\ rest' = From(LaterBlocks \cup ({2} \cap DOMAIN rest), pending, failed)
    /\ UNCHANGED <<program, index, phase, pending, failed, result>>

\* The call raises: what becomes of the exception depends on the block.
Throw(kind) ==
    LET pend == CASE block \in {"plain", "try"} -> kind
                  [] block \in {"waitfail", "cleanup"} -> "error"
                  [] OTHER -> pending
        fld == failed \/ block \in {"collect", "effort"}
    IN  /\ pending' = pend /\ failed' = fld
        /\ rest' = IF block \in {"plain", "cleanup"} THEN << >> ELSE From(LaterBlocks, pend, fld)
        /\ UNCHANGED <<program, index, phase, result>>

Running == phase = "run" /\ rest # << >>
Hit(what) == [what |-> what, op |-> call.op, key |-> call.key, ch |-> call.ch, kind |-> block]

-----------------------------------------------------------------------------
(* What a call does to the supply *)

\* The voltage and current of a range preparation; None stands for the
\* programmed half.
PairOf ==
    LET given == IF call.key = "document"
                 THEN <<doc[call.ch].set["voltage"], doc[call.ch].set["current"]>> ELSE call.val
        half(i, key) == IF given[i] = None THEN inst.set[call.ch][key] ELSE given[i]
    IN  <<half(1, "voltage"), half(2, "current")>>

\* restore_trigger_snapshot writes back what was saved.
Restored(key) ==
    LET c == call.ch
    IN  CASE call.op = "restore" -> WriteTrigger(inst, c, key, saved[c].trig[key])
          [] call.op = "restorepins" -> RestoreDigitalPins(inst, saved[c].pins)
          [] call.op = "restorebus" -> EnableTriggerOutputBus(inst, saved[c].bus)

\* The supply after the call took effect.
After ==
    LET c == call.ch
    IN  CASE call.op = "set" -> WriteSetting(inst, c, call.key, call.val)
          [] call.op = "put" /\ doc[c].set[call.key] # None ->
                WriteSetting(inst, c, call.key, doc[c].set[call.key])
          [] call.op = "prepare" /\ ~PairRefused(inst, c, PairOf[1], PairOf[2]) ->
                PrepareOutputPair(inst, c, PairOf[1], PairOf[2])
          [] call.op = "on" -> OutputOn(inst, c)
          [] call.op = "onifwas" /\ doc[c].on -> OutputOn(inst, c)
          [] call.op = "off" -> OutputOff(inst, c)
          [] call.op = "offenabled" /\ c \in enabled -> OutputOff(inst, c)
          [] call.op = "clear" -> ClearOutputProtection(inst, c)
          [] call.op = "trigger" -> WriteTrigger(inst, c, call.key, call.val)
          [] call.op = "hold" -> WriteTrigger(inst, c, "level", inst.set[c].voltage)
          [] call.op \in {"restore", "restorepins", "restorebus"} -> Restored(call.key)
          [] call.op = "pins" -> ConfigureTriggerOutputPins(inst, call.val)
          [] call.op = "clearpins" -> ClearTriggerOutputPins(inst, call.val)
          [] call.op = "bus" -> EnableTriggerOutputBus(inst, TRUE)
          [] call.op = "init" -> InitiateOutputTrigger(inst, c)
          [] call.op = "abort" -> AbortOutputTrigger(inst, c)
          [] call.op = "trg" -> FireBusTrigger(inst)
          [] call.op = "cls" -> ClearStatus(inst)
          [] call.op \in {"errors", "drain"} -> ReadErrorQueue(inst)
          [] OTHER -> inst

\* Nothing is sent to the supply.
Local ==
    \/ call.op \in {"poll", "collected", "keep"}
    \/ call.op = "put" /\ doc[call.ch].set[call.key] = None
    \/ call.op = "onifwas" /\ ~doc[call.ch].on
    \/ call.op = "offenabled" /\ call.ch \notin enabled

\* The call changes the supply: a query and *TRG are never rejected.
Writes == inst # After /\ call.op \notin {"cls", "errors", "drain", "trg"}

\* What the handler itself raises for.
Refused ==
    CASE call.op = "poll" -> stop
      [] call.op = "collected" -> failed
      [] call.op = "errors" -> inst.queued
      [] call.op = "verify" -> inst.set[call.ch][call.key] # call.val
      [] call.op = "verifystate" -> inst.on[call.ch] # call.val
      [] call.op = "prepare" -> PairRefused(inst, call.ch, PairOf[1], PairOf[2])
      [] OTHER -> FALSE

\* What the handler remembers of a call that returned.
Remember ==
    LET c == call.ch
    IN  /\ saved' = IF call.op = "save"
                    THEN [d \in DOMAIN saved \cup {c} |->
                            IF d = c THEN [trig |-> inst.trig[c], pins |-> inst.pins, bus |-> inst.bus]
                            ELSE saved[d]]
                    ELSE saved
        /\ enabled' = IF call.op = "on" THEN enabled \cup {c} ELSE enabled
        /\ draft' = CASE call.op = "note" -> [draft EXCEPT ![c].set[call.key] = inst.set[c][call.key]]
                      [] call.op = "noteon" -> [draft EXCEPT ![c].on = inst.on[c]]
                      [] OTHER -> draft
        /\ doc' = IF call.op = "keep" THEN draft ELSE doc

-----------------------------------------------------------------------------
(* The calls *)

\* The call returns.  A *CLS that empties a queue nobody has read, and a *TRG
\* that starts the transient of another channel, are remembered.
Perform ==
    /\ Running /\ call.op # "wait" /\ ~Refused
    /\ inst' = After /\ Remember /\ Proceed
    /\ hits' = hits \cup (IF call.op = "cls" /\ inst.queued THEN {Hit("erase")} ELSE {})
                    \cup (IF call.op = "trg"
                          THEN {[Hit("fired") EXCEPT !.ch = d] : d \in Waiting(inst)} ELSE {})
    /\ UNCHANGED <<stop, before, disturbances>>

Refuse ==
    /\ Running /\ Refused
    /\ inst' = IF call.op = "errors" THEN ReadErrorQueue(inst) ELSE inst
    /\ Throw(IF call.op = "poll" THEN "cancelled" ELSE "error")
    /\ UNCHANGED <<data, stop, before, hits, disturbances>>

\* wait_for_trigger_completion polls until the event, a stop or the timeout.
Completed ==
    /\ Running /\ call.op = "wait" /\ ~stop /\ OperationComplete(inst)
    /\ Proceed
    /\ UNCHANGED <<data, stop, inst, before, hits, disturbances>>

WaitFails ==
    /\ Running /\ call.op = "wait"
    /\ Throw("waitfailed")
    /\ UNCHANGED <<data, stop, inst, before, hits, disturbances>>

\* A call to the supply fails, before or after it took effect.
Raise ==
    /\ Running /\ ~Local /\ inst' \in {inst, After}
    /\ Throw("error") /\ Disturb(Hit("raise"))
    /\ UNCHANGED <<data, stop, before>>

\* The supply rejects a write and queues an error: the driver call returns.
Reject ==
    /\ Running /\ Writes /\ ~Refused
    /\ inst' = [inst EXCEPT !.queued = TRUE]
    /\ Remember /\ Proceed /\ Disturb(Hit("reject"))
    /\ UNCHANGED <<stop, before>>

\* An E3646A selects the channel first.  When it rejects the selection the
\* setting goes to the channel that was selected before.
Astray ==
    /\ Running /\ call.op = "set" /\ inst.model = "global"
    /\ \E c \in DOMAIN inst.on \ {call.ch} :
        inst' = [WriteSetting(inst, c, call.key, call.val) EXCEPT !.queued = TRUE]
    /\ Remember /\ Proceed /\ Disturb(Hit("astray"))
    /\ UNCHANGED <<stop, before>>

\* The script is over.
Return ==
    /\ phase = "run" /\ rest = << >>
    /\ End(IF failed THEN "error"
            ELSE IF pending = "none" THEN "ok"
            ELSE IF pending = "waitfailed" THEN "error" ELSE pending)
    /\ UNCHANGED <<program, index, rest, pending, failed, data, stop, inst, before, hits, disturbances>>

NextCommand ==
    /\ phase = "ended" /\ index < Len(program)
    /\ index' = index + 1 /\ phase' = "opening" /\ rest' = << >>
    /\ pending' = "none" /\ failed' = FALSE /\ result' = "none" /\ stop' = FALSE
    /\ saved' = Nothing /\ enabled' = {} /\ draft' = Blank(command.model)
    /\ before' = inst /\ hits' = {}
    /\ UNCHANGED <<program, doc, inst, disturbances>>

-----------------------------------------------------------------------------
(* The environment *)

RequestStop ==
    /\ phase \in {"opening", "run"} /\ ~stop
    /\ stop' = TRUE /\ Disturb([what |-> "stop", op |-> "", key |-> "", ch |-> 0, kind |-> "plain"])
    /\ UNCHANGED <<control, data, inst, before>>

\* The protection of an output that is on trips.
Trip(c) ==
    /\ phase = "run" /\ inst.on[c]
    /\ inst' = [inst EXCEPT !.on[c] = FALSE, !.tripped[c] = TRUE]
    /\ Disturb([what |-> "trip", op |-> "", key |-> "", ch |-> c, kind |-> "plain"])
    /\ UNCHANGED <<control, data, stop, before>>

\* A running transient is over.
Settle(c) ==
    /\ phase = "run" /\ inst.init[c] = "running"
    /\ inst' = [inst EXCEPT !.init[c] = "idle"]
    /\ UNCHANGED <<control, data, stop, before, hits, disturbances>>

Next ==
    \/ Open \/ Identified \/ NotOpened \/ NextCommand
    \/ Perform \/ Refuse \/ Completed \/ WaitFails \/ Raise \/ Reject \/ Astray \/ Return
    \/ RequestStop \/ \E c \in DOMAIN inst.on : Trip(c) \/ Settle(c)

Spec == Init /\ [][Next]_vars

-----------------------------------------------------------------------------
(* Properties *)

Own == ToSet(command.channels)
Hits(what) == {h \in hits : h.what = what}
AskedFor(key) == command.values[key] # None

\* The calls of the tail of a command that put the triggers back.
InCleanup(h) == h.what \in {"raise", "reject"} /\ h.kind \in {"cleanup", "effort"}

\* What a command that reports success has done to its channels.
SetAsAsked(keys) == \A c \in Own, k \in keys : AskedFor(k) => inst.set[c][k] = command.values[k]
SwitchedOn == \A c \in Own : inst.on[c] \/ inst.tripped[c]
SwitchedOff == \A c \in Own : ~inst.on[c]
AsDocumented ==
    \A c \in Own :
        /\ \A k \in Settings : doc[c].set[k] # None => inst.set[c][k] = doc[c].set[k]
        /\ inst.on[c] => doc[c].on
        /\ Has(command, "on") /\ doc[c].on => inst.on[c] \/ inst.tripped[c]
Triggered ==
    LET c == command.channels[1]
        t == inst.trig[c]
        level == IF command.name = "trigger-step" THEN t.level ELSE t.list
    IN  /\ Has(command, "leave") =>
            /\ t.source = command.source
            /\ t.mode = (IF command.name = "trigger-step" THEN "step" ELSE "list")
            /\ AskedFor("voltage") => level = command.values["voltage"]
            /\ ~Has(command, "fire") /\ command.source = "bus" => inst.init[c] = "armed"
        /\ Has(command, "wait") => SetAsAsked({"voltage"})

Done ==
    CASE command.name \in {"set", "smoke-output"} -> SetAsAsked({"voltage", "current"})
      [] command.name = "apply" ->
            SetAsAsked({"voltage", "current"}) /\ (Has(command, "no_output") \/ SwitchedOn)
      [] command.name = "output-on" -> SwitchedOn
      [] command.name \in {"output-off", "safe-off", "cycle-output"} -> SwitchedOff
      [] command.name = "protection-set" -> SetAsAsked({"ovp", "ocp", "delay", "start"})
      [] command.name = "clear-protection" ->
            \A c \in Own : inst.tripped[c] => \E h \in Hits("trip") : h.ch = c
      [] command.name = "restore-from-snapshot" -> AsDocumented
      [] command.name \in {"trigger-step", "trigger-list"} -> Triggered
      [] OTHER -> TRUE

\* A command that reports success has done what it was asked for, although a
\* rejected write raises nothing: the error queue is read at the end.  Two
\* things excuse it: the *CLS of a trigger wait that emptied the queue before
\* it was read, and the *TRG of a completion pulse that also started a transient
\* left armed.
SuccessMeansDone ==
    phase = "ended" /\ result = "ok" =>
        \/ Done
        \/ Hits("erase") # {}
        \/ command.pulse # 0 /\ \E h \in Hits("fired") : h.ch # command.pulse

\* However a command ends that configures a trigger without leaving it, the
\* trigger configuration and the rear pins are what they were before, and its
\* channels' transients are aborted, unless the calls that put them back were
\* themselves hit, or it ended before it had all its snapshots and touched
\* nothing.
Configures == {"trigger-step", "trigger-list", "trigger-pulse"}
TriggerChannels ==
    IF command.name = "trigger-pulse" THEN DOMAIN inst.on
    ELSE IF command.name \in Configures THEN Own ELSE {command.pulse} \ {0}
TriggerRestored ==
    phase = "ended" /\ result # "refused" /\ TriggerChannels # {} /\ ~Has(command, "leave") =>
        /\ \A c \in DOMAIN inst.on :
            (\E h \in hits : InCleanup(h) /\ h.ch = c) \/ inst.trig[c] = before.trig[c]
        /\ \A c \in TriggerChannels :
            \/ inst.init[c] = "idle"
            \/ inst.init[c] = before.init[c] /\ ~(TriggerChannels \subseteq DOMAIN saved)
            \/ \E h \in hits : InCleanup(h) /\ h.op = "abort" /\ h.ch = c
        /\ \/ \E h \in hits : InCleanup(h)
           \/ inst.pins = before.pins /\ inst.bus = before.bus

\* cycle-output and smoke-output leave no output on that they switched on,
\* however they end.  Three failures can: an ON that fails after it took effect
\* (only what output_on returned for is switched off), an OFF the supply
\* rejects, and an OFF that fails, which also ends the loop over the channels
\* after it.  On an E3646A each of them is about the one switch.
LeftOn(c, h) ==
    \/ h.op = "on" /\ h.what = "raise" /\ c \in Switched(inst, h.ch)
    \/ h.op = "offenabled" /\ h.what = "reject" /\ c \in Switched(inst, h.ch)
    \/ h.op = "offenabled" /\ h.what = "raise" /\ (h.ch <= c \/ inst.model = "global")
TemporaryOutputsOff ==
    phase = "ended" /\ command.name \in {"cycle-output", "smoke-output"} =>
        \A c \in Own : inst.on[c] => before.on[c] \/ \E h \in hits : LeftOn(c, h)

-----------------------------------------------------------------------------
(* Properties of steps *)

\* restore-from-snapshot switches an output on only when the document has it
\* on and everything the document says of the channel, its protection first,
\* is programmed, or the supply rejected a write.
RestoreSwitchesOnLast ==
    [][\A c \in DOMAIN inst.on :
        command.name = "restore-from-snapshot" /\ ~inst.on[c] /\ inst'.on[c] =>
            /\ doc[c].on
            /\ \/ \A k \in Settings : doc[c].set[k] \in {None, inst.set[c][k]}
               \/ Hits("reject") # {}]_vars

\* A command changes the setpoints and the switch of its own channels only.
\* The others change when their protection trips, when a *TRG starts the
\* transient somebody left armed, when a completion pulse on a channel of its
\* own steps to a level that a rejected write left, when an E3646A misses a
\* selection, and when the one switch of an E3646A is thrown.
OnlyOwnChannelsChange ==
    [][\A c \in DOMAIN inst.on :
        index' = index /\ c \notin Own =>
            /\ inst'.set[c] # inst.set[c] =>
                \/ c \in Waiting(inst) /\ before.init[c] = "armed"
                \/ c = command.pulse /\ Hits("reject") # {}
                \/ Astray
            /\ inst'.on[c] # inst.on[c] => (inst'.tripped[c] \/ inst.model = "global")]_vars
=============================================================================
