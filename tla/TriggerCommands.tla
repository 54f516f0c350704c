--------------------------- MODULE TriggerCommands ---------------------------
(***************************************************************************)
(* The trigger commands of trigger.py (E36312A) and the completion pulse   *)
(* that output commands end with, as scripts.                              *)
(***************************************************************************)
EXTENDS Scripts

Trigger(c, key, val) == Call("trigger", c, key, val)

\* trigger_snapshot; _restore_trigger_channel_snapshot, which aborts first and
\* passes through FIX; _restore_trigger_global_snapshot.
Save(c) == On("save", c)
RestoreChannel(c) ==
    On("abort", c) \o Call("restore", c, "source", 0) \o Call("restore", c, "level", 0)
        \o Trigger(c, "mode", "fix") \o Call("restore", c, "mode", 0) \o Call("restore", c, "list", 0)
RestoreGlobal(c) == On("restorepins", c) \o On("restorebus", c)

\* configure_completion_output_pins
ConfigurePins(pins, exclusive) ==
    When(pins # {},
         When(exclusive, Call("clearpins", 0, "", pins)) \o Call("pins", 0, "", pins) \o On("bus", 0))

\* set_triggered_current and set_triggered_voltage, with the programmed level
\* when none is given; set_trigger_modes, which passes through FIX.
Level(c, value) == IF value = None THEN On("hold", c) ELSE Trigger(c, "level", value)
Mode(c, mode) == Trigger(c, "mode", "fix") \o Trigger(c, "mode", mode)

\* wait_for_trigger_completion: *CLS, *ESE 1, *OPC, then polls.
Wait == On("cls", 0) \o On("wait", 0)

\* After INIT: *TRG on request, the wait on request.
FireAndWait(cmd) ==
    When(cmd.source = "bus" /\ Has(cmd, "fire"), On("trg", 0)) \o When(Has(cmd, "wait"), Wait)

\* A seeded error: the snapshot is restored on success only.
FinishOnSuccess(cmd, c) ==
    When(Has(cmd, "wait"), Block("waitfail", On("abort", c)))
        \o When(~Has(cmd, "leave"), Plain(RestoreChannel(c) \o RestoreGlobal(c)))
        \o Plain(Errors)

\* The transient is aborted when the wait fails, and the snapshot restored
\* unless the configuration is to be left.
FinishTransient(cmd, c) ==
    When(Has(cmd, "wait"), Block("waitfail", On("abort", c)))
        \o When(~Has(cmd, "leave"), Cleanup(RestoreChannel(c) \o RestoreGlobal(c)))
        \o Plain(Errors)

NativeStep(cmd) ==
    LET c == cmd.channels[1]
        value == cmd.values["voltage"]
    IN  Plain(When(value = None, Read(c)) \o Save(c))
        \o Try(Poll \o On("abort", c) \o ConfigurePins(cmd.pins, FALSE) \o Level(c, value)
                \o Mode(c, "step") \o Trigger(c, "source", cmd.source) \o On("init", c)
                \o FireAndWait(cmd))
        \o FinishTransient(cmd, c)

NativeList(cmd) ==
    LET c == cmd.channels[1]
    IN  Plain(Save(c))
        \o Try(Poll \o On("abort", c) \o ConfigurePins(cmd.pins, Has(cmd, "exclusive"))
                \o Trigger(c, "list", cmd.values["voltage"]) \o Mode(c, "list")
                \o Trigger(c, "source", cmd.source) \o On("init", c) \o FireAndWait(cmd))
        \o FinishTransient(cmd, c)

\* Any exception of a fire aborts the channel named, if one is.
TriggerFire(cmd) ==
    Try(On("trg", 0) \o When(Has(cmd, "wait"), Wait) \o Errors)
        \o When(Has(cmd, "abort"), Block("failure", On("abort", cmd.channels[1])))

TriggerAbort(cmd) ==
    Each(cmd.channels, LAMBDA c : Block("shrug", On("abort", c))) \o Plain(Errors)

TriggerPulse(cmd) ==
    LET c == cmd.channels[1]
    IN  Plain(Each(AllChannels(cmd), Save))
        \o Try(Read(c) \o Poll)
        \o Each(AllChannels(cmd), LAMBDA d : Block("collect", On("abort", d)))
        \o Try(On("collected", 0) \o ConfigurePins(cmd.pins, Has(cmd, "exclusive")) \o On("hold", c)
                \o Mode(c, "step") \o Trigger(c, "source", "bus") \o Poll
                \o On("init", c) \o On("trg", 0))
        \o Each(AllChannels(cmd), LAMBDA d : Effort(RestoreChannel(d)))
        \o Effort(RestoreGlobal(1)) \o Effort(Errors)

TriggerStatus(cmd) == Plain(Read(0) \o Each(cmd.channels, Read))

\* run_post_action_completion_pulse, the tail of an output command.
CompletionPulse(cmd) ==
    LET c == cmd.pulse
    IN  When(c # 0,
             Plain(Read(c) \o Save(c))
             \o Try(On("abort", c) \o ConfigurePins(cmd.pins, FALSE) \o On("hold", c)
                     \o Mode(c, "step") \o Trigger(c, "source", "bus") \o On("init", c) \o On("trg", 0))
             \o When(~Has(cmd, "leave"), Effort(RestoreChannel(c) \o RestoreGlobal(c)))
             \o Effort(Errors))
=============================================================================
