---------------------------- MODULE OutputCommands ----------------------------
(***************************************************************************)
(* The output commands of operations.py other than ramp, as scripts, over  *)
(* the drivers of the three kinds of supply.                               *)
(***************************************************************************)
EXTENDS TriggerCommands

Write(c, key, val) == Call("set", c, key, val)
Prepare(c, voltage, current) == Call("prepare", c, "given", <<voltage, current>>)

\* set_voltage and set_current_limit.  A PSM-2010 reads the other half of the
\* pair and prepares its range first.
SetVoltage(cmd, c, v) ==
    When(cmd.model = "pair", Read(c) \o Prepare(c, v, None)) \o Write(c, "voltage", v)
SetCurrent(cmd, c, i) ==
    When(cmd.model = "pair", Read(c) \o Prepare(c, None, i)) \o Write(c, "current", i)

\* _write_output_pair; set_output_pair of a PSM-2010 prepares for the pair.
WritePair(cmd, c) ==
    LET v == cmd.values["voltage"]
        i == cmd.values["current"]
    IN  When(cmd.model = "pair", Prepare(c, v, i)) \o Write(c, "current", i) \o Write(c, "voltage", v)

SwitchOn(cmd, c) == When(cmd.model = "pair", Read(c) \o Prepare(c, None, None)) \o On("on", c)

VerifySetpoints(cmd) ==
    When(Has(cmd, "verify"),
         Each(cmd.channels, LAMBDA c : Each(<<"voltage", "current">>, LAMBDA k :
            When(cmd.values[k] # None, Call("verify", c, k, cmd.values[k])))))
VerifyState(cmd, expected) ==
    When(Has(cmd, "verify"), Each(cmd.channels, LAMBDA c : Call("verifystate", c, "", expected)))

\* A seeded error: the error queue is not read.
FinishUnread(cmd) == CompletionPulse(cmd)

Finish(cmd) == CompletionPulse(cmd) \o Plain(Errors)

Set(cmd) ==
    LET c == cmd.channels[1]
        v == cmd.values["voltage"]
        i == cmd.values["current"]
        together == cmd.model = "pair" /\ v # None /\ i # None
    IN  Plain(Poll
              \o (IF together THEN WritePair(cmd, c)
                  ELSE When(i # None, SetCurrent(cmd, c, i)) \o When(v # None, SetVoltage(cmd, c, v)))
              \o When(Has(cmd, "settle"), Poll) \o VerifySetpoints(cmd))
        \o Finish(cmd)

Apply(cmd) ==
    Plain(Poll \o Each(cmd.channels, LAMBDA c : WritePair(cmd, c))
          \o When(~Has(cmd, "no_output"), Each(cmd.channels, LAMBDA c : SwitchOn(cmd, c)))
          \o VerifySetpoints(cmd) \o When(~Has(cmd, "no_output"), VerifyState(cmd, TRUE)))
    \o Finish(cmd)

\* The programmed setpoints are read and validated before anything is
\* switched on.
OutputOnCommand(cmd) ==
    Plain(Poll \o Each(cmd.channels, Read) \o Each(cmd.channels, LAMBDA c : SwitchOn(cmd, c))
          \o VerifyState(cmd, TRUE))
    \o Finish(cmd)

\* output-off and safe-off never look at the stop request.
OutputOffCommand(cmd) ==
    Plain(Each(cmd.channels, LAMBDA c : On("off", c)) \o VerifyState(cmd, FALSE)) \o Finish(cmd)
SafeOff(cmd) == Plain(Each(cmd.channels, LAMBDA c : On("off", c) \o Read(c))) \o Finish(cmd)

OutputState(cmd) == Plain(Poll \o Each(cmd.channels, LAMBDA c : Poll \o Read(c)))

\* enabled_channels: the channels whose output_on returned are switched off.
SwitchOffEnabled(c) == On("offenabled", c)

\* A seeded error: the outputs are switched off on success only.
CycleUnguarded(cmd) ==
    Plain(Poll \o Each(cmd.channels, Read)
          \o Each(cmd.channels, LAMBDA c : Poll \o SwitchOn(cmd, c)) \o Poll
          \o Each(cmd.channels, SwitchOffEnabled))
    \o Finish(cmd)

CycleOutput(cmd) ==
    Plain(Poll \o Each(cmd.channels, Read))
    \o Try(Each(cmd.channels, LAMBDA c : Poll \o SwitchOn(cmd, c)) \o Poll)
    \o Cleanup(Each(cmd.channels, SwitchOffEnabled))
    \o Finish(cmd)

SmokeOutput(cmd) ==
    LET c == cmd.channels[1]
    IN  Plain(Poll) \o Try(WritePair(cmd, c) \o SwitchOn(cmd, c) \o Poll \o Read(c))
        \o Cleanup(SwitchOffEnabled(c)) \o Plain(Read(c)) \o Finish(cmd)
=============================================================================
