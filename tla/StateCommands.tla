---------------------------- MODULE StateCommands ----------------------------
(***************************************************************************)
(* Snapshot, restore, protection, telemetry and the read-only commands, as *)
(* scripts.  A snapshot is drafted channel by channel and kept when every  *)
(* required query was answered; a setting whose query fails is null.       *)
(***************************************************************************)
EXTENDS OutputCommands

ProtectionSettings == <<"ovp", "ocp", "delay", "start">>

\* run_snapshot.  A PSM-2010 has no OCP delay to read: null.
Snapshot(cmd) ==
    LET channels == AllChannels(cmd)
    IN  Plain(Drain \o Each(channels, Read) \o Each(channels, LAMBDA c : On("noteon", c))
              \o Each(channels, LAMBDA c : Call("note", c, "voltage", 0) \o Call("note", c, "current", 0))
              \o Each(channels, Read))
        \o Each(channels, LAMBDA c :
                Each(IF cmd.model = "pair" THEN <<"ovp", "ocp">> ELSE ProtectionSettings,
                     LAMBDA k : Block("shrug", Call("note", c, k, 0))))
        \o Plain(When(cmd.model = "pair", Call("note", 1, "range", 0)) \o On("keep", 0))

\* A seeded error: the output is switched on before the setpoints are back.
RestoreOnFirst(cmd, c) ==
    Poll \o On("off", c) \o When(Has(cmd, "on"), Poll \o On("onifwas", c))
    \o Each(ProtectionSettings \o <<"current", "voltage">>, LAMBDA k : Poll \o Call("put", c, k, 0))

\* restore_plan and _execute_restore_plan, of one channel.
\* A stop is looked for before every step; null settings have no step.
RestoreSteps(cmd, c) ==
    Poll \o On("off", c)
    \o When(cmd.model = "pair", Poll \o Call("put", c, "range", 0))
    \o Each(ProtectionSettings, LAMBDA k : Poll \o Call("put", c, k, 0))
    \o (IF cmd.model = "pair"
        THEN Poll \o Poll \o Call("prepare", c, "document", <<None, None>>)
             \o Call("put", c, "current", 0) \o Call("put", c, "voltage", 0)
        ELSE Poll \o Call("put", c, "current", 0) \o Poll \o Call("put", c, "voltage", 0))
    \o When(Has(cmd, "on"), Poll \o On("onifwas", c))

RestoreFromSnapshot(cmd) ==
    Plain(Each(cmd.channels, LAMBDA c : RestoreSteps(cmd, c)) \o Errors)

\* A seeded error: every channel is written.
ProtectAll(cmd) ==
    Plain(Each(AllChannels(cmd), LAMBDA c : Each(ProtectionSettings, LAMBDA k :
            When(cmd.values[k] # None, Write(c, k, cmd.values[k])))) \o Errors)

ProtectionSet(cmd) ==
    Plain(Each(cmd.channels, LAMBDA c : Each(ProtectionSettings, LAMBDA k :
            When(cmd.values[k] # None, Write(c, k, cmd.values[k])))) \o Errors)

ClearProtection(cmd) == Plain(Each(cmd.channels, LAMBDA c : On("clear", c)) \o Errors)
ProtectionStatus(cmd) == Plain(Each(cmd.channels, Read))

\* Two cycles of run_telemetry: the stop is looked for before and after each,
\* and in the pause between them.
Telemetry(cmd) ==
    LET cycle == Poll \o Each(cmd.channels, LAMBDA c : Drain \o Read(c)) \o Poll
    IN  Plain(cycle \o Poll \o cycle)

ReadOnly(cmd) == Plain(Each(cmd.channels, Read))     \* readback, measure-all
ReadStatus(cmd) == Plain(Drain \o Each(cmd.channels, Read))
LivePanel(cmd) == Plain(Each(cmd.channels, Read))
ValidateReadOnly(cmd) == Plain(Drain \o Each(cmd.channels, Read))

Clear(cmd) == Plain(On("cls", 0))
ErrorCommand(cmd) == Plain(Drain)
Measure(cmd) == Plain(Read(cmd.channels[1]))
Identify(cmd) == Plain(Read(0))
=============================================================================
