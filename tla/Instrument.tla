----------------------------- MODULE Instrument -----------------------------
(***************************************************************************)
(* A bench supply as the drivers of powers_tool_core/drivers see it: what  *)
(* each driver call writes to it.  A supply is a record:                   *)
(*   model     "independent" (E36312A, EDU36311A: a switch per output),    *)
(*             "global" (E3646A: one switch, channels preselected) or      *)
(*             "pair" (PSM-2010: one output whose setpoints share a range) *)
(*   on, tripped, set    per channel: switch, latched protection, settings *)
(*   trig, init          per channel: trigger configuration and transient  *)
(*   pins, bus           rear pins routed to the trigger, BUS pulse enable *)
(*   queued              the error queue is not empty                      *)
(* Setting values are classes 0, 1, 2.  On a "pair" supply, voltage 2 fits *)
(* only the HIGH range (value 2) and current 2 only the LOW range (1).     *)
(***************************************************************************)
EXTENDS Naturals, SequencesExt

CONSTANT NumChannels    \* channels of a supply of model "independent" or "global"

ASSUME NumChannelsAssumption == NumChannels \in Nat \ {0}

\* A model is "independent", "global" (one switch, E3646A) or "pair" (PSM-2010).
None == 9               \* no value: a null setting, an omitted parameter
Settings == {"voltage", "current", "ovp", "ocp", "delay", "start", "range"}
TriggerKeys == {"source", "mode", "level", "list"}

\* DriverCapabilities.channels
ChannelsOf(model) == IF model = "pair" THEN {1} ELSE 1..NumChannels

Supply(model) ==
    [model |-> model,
     on |-> [c \in ChannelsOf(model) |-> FALSE],
     tripped |-> [c \in ChannelsOf(model) |-> FALSE],
     set |-> [c \in ChannelsOf(model) |-> [k \in Settings |-> IF k = "range" THEN 1 ELSE 0]],
     trig |-> [c \in ChannelsOf(model) |->
                 [source |-> "imm", mode |-> "fix", level |-> 0, list |-> 0]],
     init |-> [c \in ChannelsOf(model) |-> "idle"],
     pins |-> {}, bus |-> FALSE, queued |-> FALSE]

-----------------------------------------------------------------------------
(* Outputs and settings *)

\* The E3646A has one switch for all its outputs.
Switched(s, c) == IF s.model = "global" THEN DOMAIN s.on ELSE {c}

\* A channel whose protection has tripped stays off until it is cleared.
OutputOn(s, c) ==
    [s EXCEPT !.on = [d \in DOMAIN @ |-> @[d] \/ (d \in Switched(s, c) /\ ~s.tripped[d])]]

OutputOff(s, c) == [s EXCEPT !.on = [d \in DOMAIN @ |-> @[d] /\ d \notin Switched(s, c)]]

\* The range of a PSM-2010 limits its setpoints: one that does not fit is
\* rejected, and one left over from the other range is lowered.
Beyond(range, key, value) == value = 2 /\ <<range, key>> \in {<<1, "voltage">>, <<2, "current">>}

WriteSetting(s, c, key, value) ==
    IF s.model = "pair" /\ Beyond(s.set[c]["range"], key, value) THEN [s EXCEPT !.queued = TRUE]
    ELSE [s EXCEPT !.set[c] = [k \in Settings |->
            IF k = key THEN value
            ELSE IF s.model = "pair" /\ key = "range" /\ Beyond(value, k, @[k]) THEN 1
            ELSE @[k]]]

\* _compatible_programming_ranges, LOW before HIGH.
CompatibleRanges(voltage, current) ==
    {r \in {1, 2} : (voltage = 2 => r = 2) /\ (current = 2 => r = 1)}

\* _prepare_output_pair raises: no range holds the pair, or the range would
\* have to change under an output that is on.
PairRefused(s, c, voltage, current) ==
    LET ranges == CompatibleRanges(voltage, current)
    IN  \/ ranges = {}
        \/ s.set[c].range \notin ranges /\ s.on[c]

\* _prepare_output_pair writes the first compatible range unless the active
\* one is compatible.
PrepareOutputPair(s, c, voltage, current) ==
    LET ranges == CompatibleRanges(voltage, current)
    IN  IF s.set[c].range \in ranges THEN s
        ELSE WriteSetting(s, c, "range", Min(ranges))

ClearOutputProtection(s, c) == [s EXCEPT !.tripped[c] = FALSE]

-----------------------------------------------------------------------------
(* Triggers (E36312A) *)

ConfigureTriggerOutputPins(s, pins) == [s EXCEPT !.pins = @ \cup pins]
ClearTriggerOutputPins(s, pins) == [s EXCEPT !.pins = @ \cap pins]
EnableTriggerOutputBus(s, enabled) == [s EXCEPT !.bus = enabled]
RestoreDigitalPins(s, pins) == [s EXCEPT !.pins = pins]

\* set_output_trigger_source, set_triggered_*, set_*_trigger_mode, configure_list
WriteTrigger(s, c, key, value) == [s EXCEPT !.trig[c][key] = value]

\* A transient that starts in STEP or LIST mode moves the channel's level.
Start(s, started) ==
    [s EXCEPT
        !.init = [d \in DOMAIN @ |-> IF d \in started THEN "running" ELSE @[d]],
        !.set = [d \in DOMAIN @ |->
            IF d \notin started THEN @[d]
            ELSE CASE s.trig[d].mode = "step" -> [@[d] EXCEPT !.voltage = s.trig[d].level]
                   [] s.trig[d].mode = "list" -> [@[d] EXCEPT !.voltage = s.trig[d].list]
                   [] OTHER -> @[d]]]

\* INIT starts an IMMediate transient and arms any other.
InitiateOutputTrigger(s, c) ==
    IF s.trig[c].source = "imm" THEN Start(s, {c}) ELSE [s EXCEPT !.init[c] = "armed"]

AbortOutputTrigger(s, c) == [s EXCEPT !.init[c] = "idle"]

Waiting(s) == {d \in DOMAIN s.init : s.init[d] = "armed" /\ s.trig[d].source = "bus"}

\* *TRG is global; with nothing armed it queues -211, "Trigger ignored".
FireBusTrigger(s) ==
    IF Waiting(s) = {} THEN [s EXCEPT !.queued = TRUE] ELSE Start(s, Waiting(s))

\* The event of *OPC: no transient is pending.
OperationComplete(s) == \A d \in DOMAIN s.init : s.init[d] = "idle"

ClearStatus(s) == [s EXCEPT !.queued = FALSE]
ReadErrorQueue(s) == [s EXCEPT !.queued = FALSE]
=============================================================================
