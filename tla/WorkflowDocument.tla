-------------------------- MODULE WorkflowDocument --------------------------
(***************************************************************************)
(* The documents of the ramp list and of the sequence: what makes a plan   *)
(* of one.  A plan is computed when the request is admitted, again when it *)
(* starts, and each time the setpoints it contains are held against the    *)
(* safety configuration of that moment; what then happens on an instrument *)
(* is in Admission (checks and writes) and Workflow (stops and failures).  *)
(*                                                                         *)
(* A document is a record whose DOMAIN are the fields it gives; their      *)
(* values have the right types.  A step of a sequence is [action,          *)
(* parameters], the parameters as in Contract; the other spellings of the  *)
(* document and its steps (YAML, shorthand) are left out.                  *)
(***************************************************************************)
EXTENDS Identity, Limits, Capabilities, Contract, FiniteSetsExt

MaxSteps == 1000
MaxUnits == 1000000
MaxSegments == 10

\* The voltages of a ramp: every step before the stop voltage, and that one.
Voltages(start, stop, step) ==
  LET up    == IF stop >= start THEN 1 ELSE -1
      count == (up * (stop - start) + step - 1) \div step
  IN [k \in 1..count + 1 |-> IF k > count THEN stop ELSE start + up * (k - 1) * step]

\* The number of loops: the request's, else the document's, else one.
Loops(d, p) ==
  IF "loop_count" \in DOMAIN p THEN p["loop_count"][2]
  ELSE IF "loop_count" \in DOMAIN d THEN d.loop_count ELSE 1

LoopCountHolds(d) == "loop_count" \in DOMAIN d => d.loop_count \in 1..MaxLoopCount

\* The limits a plan is held against: none without a configuration.
Unlimited == [ok |-> TRUE, limits |-> NoLimits]

\* The channels a plan names are those of the planning identity, where there
\* is one.
ChannelsPlanned(runtime, channels) ==
  runtime.mode # "live" /\ (runtime.planning # NoModel \/ runtime.profile # NoModel) =>
    channels \subseteq NoHardwareChannels(runtime)

\* Only an E36312A has the pulse that a plan without hardware may contain.
PulsePlannable(runtime) == runtime.mode # "live" => runtime.planning = E36312A

-----------------------------------------------------------------------------
(* Ramp lists *)

ListVersions == 2..5

ListFields(version) ==
  {"kind", "version", "segments"} \cup (IF version >= 3 THEN {"enable_output"} ELSE {})
    \cup (IF version >= 4 THEN {"loop_count"} ELSE {})

Selector(version) == IF version = 5 THEN "channels" ELSE "channel"

SegmentFields ==
  {"current", "start_voltage", "stop_voltage", "step_voltage", "delay_ms", "hold_ms"}

SegmentChannels(s) == IF "channels" \in DOMAIN s THEN s.channels ELSE <<s.channel>>

SegmentVoltages(s) == Voltages(s.start_voltage, s.stop_voltage, s.step_voltage)

EnablesOutput(d) == "enable_output" \in DOMAIN d /\ d.enable_output

\* The limits of a channel in a safety configuration, before the model is known.
ListLimits(r, config, c) ==
  IF r.configured THEN RequestSafetyLimits(config, TRUE, r.runtime.resource, r.alias, NoValue, c)
  ELSE Unlimited

\* Every channel and every voltage of a segment, not its ends only.
SegmentHolds(s, r, config) ==
  \A c \in ToSet(SegmentChannels(s)) :
    LET limit == ListLimits(r, config, c) IN
    limit.ok /\ \A v \in ToSet(SegmentVoltages(s)) : ValidateSetpoint(limit.limits, c, v, s.current)

SegmentPlanned(version, s, r, config) ==
  /\ DOMAIN s = SegmentFields \cup {Selector(version)}
  /\ LET channels == SegmentChannels(s) IN
     /\ channels # <<>> /\ Distinct(channels) /\ \A c \in ToSet(channels) : c >= 1
     /\ ChannelsPlanned(r.runtime, ToSet(channels))
  /\ s.delay_ms >= 0 /\ s.hold_ms >= 0 /\ s.step_voltage > 0
  /\ Len(SegmentVoltages(s)) <= MaxSteps
  /\ SegmentHolds(s, r, config)

\* A pulse after each loop needs a second one.
PulsePlanned(pulse, loops, runtime) ==
  /\ pulse.timing \in {"segment", "step", "loop"} /\ pulse.polarity \in {"positive", "negative"}
  /\ pulse.pins # <<>> /\ Distinct(pulse.pins) /\ ToSet(pulse.pins) \subseteq 1..3
  /\ pulse.timing = "loop" => loops >= 2
  /\ PulsePlannable(runtime)

ListUnits(d) == Len(FlattenSeq([k \in DOMAIN d.segments |-> SegmentVoltages(d.segments[k])]))

RampListPlanned(r, d, p, config) ==
  /\ {"kind", "version"} \subseteq DOMAIN d /\ d.kind = "ramp-list" /\ d.version \in ListVersions
  /\ ListFields(d.version) = DOMAIN d \ {"completion_pulse"}
  /\ LoopCountHolds(d)
  /\ Len(d.segments) \in 1..MaxSegments
  /\ \A s \in ToSet(d.segments) : SegmentPlanned(d.version, s, r, config)
  /\ "completion_pulse" \in DOMAIN d => PulsePlanned(d.completion_pulse, Loops(d, p), r.runtime)
  /\ Loops(d, p) * ListUnits(d) <= MaxUnits

-----------------------------------------------------------------------------
(* Sequences *)

OneChannel == "channel" :> Default(Channel, Exact(1))
OneOrAll == "channel" :> OrAll(Default(Channel, Exact(1)))

ActionContracts ==
  [a \in {"measure", "readback"} |-> Contract(OneChannel)]
  @@ [a \in {"output-state", "safe-off", "output-on", "output-off"} |-> Contract(OneOrAll)]
  @@ "log" :> Contract("message" :> Default(Field("string"), <<"str", "">>))
  @@ "wait" :> [Contract("seconds" :> Required(Voltage)) EXCEPT
                  !.aliases = "duration_sec" :> "seconds", !.exclusive = {{"seconds", "duration_sec"}}]
  @@ "trigger-pulse" :>
       Contract(OneChannel @@ "pins" :> Field("pin_list") @@ "leave_trigger_configured" :> Flag
                @@ "polarity" :> Default(Polarity, <<"str", "positive">>))
  @@ "cycle-output" :> Contract(OneOrAll @@ "duration_ms" :> Positive(500))
  @@ "set" :> Contract(OneChannel @@ PairFields)
  @@ "apply" :> Contract(OneOrAll @@ PairFields @@ "no_output" :> Flag)

HostOnly == {"wait", "log"}

\* The parameters of a step, all defaults filled in.
StepParameters(step) ==
  LET contract == ActionContracts[step.action] IN
  WithDefaults(contract, Renamed(contract, step.parameters))

StepAdmitted(step) ==
  /\ step.action \in DOMAIN ActionContracts
  /\ ParametersAdmitted(ActionContracts[step.action], step.parameters)
  /\ step.action = "trigger-pulse" => "pins" \in DOMAIN step.parameters

\* The channels whose limits are known before an instrument is: for "all" those
\* of the planned or expected model, if any.
EarlyChannels(runtime, channel) ==
  LET model == IF runtime.planning # NoModel THEN runtime.planning ELSE runtime.expected IN
  IF channel # All THEN {channel[2]}
  ELSE IF model = NoModel /\ runtime.profile = NoModel THEN {}
  ELSE NoHardwareChannels([runtime EXCEPT !.planning = model])

StepPlanned(runtime, step, limit) ==
  LET p == StepParameters(step)
      early == EarlyChannels(runtime, p["channel"])
  IN step.action \notin HostOnly =>
       /\ step.action = "trigger-pulse" => PulsePlannable(runtime)
       /\ p["channel"] # All => ChannelsPlanned(runtime, {p["channel"][2]})
       /\ step.action \in {"set", "apply"} =>
            /\ limit.ok
            /\ \A c \in early : ValidateSetpoint(limit.limits, c, p["voltage"][2], p["current"][2])
       /\ step.action \in {"output-on", "output-off", "cycle-output"} =>
            \A c \in early : limit.ok /\ ValidateChannel(limit.limits, c)

SequenceFields(version) == {"version", "steps"} \cup (IF version = 2 THEN {"loop_count"} ELSE {})

\* One limit layer for all channels: that of the resource, or the alias.
SequencePlanned(runtime, d, p, limit) ==
  LET version == IF "version" \in DOMAIN d THEN d.version ELSE 1 IN
  /\ version \in {1, 2}
  /\ SequenceFields(version) \ {"version"} \subseteq DOMAIN d
  /\ DOMAIN d \subseteq SequenceFields(version)
  /\ LoopCountHolds(d)
  /\ d.steps # <<>>
  /\ \A step \in ToSet(d.steps) : StepAdmitted(step) /\ StepPlanned(runtime, step, limit)
  /\ Loops(d, p) * Len(d.steps) <= MaxUnits

\* The actions a document asks an instrument for.
Actions(d) ==
  IF "steps" \in DOMAIN d THEN {step.action : step \in ToSet(d.steps)} \ HostOnly ELSE {}

Pulses(d) == "trigger-pulse" \in Actions(d)
=============================================================================
