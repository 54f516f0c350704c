----------------------------- MODULE Admission -----------------------------
(***************************************************************************)
(* A request from an adapter to the instrument: the import of the identity *)
(* registry, the admission of the request, its second admission where it   *)
(* is started, the gates of the adapter, the identification of the         *)
(* instrument, the checks of every channel and the writes, one driver call *)
(* at a time.  The safety configuration is a file that each check reads    *)
(* again and that may be edited meanwhile; so may a document file.  What   *)
(* the commands do beyond checks and setpoints is in Commands and          *)
(* Workflow.                                                               *)
(***************************************************************************)
EXTENDS SnapshotDocument, WorkflowDocument

CONSTANTS
  Registries,     \* registries the program may be shipped with
  Expected,       \* canonical name of every registered and de-scoped model -> id
  Docs,           \* contents of the safety configuration
  Files,          \* contents of a document file
  Requests,       \* requests the adapters may receive
  Benches,        \* instruments at the resource, in any state
  LiveSupported,  \* <<model, command>> of the live support policy
  MaxEdits        \* edits of files during one request

VARIABLES
  registry,   \* the identity registry of the program
  doc,        \* the safety configuration
  file,       \* the document file
  edits,      \* edits during this request
  pc,         \* where the request is
  request,    \* as received, then as admitted
  bench,      \* the instrument
  todo,       \* remaining steps of the session
  enabled,    \* channels this session has switched on, in order
  checked,    \* <<channel, voltage, current, configuration>> of passed limit checks
  confirmed   \* the same of passed confirmation checks

vars == <<registry, doc, file, edits, pc, request, bench, todo, enabled, checked, confirmed>>

IsTable(s) == s \in Seq(ToSet(s))

\* The models of a registry are a table.
ASSUME RegistriesAssumption == \A reg \in Registries : IsTable(reg.models)

\* A consistent registry is right about the instruments: what answers *IDN? with
\* a model's name and a maker it has for that model is that model.
ASSUME GenuineAssumption ==
  \A reg \in Registries :
    IndexesBuilt(reg) /\ InventoryAgrees(reg, Expected) =>
      \A m \in ToSet(reg.models), b \in Benches :
        /\ b.name \in ToSet(m.names)
        /\ \/ b.maker \in ToSet(m.makers)
           \/ \E v \in ToSet(reg.vendors) : v.id = m.vendor /\ b.maker \in ToSet(v.names)
        => b.model = m.id

\* An instrument is a record of what it is, what it answers and its outputs,
\* each of which is rated where the model is.
ASSUME BenchesAssumption ==
  \A b \in Benches :
    /\ DOMAIN b = {"model", "maker", "name", "serial", "voltage", "current", "on"}
    /\ b.name # NoValue
    /\ DOMAIN b.voltage = DOMAIN b.on /\ DOMAIN b.current = DOMAIN b.on
    /\ IsFiniteSet(DOMAIN b.on) /\ DOMAIN b.on \subseteq Nat
    /\ b.model \in DOMAIN Ratings => DOMAIN b.on \subseteq DOMAIN Ratings[b.model]
    /\ \A c \in DOMAIN b.on : b.voltage[c] \in Int /\ b.current[c] \in Int

\* A PSM-2010 has one output.
ASSUME ModelsAssumption ==
  /\ NoModel = NoValue /\ NoValue \notin Int /\ Profile = GenericProfile
  /\ Drivers \subseteq ActiveModels /\ ActiveModels \cap DeScoped = {}
  /\ DOMAIN Ratings \subseteq Drivers
  /\ \A m \in Drivers :
       ModelChannels[m] # {} /\ ModelChannels[m] \subseteq Nat /\ IsFiniteSet(ModelChannels[m])
  /\ PSM2010 \in Drivers => ModelChannels[PSM2010] = {1}

ASSUME RatingsAssumption ==
  \A m \in DOMAIN Ratings : \A c \in DOMAIN Ratings[m] :
    Ratings[m][c].voltage \in Nat /\ Ratings[m][c].current \in Nat

Numbers(layer) == \A f \in DOMAIN layer \ {"allowed_channels"} : layer[f] \in Int

\* The tables of a configuration are sequences, its limits numbers.
ASSUME DocsAssumption ==
  \A d \in Docs :
    LET models == Tables(d, "models")
        entries == Tables(d, "resources")
    IN /\ IsTable(models) /\ IsTable(entries)
       /\ Numbers(GlobalLimits(d)) /\ \A m \in ToSet(models) : Numbers(m.limits)
       /\ \A e \in ToSet(entries) :
            Numbers(e.limits) /\ \A c \in DOMAIN e.channels : Numbers(e.channels[c])

\* The value of a parameter is what its tag says.
Tagged(value) ==
  /\ value[1] \in {"int", "num"} => value[2] \in Int
  /\ value[1] = "list" =>
       IsTable(value[2]) /\ \A x \in ToSet(value[2]) : x[1] = "int" => x[2] \in Int

\* Lists are lists and numbers are numbers in every document the loaders pass on.
DocumentTyped(d) ==
  /\ "loop_count" \in DOMAIN d => d.loop_count \in Int
  /\ "segments" \in DOMAIN d =>
       /\ IsTable(d.segments)
       /\ \A s \in ToSet(d.segments) :
            /\ "channels" \in DOMAIN s => s.channels \in Seq(Int)
            /\ \A n \in DOMAIN s \ {"channels"} : s[n] \in Int
  /\ "steps" \in DOMAIN d =>
       /\ IsTable(d.steps)
       /\ \A step \in ToSet(d.steps) :
            \A n \in DOMAIN step.parameters : Tagged(step.parameters[n])

ASSUME FilesAssumption == \A d \in Files : DocumentTyped(d)

RequestFields ==
  {"adapter", "command", "parameters", "runtime", "alias", "configured", "confirm", "writes"}

ASSUME RequestsAssumption ==
  \A r \in Requests :
    /\ DOMAIN r = RequestFields /\ "mode" \in DOMAIN r.runtime
    /\ \A n \in DOMAIN r.parameters :
         Tagged(r.parameters[n]) /\ (n = "document" => DocumentTyped(r.parameters[n][2]))

RuntimeFields == {"mode", "planning", "expected", "profile", "resource"}

\* A request is a record, and so are its options; it runs in one of three modes.
ASSUME RuntimesAssumption ==
  \A r \in Requests :
    /\ r = [n \in RequestFields |-> r[n]] /\ r.runtime = [n \in RuntimeFields |-> r.runtime[n]]
    /\ r.runtime.mode \in {"live", "dry_run", "simulate"}

\* The simulator that stands for a model is known to be of that model.
ASSUME SimulatorsAssumption ==
  /\ NoModel \notin ActiveModels /\ Restorable \subseteq ActiveModels
  /\ \A m \in ActiveModels : InferredModel(SimulatedResource[m]) = m

DocumentCommands == {"sequence", "ramp-list", "restore-from-snapshot"}

TypedFields(fields) ==
  /\ \A n \in {"voltage", "current", "start_voltage", "stop_voltage"} \cap DOMAIN fields :
       fields[n].kind = "nonnegative_number"
  /\ "step_voltage" \in DOMAIN fields => fields["step_voltage"].kind = "positive_number"
  /\ "channel" \in DOMAIN fields => fields["channel"].kind = "channel"
  /\ "channels" \in DOMAIN fields => fields["channels"].kind = "channel_list"
  /\ "loop_count" \in DOMAIN fields => fields["loop_count"].kind = "range_int"

RequiredOf(fields) == {n \in DOMAIN fields : fields[n].required}

\* What the tables of Contract and WorkflowDocument say of the commands and the
\* steps with setpoints or channels (the tables hold no parameter of the model).
ASSUME ContractsAssumption ==
  /\ \A command \in DirectOutputCommands \cup {"output-state"} \cup DocumentCommands :
       LET fields == Contracts[command].fields IN
       /\ DOMAIN Contracts[command].aliases = {} /\ TypedFields(fields)
       /\ "channels" \in DOMAIN fields => command = "ramp"
       /\ command \in {"ramp", "ramp-list", "sequence"} \/ "channel" \in RequiredOf(fields)
       /\ command \in {"apply", "smoke-output"} => {"voltage", "current"} \subseteq RequiredOf(fields)
       /\ command = "smoke-output" => ~fields["channel"].all
  /\ {"channel", "channels"} \in Contracts["ramp"].exactlyOne
  /\ {"start_voltage", "stop_voltage", "step_voltage", "current"} \subseteq RequiredOf(Contracts["ramp"].fields)
  /\ \A action \in DOMAIN ActionContracts \ HostOnly :
       LET fields == ActionContracts[action].fields IN
       /\ DOMAIN ActionContracts[action].aliases = {} /\ TypedFields(fields)
       /\ "channels" \notin DOMAIN fields
       /\ "channel" \in DOMAIN fields /\ fields["channel"].default = <<Exact(1)>>
       /\ action \in {"set", "apply"} => {"voltage", "current"} \subseteq RequiredOf(fields)

Defaulted(contract) == {n \in DOMAIN contract.fields : contract.fields[n].default # <<>>}

\* What the tables of Contract say of every command: the name that an alias
\* stands for is a field, the two exclude each other, and no choice between
\* parameters is decided by a default.
ASSUME TablesAssumption ==
  \A command \in DOMAIN Contracts :
    LET contract == Contracts[command]
        aliases == DOMAIN contract.aliases
        meant == {contract.aliases[a] : a \in aliases}
        defaulted == Defaulted(contract)
    IN /\ (aliases \cup contract.removed) \cap DOMAIN contract.fields = {}
       /\ meant \subseteq DOMAIN contract.fields
       /\ command \in ProtectionCommands => "all" \notin meant \cup defaulted
       /\ \A n \in defaulted : FieldAccepts(contract.fields[n], contract.fields[n].default[1])
       /\ \A group \in contract.exclusive :
            \/ group \cap (aliases \cup meant \cup defaulted) = {}
            \/ \E a \in aliases : group = {a, contract.aliases[a]}
       /\ \A group \in contract.exactlyOne : group \cap (aliases \cup meant \cup defaulted) = {}
       /\ \A group \in contract.atLeastOne : group \cap defaulted = {}
       /\ \A d \in contract.depends : d[1] \notin defaulted

\* What a document command is given beside its document: at most one of these,
\* and the document is one that is read from the file.
ASSUME DocumentTablesAssumption ==
  \A command \in DocumentCommands :
    LET contract == Contracts[command] IN
    /\ contract.exclusive # {}
    /\ \A group \in contract.exclusive : group \subseteq {"document", "file", "snapshot"}
    /\ contract.exactlyOne = {} /\ contract.atLeastOne = {} /\ contract.depends = {}
    /\ "document" \in DOMAIN contract.fields /\ contract.fields["document"].kind = "object"
    /\ \A n \in {"file", "snapshot"} : n \in DOMAIN contract.fields => ~contract.fields[n].required

Sessions == {"session", "unwinding"}

-----------------------------------------------------------------------------
(* Requests *)

Mode(r) == r.runtime.mode

Setpoint(p, name) == IF name \in DOMAIN p THEN p[name][2] ELSE NoValue

Flagged(p, name) == name \in DOMAIN p /\ p[name] = Yes

\* The safety configuration's alias takes precedence over the resource.
SafetyLimits(r, channel, model) ==
  RequestSafetyLimits(doc, r.configured, r.runtime.resource, r.alias, model, channel)

RampVoltages(p) == Voltages(p["start_voltage"][2], p["stop_voltage"][2], p["step_voltage"][2])

RampUnitsHold(p) ==
  LET steps == Len(RampVoltages(p)) IN
  steps <= MaxSteps /\ Loops(NoFields, p) * steps <= MaxUnits

\* The supported channels a selection stands for, in their order.
ChannelsOf(p, supported) ==
  LET selected == IF "channels" \in DOMAIN p THEN {item[2] : item \in ToSet(p["channels"][2])}
                  ELSE IF p["channel"] = All THEN supported ELSE {p["channel"][2]}
  IN Ascending(selected)

SelectionHolds(p, supported) == ToSet(ChannelsOf(p, supported)) \subseteq supported

-----------------------------------------------------------------------------
(* Admission *)

PlanningIdentity(runtime) ==
  IF runtime.profile # NoModel THEN runtime.profile ELSE runtime.planning

\* A known command without hardware needs a planning identity that supports it.
Gated(r) == Mode(r) # "live" /\ r.command \in KnownCommands

GateHolds(r) ==
  Gated(r) =>
    /\ NoHardwareResolves(r.runtime)
    /\ Supports(PlanningIdentity(ResolveNoHardware(r.runtime)), r.command, Mode(r))

GatedRuntime(r) == IF Gated(r) THEN ResolveNoHardware(r.runtime) ELSE r.runtime

\* A document is given, or read from the file, which the admitted request no
\* longer names.
FromFile(p) == "document" \notin DOMAIN p

DocumentGiven(p) == {"document", "file", "snapshot"} \cap DOMAIN p # {}

DocumentOf(p) == IF FromFile(p) THEN file ELSE p["document"][2]

\* A seeded error: the file a document was read from stays in the request.
KeepsFile(p) ==
  [n \in {"document"} \cup DOMAIN p |-> IF n = "document" THEN <<"obj", DocumentOf(p)>> ELSE p[n]]

Materialize(p) ==
  [n \in {"document"} \cup (DOMAIN p \ {"file", "snapshot"}) |->
     IF n = "document" THEN <<"obj", DocumentOf(p)>> ELSE p[n]]

\* The limits a sequence is held against before the model is known: it asks
\* with the resource and with the alias.
SequenceLimits(r) ==
  IF r.configured THEN ResolveSafetyConfig(doc, r.runtime.resource, r.alias, NoValue, NoValue)
  ELSE Unlimited

\* Only a pulse takes a sequence through the gate, before it is planned.
SequenceRuntime(r, d) == IF Pulses(d) THEN GatedRuntime(r) ELSE r.runtime

SequencePlannedWith(r, runtime, p) ==
  SequencePlanned(runtime, DocumentOf(p), p, SequenceLimits([r EXCEPT !.runtime = runtime]))

\* What each command's own admission adds.
CommandAdmits(r, p) ==
  CASE r.command = "sequence" ->
         /\ DocumentGiven(p)
         /\ Pulses(DocumentOf(p)) => GateHolds(r)
         /\ SequencePlannedWith(r, SequenceRuntime(r, DocumentOf(p)), p)
    [] r.command = "ramp-list" ->
         /\ GateHolds(r) /\ DocumentGiven(p)
         /\ RampListPlanned([r EXCEPT !.runtime = GatedRuntime(r)], DocumentOf(p), p, doc)
    [] r.command = "restore-from-snapshot" ->
         /\ DocumentGiven(p)
         /\ "kind" \in DOMAIN DocumentOf(p) /\ DocumentOf(p).kind = "snapshot"
         /\ SnapshotValid(registry, DocumentOf(p))
         /\ RestorePrepared(r.runtime, DocumentOf(p))
         /\ RestoreChannels(DocumentOf(p), p["channel"]) # <<>>
         /\ ToSet(RestoreChannels(DocumentOf(p), p["channel"]))
              \subseteq ModelChannels[DocumentOf(p).resolved]
    [] r.command = "ramp" ->
         /\ RampUnitsHold(p) /\ GateHolds(r)
         /\ Gated(r) /\ "channels" \in DOMAIN p =>
              SelectionHolds(p, NoHardwareChannels(GatedRuntime(r)))
    [] OTHER -> GateHolds(r)

\* Only live.
NeverPlanned == {"list-resources", "verify", "error", "identify", "measure"}

AdmissionHolds(r) ==
  /\ RequestNormalizes(r.command, r.parameters)
  /\ ~(Mode(r) = "dry_run" /\ r.command \in NeverPlanned)
  /\ LET p == Normalized(r.command, r.parameters) IN
     ParametersHold(r.command, p) /\ CommandAdmits(r, p)

CanonicalChannels(r, p) ==
  IF r.command = "ramp" /\ Gated(r) /\ "channels" \in DOMAIN p
  THEN LET ordered == ChannelsOf(p, {}) IN
       [p EXCEPT !["channels"] = <<"list", [k \in DOMAIN ordered |-> Exact(ordered[k])]>>]
  ELSE p

AdmittedRuntime(r, p) ==
  CASE r.command = "restore-from-snapshot" -> PreparedRuntime(r.runtime, DocumentOf(p))
    [] r.command = "sequence" -> SequenceRuntime(r, DocumentOf(p))
    [] OTHER -> GatedRuntime(r)

Admitted(r) ==
  LET p == CanonicalChannels(r, Normalized(r.command, r.parameters)) IN
  [r EXCEPT !.parameters = IF r.command \in DocumentCommands THEN Materialize(p) ELSE p,
            !.runtime = AdmittedRuntime(r, p)]

-----------------------------------------------------------------------------
(* The adapters *)

\* The CLI's output commands call Core's operation without its admission,
\* after checks of their own; a live ramp takes both.
Direct(r) ==
  r.adapter = "cli" /\ r.command \in DirectOutputCommands \cup {"output-state"}
    /\ ~(r.command = "ramp" /\ Mode(r) = "live")

\* Its argument parser knows the parameters and their types.
ASSUME CliAssumption ==
  \A r \in Requests :
    LET p == r.parameters IN
    Direct(r) /\ Mode(r) = "live" =>
      /\ "channel" \in DOMAIN p /\ "channels" \notin DOMAIN p
      /\ p["channel"] = All \/ p["channel"][1] = "int"
      /\ \A n \in {"voltage", "current"} \cap DOMAIN p : Number(p[n])
      /\ r.command \in {"apply", "smoke-output"} => {"voltage", "current"} \subseteq DOMAIN p
      /\ r.command = "smoke-output" => p["channel"] # All

CliLimits(r) ==
  SafetyLimits(r, IF "channel" \in DOMAIN r.parameters /\ r.parameters["channel"] # All
                  THEN r.parameters["channel"][2] ELSE NoValue, NoValue)

\* validate_output_request: the channels it checks for "all" are 1 to 3.
OutputRequestHolds(r, limits) ==
  LET p == r.parameters
      all == "channel" \in DOMAIN p /\ p["channel"] = All
      channels == IF all THEN 1..3 ELSE {p["channel"][2]}
  IN CASE r.command \in {"set", "apply", "smoke-output"} ->
            /\ all => r.command = "apply"
            /\ \A c \in channels :
                 ValidateSetpoint(limits, c, Setpoint(p, "voltage"), Setpoint(p, "current"))
       [] r.command = "ramp" ->
            "channels" \notin DOMAIN p =>
              /\ ~all /\ Len(RampVoltages(p)) <= MaxSteps
              /\ \A v \in ToSet(RampVoltages(p)) :
                   ValidateSetpoint(limits, p["channel"][2], v, Setpoint(p, "current"))
       [] r.command = "safe-off" -> ~all => ValidateChannel(limits, p["channel"][2])
       [] OTHER -> \A c \in channels : ValidateChannel(limits, c)

\* The CLI looks up the resource of an alias, and keeps both.
CliResolves(r) ==
  /\ r.adapter = "cli"
  /\ \/ r.command \in DirectOutputCommands \cup {"output-state"}
     \/ r.command \in {"sequence", "ramp-list"} /\ r.alias # NoValue

CliHolds(r) ==
  CliResolves(r) =>
    /\ CliLimits(r).ok
    /\ r.command \in {"sequence", "ramp-list"} \/ OutputRequestHolds(r, CliLimits(r).limits)

CliResolved(r) ==
  IF CliResolves(r) THEN [r EXCEPT !.runtime.resource = CliLimits(r).resource] ELSE r

\* The Worker and the WebUI change an instrument only when told to.
AdapterGate(r) ==
  CASE r.adapter = "worker" -> r.command \in OutputAffecting /\ Mode(r) = "live" => r.writes /\ r.confirm
    [] r.adapter = "webui"  -> r.command \in OutputAffecting /\ Mode(r) = "live" => r.confirm
    [] OTHER -> TRUE

Allowed(r) ==
  CASE r.adapter = "worker" -> r.command \in WorkerCommands
    [] r.adapter = "webui"  -> r.command \in WebCommands
    [] OTHER -> TRUE

-----------------------------------------------------------------------------
(* Plans without hardware *)

\* A known simulator's ratings and the configuration bound the voltages of a
\* simulated request, together with its current.
SimulatedSetpointsHold(r) ==
  LET p == r.parameters
      model == InferredModel(r.runtime.resource)
      voltages == IF r.command = "ramp" THEN ToSet(RampVoltages(p)) ELSE {Setpoint(p, "voltage")}
  IN Mode(r) = "simulate" /\ model \in DOMAIN Ratings /\ r.command \in {"set", "apply", "smoke-output", "ramp"} =>
       \A c \in ToSet(ChannelsOf(p, DOMAIN Ratings[model])) :
         LET safety == SafetyLimits(r, c, model) IN
         safety.ok /\ \A v \in voltages :
           ValidateEffectiveSetpoint(model, safety.limits, c, v, Setpoint(p, "current"))

PulseRequested(p) == "completion_pulse_pins" \in DOMAIN p

\* A pulse after every loop takes more than one loop.
LoopTimingHolds(r) ==
  LET p == r.parameters IN
  r.command = "ramp" /\ "completion_pulse_timing" \in DOMAIN p
    /\ p["completion_pulse_timing"] = <<"str", "loop">> =>
      "loop_count" \in DOMAIN p /\ p["loop_count"][2] >= 2

PlanHolds(r) ==
  /\ NoHardwareResolves(r.runtime)
  /\ LET planned == [r EXCEPT !.runtime = ResolveNoHardware(@)]
         identity == PlanningIdentity(planned.runtime)
     IN /\ Supports(identity, r.command, Mode(r))
        /\ GeneralWorkflowHolds(r.command, r.parameters)
        /\ r.command = "ramp" => RampUnitsHold(r.parameters)
        /\ LoopTimingHolds(r)
        /\ ConstraintsHold(r.parameters)
        /\ PulseRequested(r.parameters) => identity = E36312A
        /\ SimulatedSetpointsHold(planned)
        /\ SelectionHolds(r.parameters, ModelChannels[identity])

-----------------------------------------------------------------------------
(* Sessions *)

Detected(b) == Resolved(registry, b.maker, b.name)

\* A pulse needs the supply that has one, and these commands look for it before
\* they write (a ramp after its checks, which write nothing); safe-off and
\* output-off look for it only afterwards.
EarlyPulse == {"set", "apply", "output-on", "cycle-output", "smoke-output", "ramp"}

\* What the reply to *IDN? must satisfy before a driver is used.
IdentityHolds(r, b) ==
  LET model == Detected(b)
      d == r.parameters["document"][2]
  IN /\ model # NoModel
     /\ r.command = "restore-from-snapshot" => SameInstrument(d, model, b.serial)
     /\ ValidateExpectedModel(r.runtime.expected, model)
     /\ model \notin DeScoped
     /\ <<model, r.command>> \in LiveSupported
     /\ DriverFor(model) # Generic
     /\ r.command = "restore-from-snapshot" => model \in Restorable
     /\ r.command \in EarlyPulse /\ PulseRequested(r.parameters) => model = E36312A
     /\ r.command = "ramp-list" /\ "completion_pulse" \in DOMAIN d => model = E36312A
     /\ r.command = "sequence" /\ Pulses(d) => model = E36312A

\* A step of a sequence, the channels it is for, and whether it switches on.
ChannelsOfStep(step, supported) == ChannelsOf(StepParameters(step), supported)

Programs(step) == step.action \in {"set", "apply"}

Enables(step) ==
  \/ step.action \in {"output-on", "cycle-output"}
  \/ step.action = "apply" /\ ~Flagged(StepParameters(step), "no_output")

\* The channels whose outputs a session may switch on, or restore.
SessionChannels(r, b) ==
  LET d == r.parameters["document"][2]
      supported == ModelChannels[Detected(b)]
  IN CASE r.command = "restore-from-snapshot" -> RestoreChannels(d, r.parameters["channel"])
       [] r.command = "ramp-list" ->
            Ascending(UNION {ToSet(SegmentChannels(s)) : s \in ToSet(d.segments)})
       [] r.command = "sequence" ->
            Ascending(UNION {ToSet(ChannelsOfStep(step, supported)) :
                               step \in {x \in ToSet(d.steps) : Enables(x)}})
       [] OTHER -> ChannelsOf(r.parameters, supported)

\* The channels that are looked up in the instrument's before anything else: a
\* sequence looks for those of the other steps only when it comes to them.
ChannelsSupported(r, b) ==
  LET supported == ModelChannels[Detected(b)]
      d == r.parameters["document"][2]
  IN CASE r.command = "restore-from-snapshot" -> TRUE
       [] r.command = "ramp-list" -> ToSet(SessionChannels(r, b)) \subseteq supported
       [] r.command = "sequence" ->
            \A step \in {x \in ToSet(d.steps) : x.action = "output-off" \/ Programs(x) \/ Enables(x)} :
              ToSet(ChannelsOfStep(step, supported)) \subseteq supported
       [] OTHER -> SelectionHolds(r.parameters, supported)

\* A step is <<kind, channel, voltage, current>>.
At(kind, c) == <<kind, c, NoValue, NoValue>>

Each(channels, Steps(_)) == FlattenSeq([k \in DOMAIN channels |-> Steps(channels[k])])

\* A seeded error: only the first channel's confirmation is asked for.
FirstConfirmation(channels, c, v, i) ==
  IF c = channels[1] THEN <<<<"confirm", c, v, i>>>> ELSE <<>>

Confirmation(channels, c, v, i) == <<<<"confirm", c, v, i>>>>

\* A PSM-2010 is given both setpoints at once, current first elsewhere.
WritePair(model, c, v, i) ==
  IF model = PSM2010 /\ NoValue \notin {v, i} THEN <<<<"pair", c, v, i>>>>
  ELSE (IF i = NoValue THEN <<>> ELSE <<<<"current", c, NoValue, i>>>>)
       \o (IF v = NoValue THEN <<>> ELSE <<<<"voltage", c, v, NoValue>>>>)

\* The programmed setpoints of the channels to switch on are checked first.
CheckProgrammed(channels, b) ==
  Each(channels, LAMBDA c :
    <<<<"limits", c, b.voltage[c], b.current[c]>>>>
      \o Confirmation(channels, c, b.voltage[c], b.current[c]))

SwitchEach(kind, channels) == Each(channels, LAMBDA c : <<At(kind, c)>>)

\* One switch for all outputs of an E3646A.
RampSwitches(model, channels) ==
  SwitchEach("on", IF model = E3646A THEN <<channels[1]>> ELSE channels)

RampChecks(channels, voltages, current, enable) ==
  Each(channels, LAMBDA c : Each(voltages, LAMBDA v :
    <<<<"limits", c, v, current>>>>
      \o IF enable THEN Confirmation(channels, c, v, current) ELSE <<>>))

\* The current, the first voltage, the switches, the other voltages.
RampWrites(model, channels, voltages, current, switches) ==
  LET ForVoltage(v) ==
        Each(channels, LAMBDA c : IF model = PSM2010 /\ v = voltages[1] THEN <<>>
                                  ELSE <<<<"voltage", c, v, NoValue>>>>)
  IN (IF model = PSM2010 THEN <<<<"pair", channels[1], voltages[1], current>>>>
      ELSE Each(channels, LAMBDA c : <<<<"current", c, NoValue, current>>>>))
     \o ForVoltage(voltages[1])
     \o switches
     \o Each(Tail(voltages), ForVoltage)

RampSteps(model, channels, p) ==
  LET voltages == RampVoltages(p)
      current == p["current"][2]
      enable == Flagged(p, "enable_output")
  IN RampChecks(channels, voltages, current, enable)
     \o RampWrites(model, channels, voltages, current,
                   IF enable THEN RampSwitches(model, channels) ELSE <<>>)

\* Before its one switch an E3646A is given the first setpoints of every
\* channel of the list.
Prestage(segments, channels) ==
  LET first == [c \in ToSet(channels) |->
                  segments[Min({k \in DOMAIN segments : c \in ToSet(SegmentChannels(segments[k]))})]]
  IN Each(channels, LAMBDA c : <<<<"current", c, NoValue, first[c].current>>,
                                 <<"voltage", c, SegmentVoltages(first[c])[1], NoValue>>>>)
     \o <<At("on", channels[1])>>

\* All checks of all segments precede the writes; other supplies switch a
\* channel on in the first loop, in the first segment that has it.
RampListSteps(model, channels, d, p) ==
  LET segments == d.segments
      named(k) == ToSet(SegmentChannels(segments[k]))
      ordered(k) == Ascending(named(k))
      staged == EnablesOutput(d) /\ model = E3646A
      fresh(k) == Ascending(named(k) \ UNION {named(j) : j \in 1..k - 1})
      switches(k, loop) ==
        IF EnablesOutput(d) /\ ~staged /\ loop = 1 THEN SwitchEach("on", fresh(k)) ELSE <<>>
  IN FlattenSeq([k \in DOMAIN segments |->
       RampChecks(ordered(k), SegmentVoltages(segments[k]), segments[k].current, EnablesOutput(d))])
     \o (IF staged THEN Prestage(segments, channels) ELSE <<>>)
     \o FlattenSeq([loop \in 1..Loops(d, p) |-> FlattenSeq([k \in DOMAIN segments |->
          RampWrites(model, ordered(k), SegmentVoltages(segments[k]), segments[k].current,
                     switches(k, loop))])])

\* Before the first step: the channels to switch off, then each pair that is
\* programmed, and each pair an output is switched on with, as it will be when
\* the first loop comes to that step.
SequenceChecks(steps, supported, b) ==
  LET channels(k) == ChannelsOfStep(steps[k], supported)
      pair(k, c) ==
        LET programmed == {j \in 1..k : Programs(steps[j]) /\ c \in ToSet(channels(j))}
            p == StepParameters(steps[Max(programmed)])
        IN IF programmed = {} THEN <<b.voltage[c], b.current[c]>>
           ELSE <<p["voltage"][2], p["current"][2]>>
      checks(k) == Each(channels(k), LAMBDA c : <<<<"limits", c, pair(k, c)[1], pair(k, c)[2]>>>>)
  IN FlattenSeq([k \in DOMAIN steps |->
       IF steps[k].action = "output-off" THEN SwitchEach("channel", channels(k)) ELSE <<>>])
     \o FlattenSeq([k \in DOMAIN steps |->
          (IF Programs(steps[k]) THEN checks(k) ELSE <<>>)
            \o (IF Enables(steps[k]) THEN checks(k) ELSE <<>>)])

\* One step: a channel the instrument does not have fails it.  What it reads,
\* waits or pulses writes no setpoint.
SequenceStep(model, step, supported) ==
  LET p == StepParameters(step)
      channels == ChannelsOfStep(step, supported)
  IN IF step.action \in HostOnly THEN <<>>
     ELSE IF ~(ToSet(channels) \subseteq supported) THEN <<At("reject", channels[1])>>
     ELSE CASE Programs(step) ->
                 Each(channels, LAMBDA c :
                   WritePair(model, c, p["voltage"][2], p["current"][2])
                     \o IF Enables(step) THEN <<At("on", c)>> ELSE <<>>)
            [] step.action = "cycle-output" -> SwitchEach("on", channels) \o SwitchEach("off", channels)
            [] step.action = "output-on" -> SwitchEach("on", channels)
            [] step.action \in {"output-off", "safe-off"} -> SwitchEach("off", channels)
            [] OTHER -> <<>>

SequenceSteps(model, d, p, b) ==
  LET supported == ModelChannels[model] IN
  SequenceChecks(d.steps, supported, b)
    \o FlattenSeq([loop \in 1..Loops(d, p) |->
         Each(d.steps, LAMBDA step : SequenceStep(model, step, supported))])

\* restore_plan, without the protection settings.
RestoreSteps(d, channels, p) ==
  <<At("fit", channels[1])>>
    \o Each(channels, LAMBDA c :
         LET r == RecordOf(d.readback, c) IN
         <<At("off", c), <<"current", c, NoValue, r.current>>, <<"voltage", c, r.voltage, NoValue>>>>
           \o IF Flagged(p, "restore_output_state") /\ RecordOf(d.outputs, c).enabled
              THEN <<At("on", c)>> ELSE <<>>)

SetSteps(model, c, v, i) == <<<<"limits", c, v, i>>>> \o WritePair(model, c, v, i)

ApplySteps(model, channels, p, v, i) ==
  LET on == ~Flagged(p, "no_output") IN
  Each(channels, LAMBDA c :
         <<<<"limits", c, v, i>>>> \o IF on THEN Confirmation(channels, c, v, i) ELSE <<>>)
    \o Each(channels, LAMBDA c : WritePair(model, c, v, i))
    \o (IF on THEN SwitchEach("on", channels) ELSE <<>>)

SmokeSteps(model, channels, c, v, i) ==
  <<<<"limits", c, v, i>>>> \o Confirmation(channels, c, v, i) \o WritePair(model, c, v, i)
    \o <<At("on", c), At("off", c)>>

StepsOf(r, b) ==
  LET p == r.parameters
      model == Detected(b)
      channels == SessionChannels(r, b)
      v == Setpoint(p, "voltage")
      i == Setpoint(p, "current")
  IN CASE r.command = "set"          -> SetSteps(model, channels[1], v, i)
       [] r.command = "apply"        -> ApplySteps(model, channels, p, v, i)
       [] r.command = "smoke-output" -> SmokeSteps(model, channels, channels[1], v, i)
       [] r.command = "output-on"    -> CheckProgrammed(channels, b) \o SwitchEach("on", channels)
       [] r.command = "cycle-output" -> CheckProgrammed(channels, b) \o SwitchEach("on", channels)
                                          \o SwitchEach("off", channels)
       [] r.command = "output-off"   -> SwitchEach("channel", channels) \o SwitchEach("off", channels)
       [] r.command = "safe-off"     -> SwitchEach("off", channels)
       [] r.command = "output-state" -> SwitchEach("channel", channels)
       [] r.command = "ramp"         -> RampSteps(model, channels, p)
       [] r.command = "ramp-list"    -> RampListSteps(model, channels, p["document"][2], p)
       [] r.command = "sequence"     -> SequenceSteps(model, p["document"][2], p, b)
       [] OTHER                      -> RestoreSteps(p["document"][2], channels, p)

-----------------------------------------------------------------------------
(* The life of a request *)

NoRequest == [adapter |-> "none"]
NoBench == [model |-> NoModel]

Init ==
  /\ registry \in Registries /\ doc \in Docs /\ file \in Files
  /\ edits = 0 /\ pc = "import" /\ request = NoRequest /\ bench = NoBench
  /\ todo = <<>> /\ enabled = <<>> /\ checked = {} /\ confirmed = {}

\* The program does not start with a registry that contradicts itself.
Import ==
  /\ pc = "import"
  /\ pc' = IF IndexesBuilt(registry) /\ InventoryAgrees(registry, Expected) THEN "idle" ELSE "broken"
  /\ UNCHANGED <<registry, doc, file, edits, request, bench, todo, enabled, checked, confirmed>>

Receive ==
  /\ pc = "idle"
  /\ \E r \in Requests : request' = r
  /\ pc' = "received"
  /\ UNCHANGED <<registry, doc, file, edits, bench, todo, enabled, checked, confirmed>>

\* Runtime options check their identities when they are built.
Admit ==
  LET r == CliResolved(request) IN
  /\ pc = "received"
  /\ IF /\ Allowed(request) /\ CliHolds(request)
        /\ ValidateRuntimeIdentity(r.runtime)
        /\ ~Direct(r) => AdmissionHolds(r) /\ (r.adapter = "worker" => AdapterGate(r))
     THEN pc' = "admitted" /\ request' = IF Direct(r) THEN r ELSE Admitted(r)
     ELSE pc' = "refused" /\ UNCHANGED request
  /\ UNCHANGED <<registry, doc, file, edits, bench, todo, enabled, checked, confirmed>>

IsOutput(r) == r.command \in DirectOutputCommands \cup {"output-state"}
IsRestore(r) == r.command = "restore-from-snapshot"

\* A simulated ramp list is held against the ratings of the simulator.
SimulatedListHolds(r) ==
  LET model == InferredModel(r.runtime.resource) IN
  Mode(r) = "simulate" /\ model \in DOMAIN Ratings =>
    \A s \in ToSet(DocumentOf(r.parameters).segments) : \A c \in ToSet(SegmentChannels(s)) :
      LET limits == IF r.configured THEN SafetyLimits(r, c, model) ELSE Unlimited IN
      limits.ok /\ \A v \in ToSet(SegmentVoltages(s)) :
        ValidateEffectiveSetpoint(model, limits.limits, c, v, s.current)

\* Without hardware a sequence is planned once more with the planning identity,
\* which only a document for the host may lack.
SequencePlannedAgain(r) ==
  LET d == DocumentOf(r.parameters)
      anonymous == /\ r.runtime.profile = NoModel
                   /\ ReconcilePlanningModel(r.runtime.planning, r.runtime.resource) = NoModel
  IN Mode(r) # "live" =>
       IF anonymous THEN Actions(d) = {}
       ELSE /\ NoHardwareResolves(r.runtime)
            /\ SequencePlannedWith(r, ResolveNoHardware(r.runtime), r.parameters)

PlanOnly(r) == Flagged(r.parameters, "lint") \/ Mode(r) = "dry_run"

\* Nothing is opened without a resource.
Opening(r) == IF r.runtime.resource # NoValue THEN "opening" ELSE "refused"

\* Where a started request goes: an output command or a document plans or opens
\* the instrument, a restore opens it when confirmed, a simulated sequence runs
\* on the simulator, the others go their way.
Dispatch(r) ==
  CASE IsOutput(r) ->
         IF Mode(r) # "live" THEN IF PlanHolds(r) THEN "planned" ELSE "refused"
         ELSE IF GeneralWorkflowHolds(r.command, r.parameters) THEN Opening(r) ELSE "refused"
    [] IsRestore(r) ->
         IF Mode(r) # "live"
         THEN IF Supports(r.runtime.planning, r.command, Mode(r)) THEN "planned" ELSE "refused"
         ELSE IF r.confirm THEN Opening(r) ELSE "refused"
    [] r.command = "ramp-list" ->
         IF ~SimulatedListHolds(r) THEN "refused"
         ELSE IF PlanOnly(r) \/ Mode(r) # "live" THEN "planned" ELSE Opening(r)
    [] r.command = "sequence" ->
         IF ~SequencePlannedAgain(r) THEN "refused"
         ELSE IF PlanOnly(r) THEN "planned"
         ELSE IF Mode(r) = "live" THEN Opening(r) ELSE "dispatched"
    [] OTHER -> "dispatched"

\* run_core_command admits once more what an adapter has admitted.
Start ==
  /\ pc = "admitted"
  /\ IF AdapterGate(request) /\ (Direct(request) \/ AdmissionHolds(request))
     THEN LET r == IF Direct(request) THEN request ELSE Admitted(request) IN
          request' = r /\ pc' = Dispatch(r)
     ELSE pc' = "refused" /\ UNCHANGED request
  /\ UNCHANGED <<registry, doc, file, edits, bench, todo, enabled, checked, confirmed>>

\* Whatever was done to the instrument before, by hand or by others.
Open ==
  /\ pc = "opening"
  /\ \E b \in Benches :
       /\ bench' = b
       /\ IF /\ IdentityHolds(request, b)
             /\ ChannelsSupported(request, b) /\ LoopTimingHolds(request)
          THEN pc' = "session" /\ todo' = StepsOf(request, b)
          ELSE pc' = "refused" /\ UNCHANGED todo
  /\ UNCHANGED <<registry, doc, file, edits, request, enabled, checked, confirmed>>

NextStep == todo[1]

\* A check reads the configuration; one that fails ends the session, before
\* any write.
Check(kind, passes, log) ==
  /\ pc = "session" /\ todo # <<>> /\ todo[1][1] = kind
  /\ IF passes THEN pc' = pc /\ todo' = Tail(todo) ELSE pc' = "refused" /\ todo' = <<>>
  /\ IF passes THEN log ELSE UNCHANGED <<checked, confirmed>>
  /\ UNCHANGED <<registry, doc, file, edits, request, bench, enabled>>

Read(c) == SafetyLimits(request, c, bench.name)

Seen == <<NextStep[2], NextStep[3], NextStep[4], doc>>

CheckLimits ==
  LET c == NextStep[2]  v == NextStep[3]  i == NextStep[4] IN
  Check("limits",
        /\ Read(c).ok
        /\ ValidateSetpoint(Read(c).limits, c, v, i)
        /\ ValidateEffectiveSetpoint(Detected(bench), Read(c).limits, c, v, i),
        checked' = checked \cup {Seen} /\ UNCHANGED confirmed)

CheckConfirmation ==
  LET c == NextStep[2] IN
  Check("confirm",
        Read(c).ok /\ (request.confirm \/ ~NeedsConfirmation(Read(c).limits, NextStep[3], NextStep[4])),
        confirmed' = confirmed \cup {Seen} /\ UNCHANGED checked)

CheckChannel ==
  Check("channel", Read(NextStep[2]).ok /\ ValidateChannel(Read(NextStep[2]).limits, NextStep[2]),
        UNCHANGED <<checked, confirmed>>)

CheckRestore ==
  Check("fit", RestoreSetpointsFit(request.parameters["document"][2], SessionChannels(request, bench)),
        UNCHANGED <<checked, confirmed>>)

Switched(b, c) == IF b.model = E3646A THEN DOMAIN b.on ELSE {c}

Effect(b, step) ==
  CASE step[1] = "pair"    -> [b EXCEPT !.voltage[step[2]] = step[3], !.current[step[2]] = step[4]]
    [] step[1] = "voltage" -> [b EXCEPT !.voltage[step[2]] = step[3]]
    [] step[1] = "current" -> [b EXCEPT !.current[step[2]] = step[4]]
    [] step[1] = "on"      -> [b EXCEPT !.on = [c \in DOMAIN @ |-> @[c] \/ c \in Switched(b, step[2])]]
    [] step[1] = "off"     -> [b EXCEPT !.on = [c \in DOMAIN @ |-> @[c] /\ c \notin Switched(b, step[2])]]

Writes == {"pair", "voltage", "current", "on", "off"}

Write ==
  /\ pc \in Sessions /\ todo # <<>> /\ NextStep[1] \in Writes
  /\ bench' = Effect(bench, NextStep)
  /\ todo' = Tail(todo)
  /\ enabled' = IF NextStep[1] = "on" THEN Append(enabled, NextStep[2]) ELSE enabled
  /\ UNCHANGED <<registry, doc, file, edits, pc, request, checked, confirmed>>

\* What follows a failure: a cycle or a smoke test switches off what it has
\* switched on, a sequence every output, whichever of these calls raise too; the
\* others stop.
AfterFailure ==
  CASE request.command = "sequence" ->
         IF pc = "session" THEN SwitchEach("off", Ascending(DOMAIN bench.on)) ELSE Tail(todo)
    [] request.command \in {"cycle-output", "smoke-output"} /\ pc = "session" /\ NextStep[1] # "off" ->
         SwitchEach("off", enabled)
    [] OTHER -> <<>>

\* A call raises, with or without its effect.
Raise ==
  /\ pc \in Sessions /\ todo # <<>> /\ NextStep[1] \in Writes
  /\ \E done \in BOOLEAN : bench' = IF done THEN Effect(bench, NextStep) ELSE bench
  /\ pc' = "unwinding" /\ todo' = AfterFailure
  /\ UNCHANGED <<registry, doc, file, edits, request, enabled, checked, confirmed>>

\* A step of a sequence names a channel that the instrument does not have.
Reject ==
  /\ pc = "session" /\ todo # <<>> /\ NextStep[1] = "reject"
  /\ pc' = "unwinding" /\ todo' = AfterFailure
  /\ UNCHANGED <<registry, doc, file, edits, request, bench, enabled, checked, confirmed>>

Return ==
  /\ pc \in Sessions /\ todo = <<>>
  /\ pc' = IF pc = "session" THEN "done" ELSE "failed"
  /\ UNCHANGED <<registry, doc, file, edits, request, bench, todo, enabled, checked, confirmed>>

NextRequest ==
  /\ pc \in {"refused", "planned", "dispatched", "done", "failed"}
  /\ pc' = "idle" /\ edits' = 0 /\ request' = NoRequest /\ bench' = NoBench
  /\ enabled' = <<>> /\ checked' = {} /\ confirmed' = {}
  /\ UNCHANGED <<registry, doc, file, todo>>

\* Someone edits the safety configuration or the document.
EditFiles ==
  /\ pc \in {"received", "admitted", "opening", "session"} /\ edits < MaxEdits
  /\ \/ \E d \in Docs : doc' = d /\ d # doc /\ UNCHANGED file
     \/ \E f \in Files : file' = f /\ f # file /\ UNCHANGED doc
  /\ edits' = edits + 1
  /\ UNCHANGED <<registry, pc, request, bench, todo, enabled, checked, confirmed>>

Next ==
  \/ Import \/ Receive \/ Admit \/ Start \/ Open
  \/ CheckLimits \/ CheckConfirmation \/ CheckChannel \/ CheckRestore
  \/ Write \/ Raise \/ Reject \/ Return \/ NextRequest \/ EditFiles

Spec == Init /\ [][Next]_vars

-----------------------------------------------------------------------------
(* Properties *)

\* The limit of a field by its most specific statement: of the channel, of
\* the resource the request names, of the model (by the later of two tables
\* that spell it differently), of the whole configuration.
Stated(d, r, c, field) ==
  LET entries == {e \in ToSet(Tables(d, "resources")) :
                    IF r.alias # NoValue THEN e.alias = r.alias ELSE e.resource = r.runtime.resource}
      ofChannel == {e.channels[c][field] : e \in {x \in entries : c \in DOMAIN x.channels
                                                               /\ field \in DOMAIN x.channels[c]}}
      ofResource == {e.limits[field] : e \in {x \in entries : field \in DOMAIN x.limits}}
      models == Tables(d, "models")
      spelled == {k \in DOMAIN models : Upper[models[k].name] = Upper[bench.name]}
      ofModel == {models[k].limits[field] : k \in {x \in spelled :
                    field \in DOMAIN models[x].limits /\ \A y \in spelled : y <= x}}
      ofAll == IF field \in DOMAIN GlobalLimits(d) THEN {GlobalLimits(d)[field]} ELSE {}
  IN IF ofChannel # {} THEN ofChannel ELSE IF ofResource # {} THEN ofResource
     ELSE IF ofModel # {} THEN ofModel ELSE ofAll

Above(value, limits) == \E limit \in limits : value > limit

Rated(c, v, i) ==
  bench.model \in DOMAIN Ratings =>
    LET rating == Ratings[bench.model][c] IN
    /\ v # NoValue => v <= rating.voltage
    /\ i # NoValue => i <= rating.current
    /\ v # NoValue /\ i # NoValue /\ rating.ranges # {} =>
         \E range \in rating.ranges : v <= range.voltage /\ i <= range.current

\* No setpoint reaches a supply above its official rating, nor, for a request
\* with a safety configuration, above the most specific limit of a
\* configuration that was on disk when that setpoint of that channel was
\* checked: the layers of _merge_limits and the checks before the writes in
\* operations.py, ramp_list.py and sequence.py, where the voltages of all
\* segments, loops and steps are checked before the first.  A restore consults
\* the ratings only.
WrittenWithinLimits ==
  [][(pc \in Sessions) => \A c \in DOMAIN bench.on :
       LET v == IF bench'.voltage[c] # bench.voltage[c] THEN bench'.voltage[c] ELSE NoValue
           i == IF bench'.current[c] # bench.current[c] THEN bench'.current[c] ELSE NoValue
       IN /\ Rated(c, v, i)
          /\ {v, i} # {NoValue} /\ request.configured
               /\ request.command # "restore-from-snapshot" =>
               \E k \in checked :
                 /\ k[1] = c
                 /\ v # NoValue => k[2] = v /\ ~Above(v, Stated(k[4], request, c, "max_voltage"))
                 /\ i # NoValue => k[3] = i /\ ~Above(i, Stated(k[4], request, c, "max_current"))]_vars

\* The requested channels that a step switches on.  A sequence looks at the
\* channel a step names only, where the switch of an E3646A is for both outputs.
SwitchedOn ==
  {c \in ToSet(SessionChannels(request, bench)) \cap DOMAIN bench.on :
     bench'.on[c] /\ ~bench.on[c] /\ (request.command = "sequence" => c = NextStep[2])}

\* A requested channel is switched on only with programmed setpoints that the
\* ratings admit together and, unless the request is confirmed, only when some
\* configuration read for that channel and these setpoints asked for no
\* confirmation: every channel of output-on, apply, cycle-output, smoke-output,
\* a ramp or a ramp list that enables its outputs, and a sequence, though the
\* checks of all channels and steps precede the switches of all.  (A restore is
\* confirmed as a whole; a sequence is not asked for a confirmation.)
EnabledChecked ==
  [][request' = request /\ pc \in Sessions =>
       \A c \in SwitchedOn :
         LET v == bench.voltage[c]
             i == bench.current[c]
         IN /\ Rated(c, v, i)
            /\ request.configured /\ ~request.confirm /\ request.command # "sequence" =>
                 \E k \in confirmed :
                   /\ <<k[1], k[2], k[3]>> = <<c, v, i>>
                   /\ v > 0 /\ i > 0 =>
                        /\ ~Above(v, Stated(k[4], request, c, "confirm_above_voltage"))
                        /\ ~Above(i, Stated(k[4], request, c, "confirm_above_current"))]_vars

\* A session goes on only with an instrument that really is the model its
\* driver is for, which the project supports and, if the request expects a
\* model, which is that one; a restore only with the very instrument the
\* snapshot was taken from.  The reported names are all Core sees.
OnlyIntendedInstrument ==
  pc \in Sessions =>
    /\ Mode(request) = "live"
    /\ bench.model \in Drivers \ DeScoped /\ bench.model = Detected(bench)
    /\ request.runtime.expected \in {NoModel, bench.model}
    /\ request.command = "restore-from-snapshot" =>
         LET d == request.parameters["document"][2] IN
         bench.model = d.resolved /\ bench.serial = d.serial

Unconfigured(r) == [r EXCEPT !.configured = FALSE, !.alias = NoValue]

\* What has been admitted is admitted again unchanged, whatever the files say
\* by then: the adapters admit a request, and run_core_command admits it once
\* more, with defaults filled in, selectors and aliases replaced, documents
\* read and planning identities resolved.  Only a ramp list or a sequence can be
\* refused at the second time, only after an edit, and only for the limits of
\* the safety configuration.
ReadmissionStable ==
  pc = "admitted" /\ ~Direct(request) =>
    /\ Admitted(request) = request
    /\ AdmissionHolds(Unconfigured(request))
    /\ edits = 0 \/ request.command \notin {"ramp-list", "sequence"} => AdmissionHolds(request)
=============================================================================
