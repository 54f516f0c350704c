------------------------------ MODULE Contract ------------------------------
(***************************************************************************)
(* The parameter contracts of the Core commands: which parameters a        *)
(* request may give, of which kind and in which combinations, and the      *)
(* normalized parameters an admitted request carries.                      *)
(*                                                                         *)
(* Parameters are a function from names to tagged values: <<"int", n>>,    *)
(* <<"num", n>> (a finite float), <<"bool", b>>, <<"str", s>>,             *)
(* <<"list", sequence>>, <<"obj", document>> or <<"null", 0>>.             *)
(***************************************************************************)
EXTENDS Integers, Sequences, FiniteSets, SequencesExt, TLC

All == <<"str", "all">>
No == <<"bool", FALSE>>
Yes == <<"bool", TRUE>>
Exact(n) == <<"int", n>>

-----------------------------------------------------------------------------
(* Fields *)

Field(kind) == [kind |-> kind, required |-> FALSE, default |-> <<>>, values |-> {}, all |-> FALSE]
Required(field) == [field EXCEPT !.required = TRUE]
Default(field, value) == [field EXCEPT !.default = <<value>>]
OrAll(field) == [field EXCEPT !.all = TRUE]
OneOf(values) == [Field("enum") EXCEPT !.values = values]

Flag == Default(Field("bool"), No)
Channel == Field("channel")
Voltage == Field("nonnegative_number")
Polarity == OneOf({"positive", "negative"})
Positive(n) == Default(Field("positive_int"), Exact(n))
Source == Default(OneOf({"bus", "immediate", "pin1", "pin2", "pin3", "ext"}), <<"str", "bus">>)

PulseFields ==
  "completion_pulse_pins" :> Field("pin_list")
  @@ "completion_pulse_polarity" :> Default(Polarity, <<"str", "positive">>)
  @@ "completion_pulse_channel" :> Field("pulse_channel")
  @@ "leave_trigger_configured" :> Flag

VerifyFields ==
  "verify_after_write" :> Flag
  @@ "settle_ms" :> Default(Field("nonnegative_int"), Exact(0))
  @@ "setpoint_voltage_tolerance" :> Default(Voltage, <<"num", 0>>)
  @@ "setpoint_current_tolerance" :> Default(Voltage, <<"num", 0>>)

WaitFields ==
  "wait_complete" :> Flag @@ "wait_timeout_ms" :> Positive(10000)
  @@ "poll_ms" :> Default(Field("min50_int"), Exact(200))

-----------------------------------------------------------------------------
(* Contracts *)

Contract(fields) ==
  [fields |-> fields, aliases |-> [a \in {} |-> ""], exclusive |-> {}, exactlyOne |-> {},
   atLeastOne |-> {}, depends |-> {}, removed |-> {}]

NoFields == [n \in {} |-> Flag]

ErrorReads == "max_errors" :> Positive(20)

\* The general output commands: pulse and verification options, and the
\* fields that moved to the trigger commands.
Workflow(fields) ==
  [Contract(fields @@ VerifyFields @@ PulseFields) EXCEPT
     !.depends = {<<"completion_pulse_channel", "completion_pulse_pins">>},
     !.removed = {"completion_pulse_mode", "completion_pulse_dwell_ms", "wait_timeout_ms",
                  "poll_ms"}]

Protection(fields) == Contract("channel" :> Default(OrAll(Channel), All) @@ "all" :> Field("bool") @@ fields)

FromDocument(sources, fields) ==
  [Contract(fields @@ "file" :> Field("string") @@ "document" :> Field("object")) EXCEPT
     !.exclusive = {sources}]

DocumentWorkflow ==
  FromDocument({"file", "document"}, "lint" :> Flag @@ "loop_count" :> Field("range_int"))

AnyChannel == "channel" :> Required(OrAll(Channel))

ReadFields == "channel" :> Default(OrAll(Channel), All)

SetFields == "channel" :> Required(Channel) @@ "voltage" :> Voltage @@ "current" :> Voltage

PairFields == "voltage" :> Required(Voltage) @@ "current" :> Required(Voltage)

RampFields ==
  "channel" :> Channel @@ "channels" :> Field("channel_list")
  @@ "current" :> Required(Voltage) @@ "start_voltage" :> Required(Voltage)
  @@ "stop_voltage" :> Required(Voltage) @@ "step_voltage" :> Required(Field("positive_number"))
  @@ "delay_ms" :> Default(Field("nonnegative_int"), Exact(0)) @@ "enable_output" :> Flag
  @@ "loop_count" :> Default(Field("range_int"), Exact(1))
  @@ "completion_pulse_timing" :>
       Default(OneOf({"segment", "step", "loop"}), <<"str", "segment">>)

LogFields ==
  "channel" :> OrAll(Channel) @@ "channels" :> Field("channel_list")
  @@ "interval_sec" :> Required(Field("positive_number"))
  @@ "samples" :> Field("positive_int") @@ "duration_sec" :> Field("positive_number")

ProtectionSetFields ==
  "ovp_voltage" :> Voltage @@ "ocp" :> OneOf({"on", "off"}) @@ "ocp_delay" :> Voltage
  @@ "ocp_delay_trigger" :> OneOf({"setting-change", "cc-transition"})

TriggerPulseFields ==
  "channel" :> Default(Channel, Exact(1)) @@ "pin" :> Field("pin") @@ "pins" :> Field("pin_list")
  @@ "polarity" :> Default(Polarity, <<"str", "positive">>) @@ "exclusive_pins" :> Flag
  @@ ErrorReads

TriggerListFields ==
  "channel" :> Required(Channel) @@ "source" :> Source
  @@ "voltages" :> Field("number_list") @@ "currents" :> Field("number_list")
  @@ "dwell" :> Field("number_list")
  @@ "bost_list" :> Field("bool_list") @@ "eost_list" :> Field("bool_list")
  @@ "trigger_output_pins" :> Field("pin_list") @@ "trigger_output_polarity" :> Polarity
  @@ "count" :> Default(Field("range_count"), Exact(1)) @@ "fire" :> Flag
  @@ "exclusive_pins" :> Flag @@ "completion_pulse_pins" :> Field("pin_list")
  @@ "completion_pulse_polarity" :> Polarity @@ "pins" :> Field("pin_list")
  @@ "polarity" :> Polarity @@ "leave_trigger_configured" :> Flag @@ WaitFields

ListAliases ==
  "voltage_list" :> "voltages" @@ "current_list" :> "currents" @@ "dwell_list" :> "dwell"

Contracts ==
  "list-resources" :> Contract("live_only" :> Flag)
  @@ "verify" :> Contract(NoFields) @@ "clear" :> Contract(NoFields)
  @@ "measure-all" :> Contract(NoFields) @@ "identify" :> Contract(NoFields)
  @@ "error" :> Contract("max_reads" :> Positive(20))
  @@ "measure" :> Contract("channel" :> Required(Channel))
  @@ "log" :> [Contract(LogFields) EXCEPT
                 !.exactlyOne = {{"channel", "channels"}, {"samples", "duration_sec"}}]
  @@ "read-status" :> Contract(ReadFields @@ ErrorReads)
  @@ "readback" :> Contract(ReadFields)
  @@ "snapshot" :> Contract(ErrorReads)
  @@ "protection-status" :> Protection(NoFields)
  @@ "protection-set" :> [Protection(ProtectionSetFields) EXCEPT
                            !.atLeastOne = {DOMAIN ProtectionSetFields}]
  @@ "clear-protection" :> [Contract("channel" :> OrAll(Channel) @@ "all" :> Field("bool"))
                              EXCEPT !.exactlyOne = {{"channel", "all"}}]
  @@ "set" :> [Workflow(SetFields) EXCEPT !.atLeastOne = {{"voltage", "current"}}]
  @@ "apply" :> Workflow(AnyChannel @@ PairFields @@ "no_output" :> Flag)
  @@ "output-on" :> Workflow(AnyChannel) @@ "output-off" :> Workflow(AnyChannel)
  @@ "safe-off" :> Workflow(AnyChannel)
  @@ "output-state" :> Contract(AnyChannel)
  @@ "cycle-output" :> Workflow(AnyChannel @@ "duration_ms" :> Positive(500))
  @@ "ramp" :> [Workflow(RampFields) EXCEPT !.exactlyOne = {{"channel", "channels"}}]
  @@ "smoke-output" :>
       Workflow("channel" :> Required(Channel) @@ PairFields @@ "duration_ms" :> Positive(500))
  @@ "ramp-list" :> DocumentWorkflow @@ "sequence" :> DocumentWorkflow
  @@ "restore-from-snapshot" :>
       FromDocument({"document", "snapshot", "file"},
                    AnyChannel @@ "snapshot" :> Field("string") @@ "restore_output_state" :> Flag)
  @@ "trigger-pulse" :> [Contract(TriggerPulseFields) EXCEPT !.exactlyOne = {{"pin", "pins"}}]
  @@ "trigger-status" :> Contract(ReadFields @@ ErrorReads)
  @@ "trigger-step" :>
       [Contract(SetFields @@ "source" :> Source @@ "fire" :> Flag @@ WaitFields @@ PulseFields)
          EXCEPT !.depends = {<<"completion_pulse_channel", "completion_pulse_pins">>}]
  @@ "trigger-list" :> [Contract(TriggerListFields) EXCEPT
                          !.aliases = ListAliases,
                          !.exclusive = {{a, ListAliases[a]} : a \in DOMAIN ListAliases}]
  @@ "trigger-fire" :> Contract("channel" :> Channel @@ WaitFields)
  @@ "trigger-abort" :> Contract(AnyChannel @@ ErrorReads)

-----------------------------------------------------------------------------
(* Values *)

MaxLoopCount == 10000

Distinct(items) == Cardinality(ToSet(items)) = Len(items)

\* A list of exact integers of the given set.
ListOf(value, numbers) ==
  value[1] = "list" /\ value[2] # <<>>
  /\ \A item \in ToSet(value[2]) : item[1] = "int" /\ item[2] \in numbers

ExactInt(value, low) == value[1] = "int" /\ value[2] >= low

Number(value) == value[1] \in {"int", "num"}

FieldAccepts(field, value) ==
  CASE field.kind = "bool"   -> value[1] = "bool"
    [] field.kind = "string" -> value[1] = "str" /\ value[2] # ""
    [] field.kind = "object" -> value[1] = "obj"
    [] field.kind = "enum"   -> value[1] = "str" /\ value[2] \in field.values
    [] field.kind = "channel" -> (field.all /\ value = All) \/ ExactInt(value, 1)
    [] field.kind \in {"pin", "pulse_channel"} -> value[1] = "int" /\ value[2] \in 1..3
    [] field.kind = "pin_list" -> ListOf(value, 1..3) /\ Distinct(value[2])
    [] field.kind = "channel_list" -> ListOf(value, Nat \ {0})
    [] field.kind = "number_list" -> value[1] = "list" /\ \A item \in ToSet(value[2]) : Number(item)
    [] field.kind = "bool_list" -> value[1] = "list" /\ \A item \in ToSet(value[2]) : item[1] = "bool"
    [] field.kind = "positive_int" -> ExactInt(value, 1)
    [] field.kind = "nonnegative_int" -> ExactInt(value, 0)
    [] field.kind = "min50_int" -> ExactInt(value, 50)
    [] field.kind = "range_int" -> ExactInt(value, 1) /\ value[2] <= MaxLoopCount
    [] field.kind = "range_count" -> ExactInt(value, 1) /\ value[2] <= 256
    [] field.kind = "nonnegative_number" -> Number(value) /\ value[2] >= 0
    [] field.kind = "positive_number" -> Number(value) /\ value[2] > 0

-----------------------------------------------------------------------------
(* Admission of parameters *)

\* The legacy flag "all" of the protection commands becomes the channel "all".
ProtectionCommands == {"protection-status", "protection-set", "clear-protection"}

SelectorNormalizes(raw) ==
  "all" \in DOMAIN raw => "channel" \notin DOMAIN raw /\ raw["all"] = Yes

NormalizeSelector(raw) ==
  IF "all" \in DOMAIN raw
  THEN [n \in {"channel"} \cup (DOMAIN raw \ {"all"}) |-> IF n = "channel" THEN All ELSE raw[n]]
  ELSE raw

Canonical(contract, name) ==
  IF name \in DOMAIN contract.aliases THEN contract.aliases[name] ELSE name

Renamed(contract, raw) ==
  [n \in {Canonical(contract, k) : k \in DOMAIN raw} |->
     raw[CHOOSE k \in DOMAIN raw : Canonical(contract, k) = n]]

Present(group, parameters) == Cardinality(group \cap DOMAIN parameters)

\* Defaults are materialized only where the commands give them a meaning.
SemanticDefaults ==
  {"read-status", "readback", "protection-status", "protection-set", "trigger-pulse",
   "trigger-status", "trigger-step", "trigger-list", "trigger-fire", "trigger-abort"}

WithDefaults(contract, given) ==
  LET missing == {n \in DOMAIN contract.fields \ DOMAIN given : contract.fields[n].default # <<>>}
  IN [n \in DOMAIN given \cup missing |->
        IF n \in DOMAIN given THEN given[n] ELSE contract.fields[n].default[1]]

Materialized(command, contract, parameters) ==
  IF command \in SemanticDefaults THEN WithDefaults(contract, parameters) ELSE parameters

ParametersAdmitted(contract, raw) ==
  LET given == Renamed(contract, raw) IN
  /\ DOMAIN raw \cap contract.removed = {}
  /\ \A group \in contract.exclusive : Present(group, raw) <= 1
  /\ \A group \in contract.exactlyOne : Present(group, raw) = 1
  /\ DOMAIN given \subseteq DOMAIN contract.fields
  /\ \A n \in DOMAIN given : FieldAccepts(contract.fields[n], given[n])
  /\ \A group \in contract.atLeastOne : Present(group, given) >= 1
  /\ \A n \in DOMAIN contract.fields : contract.fields[n].required => n \in DOMAIN given
  /\ \A d \in contract.depends : d[1] \in DOMAIN given => d[2] \in DOMAIN given

Normalized(command, raw) ==
  LET selected == IF command \in ProtectionCommands THEN NormalizeSelector(raw) ELSE raw IN
  Materialized(command, Contracts[command], Renamed(Contracts[command], selected))

\* validate_and_normalize_request: a command without a contract is refused.
RequestNormalizes(command, raw) ==
  /\ command \in DOMAIN Contracts
  /\ command \in ProtectionCommands => SelectorNormalizes(raw)
  /\ ParametersAdmitted(Contracts[command],
       IF command \in ProtectionCommands THEN NormalizeSelector(raw) ELSE raw)
  /\ LET p == Normalized(command, raw) IN
     /\ command = "ramp" /\ "channels" \in DOMAIN p => Distinct(p["channels"][2])
     /\ command = "trigger-fire" /\ p["wait_complete"] = Yes => "channel" \in DOMAIN p

-----------------------------------------------------------------------------
(* The checks that follow on the normalized parameters *)

NonNegativeList(p, name) ==
  name \in DOMAIN p => \A item \in ToSet(p[name][2]) : item[2] >= 0

\* validate_request_parameters, beyond what the contract refuses already.
ConstraintsHold(p) ==
  /\ \A name \in {"voltages", "currents"} : NonNegativeList(p, name)

\* A trigger that the request does not start must be left configured; one
\* it starts is waited for or left.
TriggerStarts(p) == p["source"][2] = "immediate" \/ (p["source"][2] = "bus" /\ p["fire"] = Yes)

TriggerAdmitted(command, p) ==
  /\ ~(p["source"][2] = "immediate" /\ p["fire"] = Yes)
  /\ p["source"][2] = "bus" /\ p["wait_complete"] = Yes => p["fire"] = Yes
  /\ command = "trigger-list" =>
       \/ p["leave_trigger_configured"] = Yes
       \/ TriggerStarts(p) /\ p["wait_complete"] = Yes

Items(p, name) == IF name \in DOMAIN p THEN p[name][2] ELSE <<>>

\* Edge pulses are asked for step by step or as one completion pulse, not as
\* both, and step lists are as long as the voltages.
EdgeFields == {"bost_list", "eost_list", "trigger_output_pins", "trigger_output_polarity"}

ListConfigured(p) ==
  LET edges == EdgeFields \cap DOMAIN p # {} IN
  /\ {"channel", "voltages", "currents", "dwell"} \subseteq DOMAIN p
  /\ ~(edges /\ {"completion_pulse_pins", "completion_pulse_polarity"} \cap DOMAIN p # {})
  /\ edges =>
       \A name \in {"bost_list", "eost_list"} : name \in DOMAIN p =>
         /\ Len(Items(p, name)) = Len(Items(p, "voltages"))
         /\ Yes \in ToSet(Items(p, name)) => "trigger_output_pins" \in DOMAIN p

\* validate_general_workflow_parameters, which the CLI's direct path relies on.
GeneralWorkflowHolds(command, p) ==
  /\ command = "set" => {"voltage", "current"} \cap DOMAIN p # {}
  /\ "completion_pulse_channel" \in DOMAIN p => "completion_pulse_pins" \in DOMAIN p

ParametersHold(command, p) ==
  /\ ConstraintsHold(p)
  /\ GeneralWorkflowHolds(command, p)
  /\ command \in {"trigger-step", "trigger-list"} => TriggerAdmitted(command, p)
  /\ command = "trigger-list" => ListConfigured(p)
=============================================================================
