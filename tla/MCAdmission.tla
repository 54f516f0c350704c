----------------------------- MODULE MCAdmission -----------------------------
(***************************************************************************)
(* Three supported supplies (two channels where the real ones have more),  *)
(* one de-scoped model, three registries of which one is consistent, three *)
(* safety configurations, documents of every kind and the requests of the  *)
(* three adapters.                                                         *)
(***************************************************************************)
EXTENDS Admission

DeScopedModel == "keysight-e36103b"

MCDrivers == {E36312A, E3646A, PSM2010}
MCModels == MCDrivers \cup {DeScopedModel}
MCDeScoped == {DeScopedModel}

MCWords ==
  "keysight" :> <<"keysight">> @@ "gw-instek" :> <<"gw", "instek">>
  @@ E36312A :> <<"keysight", "e36312a">> @@ E3646A :> <<"keysight", "e3646a">>
  @@ DeScopedModel :> <<"keysight", "e36103b">> @@ PSM2010 :> <<"gw", "instek", "psm", "2010">>

MCExpected ==
  "E36312A" :> E36312A @@ "E3646A" :> E3646A @@ "PSM-2010" :> PSM2010 @@ "E36103B" :> DeScopedModel

MCModelChannels ==
  E36312A :> {1, 2} @@ E3646A :> {1, 2} @@ PSM2010 :> {1} @@ GenericProfile :> {1}

MCSimulatedResource ==
  E36312A :> "SIM1" @@ E3646A :> "SIM2" @@ PSM2010 :> "SIM3"

MCSimulatedModel == "SIM1" :> E36312A @@ "SIM2" :> E3646A @@ "SIM3" :> PSM2010

MCUpper ==
  "E36312A" :> "E36312A" @@ "e36312a" :> "E36312A" @@ "E3646A" :> "E3646A"
  @@ "PSM-2010" :> "PSM-2010" @@ "E36103B" :> "E36103B" @@ "X100" :> "X100"
  @@ E36312A :> E36312A @@ PSM2010 :> PSM2010

MCRatings ==
  E36312A :> (1 :> [voltage |-> 6, current |-> 5, ranges |-> {}]
              @@ 2 :> [voltage |-> 25, current |-> 1, ranges |-> {}])
  @@ E3646A :> [c \in {1, 2} |->
                 [voltage |-> 20, current |-> 3,
                  ranges |-> {[name |-> "LOW", voltage |-> 8, current |-> 3],
                              [name |-> "HIGH", voltage |-> 20, current |-> 1]}]]
  @@ PSM2010 :> (1 :> [voltage |-> 20, current |-> 20,
                       ranges |-> {[name |-> "LOW", voltage |-> 8, current |-> 20],
                                   [name |-> "HIGH", voltage |-> 20, current |-> 10]}])

-----------------------------------------------------------------------------
(* Registries *)

Vendors ==
  <<[id |-> "keysight", names |-> <<"keysight", "hp">>], [id |-> "gw-instek", names |-> <<"gwinstek">>]>>

Model(id, vendor, names, makers) == [id |-> id, vendor |-> vendor, names |-> names, makers |-> makers]

ModelTable(e3646aNames) ==
  <<Model(E36312A, "keysight", <<"E36312A">>, <<>>),
    Model(E3646A, "keysight", e3646aNames, <<"agilent">>),
    Model(PSM2010, "gw-instek", <<"PSM-2010">>, <<>>),
    Model(DeScopedModel, "keysight", <<"E36103B">>, <<>>)>>

GoodRegistry == [vendors |-> Vendors, models |-> ModelTable(<<"E3646A">>)]

\* A name of two models; a registered model that is missing.
MCRegistries ==
  {GoodRegistry, [vendors |-> Vendors, models |-> ModelTable(<<"E3646A", "E36312A">>)],
   [GoodRegistry EXCEPT !.models = Tail(@)]}

-----------------------------------------------------------------------------
(* Safety configurations *)

Entry(limits, channels) ==
  <<[alias |-> "bench", resource |-> "USB1", limits |-> limits, channels |-> channels]>>

\* The resource may be narrower or, deliberately, wider than the whole.
MCDocs ==
  {[safety |-> [max_voltage |-> 10, max_current |-> 3, confirm_above_voltage |-> 4],
    resources |-> Entry([max_voltage |-> 4], 2 :> [max_voltage |-> 24, confirm_above_voltage |-> 2])],
   [models |-> <<[name |-> "E36312A", limits |-> [max_voltage |-> 2]],
                 [name |-> "e36312a", limits |-> [max_voltage |-> 3]]>>,
    resources |-> Entry([confirm_above_current |-> 0], 1 :> [allowed_channels |-> {1}])],
   [safety |-> [max_voltage |-> -1]]}

-----------------------------------------------------------------------------
(* Document files *)

Record(c, v, i) == [channel |-> c, valid |-> TRUE, voltage |-> v, current |-> i]
Output(c, on) == [channel |-> c, valid |-> TRUE, enabled |-> on]
Plain(c) == [channel |-> c, valid |-> TRUE]
RangeOf(c, range) == [channel |-> c, valid |-> TRUE, range |-> range]

Snapshot(maker, name, resolved, serial, outputs, readback, protection, ranges) ==
  [kind |-> "snapshot", wellFormed |-> TRUE, maker |-> maker, name |-> name, resolved |-> resolved,
   serial |-> serial, outputs |-> outputs, readback |-> readback, protection |-> protection,
   ranges |-> ranges]

TripleSnapshot(v) ==
  Snapshot("keysight", "E36312A", E36312A, "s1", <<Output(1, TRUE), Output(2, FALSE)>>,
           <<Record(1, v, 1), Record(2, 12, 1)>>, <<Plain(1), Plain(2)>>, <<>>)

PairSnapshot ==
  Snapshot("gwinstek", "PSM-2010", PSM2010, "s1", <<Output(1, TRUE)>>, <<Record(1, 15, 2)>>,
           <<Plain(1)>>, <<RangeOf(1, "HIGH")>>)

Segment(channels, start, stop) ==
  [channels |-> channels, current |-> 1, start_voltage |-> start, stop_voltage |-> stop,
   step_voltage |-> 1, delay_ms |-> 0, hold_ms |-> 0]

SegmentOf(channel, start, stop) ==
  [n \in {"channel"} \cup SegmentFields |->
     IF n = "channel" THEN channel ELSE Segment(<<channel>>, start, stop)[n]]

ListDocument(loops, segments) ==
  [kind |-> "ramp-list", version |-> 5, enable_output |-> TRUE, loop_count |-> loops,
   segments |-> segments]

\* The second loop goes over channel 1 again, after both are on.
TwoChannels == ListDocument(2, <<Segment(<<2, 1>>, 1, 2), Segment(<<1>>, 3, 3)>>)

\* Of the second version: nothing is switched on; only an E36312A pulses.
Pulse(timing) == [timing |-> timing, pins |-> <<1>>, polarity |-> "positive"]

OldList(timing) ==
  [kind |-> "ramp-list", version |-> 2, segments |-> <<SegmentOf(1, 4, 3)>>,
   completion_pulse |-> Pulse(timing)]

Step(action, parameters) == [action |-> action, parameters |-> parameters]

StepOn(action, channel) == Step(action, "channel" :> channel)

StepPair(action, channel, v, i) ==
  Step(action, "channel" :> channel @@ "voltage" :> <<"num", v>> @@ "current" :> <<"num", i>>)

\* Outputs are switched on before and after they are programmed.
MainSequence ==
  [steps |-> <<StepOn("output-on", Exact(1)), StepPair("set", Exact(1), 3, 1),
               Step("wait", "duration_sec" :> Exact(1)), StepPair("apply", All, 2, 1),
               StepOn("safe-off", All)>>]

\* Its last step fails: no supply has a ninth channel.
FailingSequence ==
  [version |-> 2, loop_count |-> 1,
   steps |-> <<StepPair("apply", Exact(1), 3, 1), StepOn("cycle-output", Exact(1)),
               StepOn("output-off", Exact(1)), StepOn("measure", Exact(9))>>]

PulseSequence == [steps |-> <<Step("trigger-pulse", "pins" :> <<"list", <<Exact(1)>>>>)>>]

\* The gate gives it a simulator, whose limits then count.
PulseAndSet == [PulseSequence EXCEPT !.steps = Append(@, StepPair("set", Exact(1), 1, 1))]

HostSequence == [steps |-> <<Step("log", NoFields)>>]

\* The second snapshot has a voltage above the rating, the third lacks the
\* protection of a channel.
MCFiles ==
  {TripleSnapshot(5), TripleSnapshot(9), [TripleSnapshot(5) EXCEPT !.protection = Tail(@)],
   MainSequence}

-----------------------------------------------------------------------------
(* Instruments *)

Bench(model, maker, name, serial, pairs, on) ==
  [model |-> model, maker |-> maker, name |-> name, serial |-> serial,
   voltage |-> [c \in DOMAIN pairs |-> pairs[c][1]], current |-> [c \in DOMAIN pairs |-> pairs[c][2]],
   on |-> [c \in DOMAIN pairs |-> c \in on]]

\* The third and the fourth hold a pair that no range admits; the sixth is another maker's
\* supply of the same name, the seventh no longer supported.
MCBenches ==
  {Bench(E36312A, "keysight", "E36312A", "s1", <<<<3, 1>>, <<2, 1>>>>, {}),
   Bench(E36312A, "hp", "E36312A", "s2", <<<<3, 1>>, <<24, 1>>>>, {1}),
   Bench(E3646A, "agilent", "E3646A", "s1", <<<<2, 2>>, <<12, 3>>>>, {}),
   Bench(PSM2010, "gwinstek", "PSM-2010", "s1", <<<<15, 15>>>>, {}),
   Bench("other", "agilent", "E36312A", "s1", <<<<1, 1>>, <<1, 1>>>>, {}),
   Bench(DeScopedModel, "keysight", "E36103B", "s1", <<<<1, 1>>>>, {}),
   Bench("other", "keysight", "X100", "s1", <<<<1, 1>>>>, {})}

MCLiveSupported ==
  (MCDrivers \X (DirectOutputCommands \cup {"output-state", "sequence", "ramp-list"}))
    \cup {<<E36312A, "restore-from-snapshot">>, <<PSM2010, "restore-from-snapshot">>}

-----------------------------------------------------------------------------
(* Requests *)

Runtime(mode, planning, expected, profile, resource) ==
  [mode |-> mode, planning |-> planning, expected |-> expected, profile |-> profile,
   resource |-> resource]

Live(expected, resource) == Runtime("live", NoModel, expected, NoModel, resource)

Request(adapter, command, parameters, runtime, alias, configured, confirm, writes) ==
  [adapter |-> adapter, command |-> command, parameters |-> parameters, runtime |-> runtime,
   alias |-> alias, configured |-> configured, confirm |-> confirm, writes |-> writes]

Num(n) == <<"num", n>>
On(c) == "channel" :> Exact(c)
OnAll == "channel" :> All
Pair(v, i) == "voltage" :> Num(v) @@ "current" :> Num(i)
Ramp(start, stop, current, enable) ==
  "start_voltage" :> Num(start) @@ "stop_voltage" :> Num(stop) @@ "step_voltage" :> Num(1)
  @@ "current" :> Num(current) @@ "enable_output" :> <<"bool", enable>>

OutputWork ==
  {<<"set", On(1) @@ Pair(4, 1)>>, <<"set", On(1) @@ Pair(9, 1)>>, <<"set", On(1) @@ "current" :> Num(4)>>,
   <<"apply", OnAll @@ Pair(3, 1)>>, <<"apply", On(2) @@ Pair(24, 1)>>,
   <<"apply", On(1) @@ Pair(9, 15) @@ "no_output" :> Yes>>,
   <<"output-on", OnAll>>, <<"output-on", On(1)>>, <<"cycle-output", OnAll>>,
   <<"smoke-output", On(1) @@ Pair(3, 1) @@ "completion_pulse_pins" :> <<"list", <<Exact(1)>>>>>>,
   <<"ramp", "channels" :> <<"list", <<Exact(2), Exact(1)>>>> @@ Ramp(1, 3, 1, TRUE)>>,
   <<"ramp", On(1) @@ Ramp(4, 3, 1, FALSE)>>,
   <<"output-off", OnAll>>, <<"safe-off", OnAll>>, <<"output-state", On(2)>>}

Given(d) == "document" :> <<"obj", d>>

DocumentWork ==
  {<<"ramp-list", Given(TwoChannels)>>, <<"ramp-list", Given(OldList("step"))>>,
   <<"sequence", Given(MainSequence)>>, <<"sequence", Given(FailingSequence)>>,
   <<"sequence", Given(PulseSequence)>>}

Work == OutputWork \cup DocumentWork

\* By alias or by resource from the CLI, by resource from the Worker, without
\* a configuration from the WebUI.
LiveRequests ==
  UNION {{Request("cli", w[1], w[2], Live(NoModel, NoValue), "bench", TRUE, FALSE, TRUE),
          Request("cli", w[1], w[2], Live(E36312A, "USB1"), NoValue, TRUE, TRUE, TRUE),
          Request("worker", w[1], w[2], Live(NoModel, "USB1"), NoValue, TRUE, TRUE, TRUE),
          Request("webui", w[1], w[2], Live(E3646A, "USB1"), NoValue, FALSE, TRUE, TRUE)} : w \in Work}

Looping(loops) ==
  On(1) @@ Ramp(1, 2, 1, TRUE) @@ "loop_count" :> Exact(loops)
  @@ "completion_pulse_timing" :> <<"str", "loop">> @@ "completion_pulse_pins" :> <<"list", <<Exact(1)>>>>

GateRequests ==
  {Request("worker", "set", On(1) @@ Pair(1, 1), Live(NoModel, "USB1"), NoValue, FALSE, TRUE, FALSE),
   Request("worker", "ramp", Looping(1), Live(NoModel, "USB1"), NoValue, FALSE, TRUE, TRUE),
   Request("worker", "ramp", Looping(2), Live(NoModel, "USB1"), NoValue, FALSE, TRUE, TRUE),
   Request("cli", "ramp", Looping(1), Runtime("simulate", E36312A, NoModel, NoModel, NoValue), NoValue,
           FALSE, TRUE, TRUE),
   Request("worker", "clear", NoFields, Live(NoModel, "USB1"), NoValue, FALSE, TRUE, TRUE),
   Request("webui", "output-on", On(1), Live(NoModel, "USB1"), NoValue, FALSE, FALSE, TRUE),
   Request("webui", "output-on", On(1), Live(NoModel, NoValue), "bench", TRUE, TRUE, TRUE),
   Request("cli", "output-on", On(1), Live(NoModel, NoValue), "other", TRUE, TRUE, TRUE)}

RestoreParameters == OnAll @@ "restore_output_state" :> Yes

RestoreRequests ==
  {Request("webui", "restore-from-snapshot", p, rt, NoValue, FALSE, TRUE, TRUE) :
     p \in {RestoreParameters @@ "file" :> <<"str", "f">>, RestoreParameters @@ "snapshot" :> <<"str", "f">>,
            On(1) @@ "document" :> <<"obj", PairSnapshot>>},
     rt \in {Live(NoModel, "USB1"), Runtime("dry_run", NoModel, NoModel, NoModel, NoValue),
             Runtime("simulate", PSM2010, NoModel, NoModel, NoValue)}}

DocumentRequests ==
  {Request("worker", c, p, Runtime("dry_run", E3646A, NoModel, NoModel, NoValue), NoValue, FALSE, TRUE, TRUE) :
     c \in {"sequence", "ramp-list"},
     p \in {"file" :> <<"str", "f">>, NoFields} \cup
           {Given(d) : d \in
              {PulseSequence, OldList("loop"), [TwoChannels EXCEPT !.version = 6],
               [TwoChannels EXCEPT !.segments[1].channels = <<1, 1>>],
               [TwoChannels EXCEPT !.segments[2].step_voltage = 0],
               [FailingSequence EXCEPT !.version = 1],
               [MainSequence EXCEPT !.steps[2].parameters = On(1)]}}}

Planned(adapter, w, rt) == Request(adapter, w[1], w[2], rt, NoValue, TRUE, FALSE, TRUE)

PlanRequests ==
  {Planned(a, w, rt) : a \in {"cli", "webui"}, w \in Work,
     rt \in {Runtime("dry_run", NoModel, NoModel, GenericProfile, NoValue),
             Runtime("simulate", PSM2010, NoModel, NoModel, NoValue),
             Runtime("simulate", NoModel, NoModel, NoModel, "SIM1"),
             Runtime("dry_run", E3646A, NoModel, NoModel, "SIM1"),
             Runtime("simulate", NoModel, NoModel, NoModel, "USB1")}}
  \cup {Request("webui", "sequence", Given(PulseAndSet), Runtime("simulate", E36312A, NoModel, NoModel, NoValue),
               alias, TRUE, FALSE, TRUE) : alias \in {"bench", NoValue}}

\* Every command with at most two of its optional parameters, renamed and
\* removed ones included, beside those it cannot do without.
Sample(field) ==
  CASE field.kind = "bool"   -> Yes
    [] field.kind = "string" -> <<"str", "f">>
    [] field.kind = "object" -> <<"obj", HostSequence>>
    [] field.kind = "enum"   -> <<"str", CHOOSE v \in field.values : TRUE>>
    [] field.kind \in {"pin_list", "channel_list"} -> <<"list", <<Exact(1)>>>>
    [] field.kind = "number_list" -> <<"list", <<Num(1)>>>>
    [] field.kind = "bool_list" -> <<"list", <<Yes>>>>
    [] field.kind = "min50_int" -> Exact(50)
    [] field.kind \in {"nonnegative_number", "positive_number"} -> Num(1)
    [] OTHER -> Exact(1)

Names(contract) == DOMAIN contract.fields \cup DOMAIN contract.aliases \cup contract.removed

SampleOf(contract, name) ==
  IF Canonical(contract, name) \in DOMAIN contract.fields
  THEN Sample(contract.fields[Canonical(contract, name)]) ELSE Exact(1)

Needed(command, contract) ==
  CASE command = "trigger-list" -> {"channel", "voltages", "currents", "dwell", "leave_trigger_configured"}
    [] OTHER -> {n \in DOMAIN contract.fields : contract.fields[n].required}

Parameters(command) ==
  LET contract == Contracts[command]
      needed == Needed(command, contract)
      extra == Names(contract) \ needed
  IN {[n \in needed \cup e |-> SampleOf(contract, n)] :
        e \in {{}} \cup {{a, b} : a, b \in extra}}

ContractRequests ==
  UNION {{Request(IF c = "log" THEN "worker" ELSE "webui", c, p,
                  Runtime("simulate", E36312A, NoModel, NoModel, NoValue), NoValue, FALSE, TRUE, TRUE) :
            p \in Parameters(c)} : c \in DOMAIN Contracts}

MCRequests ==
  LiveRequests \cup GateRequests \cup RestoreRequests \cup DocumentRequests \cup PlanRequests
    \cup ContractRequests
=============================================================================
