--------------------------- MODULE CommandsProofs ---------------------------
(***************************************************************************)
(* Theorems about the commands on a supply, for every program of admitted  *)
(* commands, any number of channels and any disturbances.                  *)
(***************************************************************************)
EXTENDS Commands, SequenceLemmas

-----------------------------------------------------------------------------
(* The supply                                                              *)

Parts == {"model", "on", "tripped", "set", "trig", "init", "pins", "bus", "queued"}

\* A supply has its parts, and for each channel a switch and settings.
Shape(s) ==
  /\ DOMAIN s = Parts
  /\ DOMAIN s.on = ChannelsOf(s.model) /\ DOMAIN s.tripped = ChannelsOf(s.model)
  /\ DOMAIN s.set = ChannelsOf(s.model) /\ DOMAIN s.trig = ChannelsOf(s.model)
  /\ DOMAIN s.init = ChannelsOf(s.model)
  /\ \A c \in DOMAIN s.on : s.on[c] \in BOOLEAN /\ s.tripped[c] \in BOOLEAN /\ DOMAIN s.set[c] = Settings

\* t is s but for the parts named.
Alters(s, t, parts) ==
  /\ DOMAIN t = Parts /\ Shape(t) /\ t.model = s.model
  /\ "on" \notin parts => t.on = s.on
  /\ "tripped" \notin parts => t.tripped = s.tripped
  /\ "set" \notin parts => t.set = s.set
  /\ "trig" \notin parts => t.trig = s.trig
  /\ "init" \notin parts => t.init = s.init
  /\ "pins" \notin parts => t.pins = s.pins /\ t.bus = s.bus

\* A switch is thrown.
LEMMA SwitchAlters ==
  ASSUME NEW s, Shape(s), NEW c
  PROVE  /\ Alters(s, OutputOn(s, c), {"on"}) /\ Alters(s, OutputOff(s, c), {"on"})
         /\ \A d \in DOMAIN s.on :
              /\ OutputOn(s, c).on[d] <=> (s.on[d] \/ (d \in Switched(s, c) /\ ~s.tripped[d]))
              /\ OutputOff(s, c).on[d] <=> (s.on[d] /\ d \notin Switched(s, c))
BY DEF Shape, Alters, OutputOn, OutputOff, Parts

\* A setting is written: nothing else changes on the other channels.
LEMMA SettingAlters ==
  ASSUME NEW s, Shape(s), NEW c, NEW key, NEW v
  PROVE  LET t == WriteSetting(s, c, key, v)
         IN  /\ Alters(s, t, {"set"})
             /\ \A d \in DOMAIN s.on : d # c => t.set[d] = s.set[d]
BY DEF Shape, Alters, WriteSetting, Parts

\* A trigger is configured.
LEMMA TriggerAlters ==
  ASSUME NEW s, Shape(s), NEW c, NEW key, NEW v
  PROVE  /\ Alters(s, WriteTrigger(s, c, key, v), {"trig"})
         /\ Alters(s, ConfigureTriggerOutputPins(s, v), {"pins"})
         /\ Alters(s, ClearTriggerOutputPins(s, v), {"pins"})
         /\ Alters(s, RestoreDigitalPins(s, v), {"pins"})
         /\ Alters(s, EnableTriggerOutputBus(s, v), {"pins"})
BY DEF Shape, Alters, WriteTrigger, ConfigureTriggerOutputPins, ClearTriggerOutputPins, RestoreDigitalPins,
       EnableTriggerOutputBus, Parts

\* Transients start.
LEMMA StartAlters ==
  ASSUME NEW s, Shape(s), NEW S
  PROVE  /\ Alters(s, Start(s, S), {"set", "init"})
         /\ \A d \in DOMAIN s.on :
              /\ Start(s, S).init[d] = (IF d \in S THEN "running" ELSE s.init[d])
              /\ d \notin S => Start(s, S).set[d] = s.set[d]
<1>1. Start(s, S).init = [d \in DOMAIN s.init |-> IF d \in S THEN "running" ELSE s.init[d]]
  BY DEF Shape, Start, Parts
<1> QED
  BY <1>1 DEF Shape, Alters, Start, Parts

\* A transient is started, armed or aborted, a protection cleared.
LEMMA TransientAlters ==
  ASSUME NEW s, Shape(s), NEW c
  PROVE  /\ Alters(s, InitiateOutputTrigger(s, c), {"set", "init"})
         /\ \A d \in DOMAIN s.on : d # c =>
              InitiateOutputTrigger(s, c).set[d] = s.set[d] /\ InitiateOutputTrigger(s, c).init[d] = s.init[d]
         /\ s.trig[c].source # "imm" => InitiateOutputTrigger(s, c).set = s.set
         /\ Alters(s, AbortOutputTrigger(s, c), {"init"})
         /\ \A d \in DOMAIN s.on : AbortOutputTrigger(s, c).init[d] \in {s.init[d], "idle"}
         /\ Alters(s, ClearOutputProtection(s, c), {"tripped"})
<1>1. CASE s.trig[c].source = "imm"
  <2>1. InitiateOutputTrigger(s, c) = Start(s, {c})
    BY <1>1 DEF InitiateOutputTrigger
  <2>2. /\ Alters(s, InitiateOutputTrigger(s, c), {"set", "init"})
        /\ \A d \in DOMAIN s.on : d # c =>
              InitiateOutputTrigger(s, c).set[d] = s.set[d] /\ InitiateOutputTrigger(s, c).init[d] = s.init[d]
    BY <2>1, StartAlters
  <2> QED
    BY <1>1, <2>2 DEF Shape, Alters, AbortOutputTrigger, ClearOutputProtection, Parts
<1>2. CASE s.trig[c].source # "imm"
  <2>1. InitiateOutputTrigger(s, c) = [s EXCEPT !.init[c] = "armed"]
    BY <1>2 DEF InitiateOutputTrigger
  <2> QED
    BY <2>1 DEF Shape, Alters, AbortOutputTrigger, ClearOutputProtection, Parts
<1> QED
  BY <1>1, <1>2

\* *TRG starts what waits, and the error queue is read or cleared.
LEMMA BusAlters ==
  ASSUME NEW s, Shape(s)
  PROVE  /\ Alters(s, FireBusTrigger(s), {"set", "init"})
         /\ \A d \in DOMAIN s.on :
              /\ FireBusTrigger(s).init[d] \in {s.init[d], "running"}
              /\ d \notin Waiting(s) => FireBusTrigger(s).set[d] = s.set[d]
         /\ Alters(s, ClearStatus(s), {}) /\ Alters(s, ReadErrorQueue(s), {})
<1>1. CASE Waiting(s) = {}
  BY <1>1 DEF Shape, Alters, FireBusTrigger, ClearStatus, ReadErrorQueue, Parts
<1>2. CASE Waiting(s) # {}
  <2>1. FireBusTrigger(s) = Start(s, Waiting(s))
    BY <1>2 DEF FireBusTrigger
  <2>2. Alters(s, ClearStatus(s), {}) /\ Alters(s, ReadErrorQueue(s), {})
    BY DEF Shape, Alters, ClearStatus, ReadErrorQueue, Parts
  <2> QED
    BY <2>1, <2>2, StartAlters
<1> QED
  BY <1>1, <1>2

\* A range is prepared: a setting of the channel is written, or none.
LEMMA PrepareAlters ==
  ASSUME NEW s, Shape(s), NEW c, NEW v, NEW i
  PROVE  LET t == PrepareOutputPair(s, c, v, i)
         IN  Alters(s, t, {"set"}) /\ \A d \in DOMAIN s.on : d # c => t.set[d] = s.set[d]
<1>1. PICK r : PrepareOutputPair(s, c, v, i) \in {s, WriteSetting(s, c, "range", r)}
  BY DEF PrepareOutputPair
<1>2. Alters(s, s, {"set"})
  BY DEF Alters, Shape
<1> QED
  BY <1>1, <1>2, SettingAlters

Switches == {"on", "onifwas", "off", "offenabled"}
Writers == {"set", "put", "prepare"}
Transients == {"init", "trg", "abort"}
Drafting == {"note", "noteon", "keep"}

\* What a call can change, by its operation.
LEMMA AfterAlters ==
  ASSUME Shape(inst)
  PROVE  /\ Shape(After) /\ After.model = inst.model
         /\ call.op \notin Switches => After.on = inst.on
         /\ call.op \notin Writers \cup {"init", "trg"} => After.set = inst.set
         /\ call.op \notin Transients => After.init = inst.init
         /\ call.op # "clear" => After.tripped = inst.tripped
         /\ call.op \notin {"trigger", "hold", "restore"} => After.trig = inst.trig
<1> DEFINE c == call.ch
<1>1. Alters(inst, inst, {})
  BY DEF Alters, Shape
<1>2. CASE call.op \in Switches
  <2>1. After \in {inst, OutputOn(inst, c), OutputOff(inst, c)}
    BY <1>2 DEF After, Switches
  <2> QED
    BY <1>1, <1>2, <2>1, SwitchAlters DEF Alters, Switches
<1>3. CASE call.op \in Writers
  <2>1. CASE call.op \in {"set", "put"}
    <3>1. PICK key, v : After \in {inst, WriteSetting(inst, c, key, v)}
      BY <2>1 DEF After
    <3>2. Alters(inst, After, {"set"})
      BY <1>1, <3>1, SettingAlters DEF Alters
    <3> QED
      BY <2>1, <3>2 DEF Alters, Writers
  <2>2. CASE call.op = "prepare"
    <3>1. After \in {inst, PrepareOutputPair(inst, c, PairOf[1], PairOf[2])}
      BY <2>2 DEF After
    <3>2. Alters(inst, After, {"set"})
      BY <1>1, <3>1, PrepareAlters DEF Alters
    <3> QED
      BY <2>2, <3>2 DEF Alters, Writers
  <2> QED
    BY <1>3, <2>1, <2>2 DEF Writers
<1>4. CASE call.op \in Transients \cup {"clear"}
  <2>1. \/ call.op = "init" /\ After = InitiateOutputTrigger(inst, c)
        \/ call.op = "trg" /\ After = FireBusTrigger(inst)
        \/ call.op = "abort" /\ After = AbortOutputTrigger(inst, c)
        \/ call.op = "clear" /\ After = ClearOutputProtection(inst, c)
    BY <1>4 DEF After, Transients
  <2>2. \/ Alters(inst, After, {"set", "init"}) /\ call.op \in {"init", "trg"}
        \/ Alters(inst, After, {"init"}) /\ call.op = "abort"
        \/ Alters(inst, After, {"tripped"}) /\ call.op = "clear"
    BY <2>1, TransientAlters, BusAlters
  <2> QED
    BY <2>2 DEF Alters, Transients
<1>5. CASE call.op \in {"trigger", "hold", "restore", "restorepins", "restorebus", "pins", "clearpins", "bus"}
  <2>1. PICK key, v : After \in {WriteTrigger(inst, c, key, v), ConfigureTriggerOutputPins(inst, v),
                                 ClearTriggerOutputPins(inst, v), RestoreDigitalPins(inst, v),
                                 EnableTriggerOutputBus(inst, v)}
    BY <1>5 DEF After, Restored
  <2>2. Alters(inst, After, {"trig"}) \/ Alters(inst, After, {"pins"})
    BY <2>1, TriggerAlters
  <2>4. CASE call.op \in {"restorepins", "restorebus", "pins", "clearpins", "bus"}
    <3>1. PICK p : After \in {ConfigureTriggerOutputPins(inst, p), ClearTriggerOutputPins(inst, p),
                              RestoreDigitalPins(inst, p), EnableTriggerOutputBus(inst, p)}
      BY <2>4 DEF After, Restored
    <3>2. Alters(inst, After, {"pins"})
      BY <3>1, TriggerAlters
    <3> QED
      BY <3>2 DEF Alters
  <2>3. Shape(After) /\ After.model = inst.model /\ After.on = inst.on /\ After.set = inst.set
        /\ After.init = inst.init /\ After.tripped = inst.tripped
    BY <2>2 DEF Alters
  <2> QED
    BY <1>5, <2>3, <2>4
<1>6. CASE call.op \in {"cls", "errors", "drain"}
  <2>1. After \in {ClearStatus(inst), ReadErrorQueue(inst)}
    BY <1>6 DEF After
  <2>2. Alters(inst, After, {})
    BY <2>1, BusAlters
  <2> QED
    BY <2>2 DEF Alters
<1>7. CASE /\ call.op \notin Switches \cup Writers \cup Transients
           /\ call.op \notin {"clear", "trigger", "hold", "restore", "restorepins", "restorebus", "pins",
                              "clearpins", "bus", "cls", "errors", "drain"}
  <2>1. After = inst
    BY <1>7 DEF After, Switches, Writers, Transients
  <2> QED
    BY <1>1, <2>1 DEF Alters
<1> QED
  BY <1>2, <1>3, <1>4, <1>5, <1>6, <1>7

\* What it changes on a channel.
LEMMA AfterOn ==
  ASSUME Shape(inst), NEW d \in DOMAIN inst.on
  PROVE  /\ After.on[d] /\ ~inst.on[d] =>
              /\ call.op \in {"on", "onifwas"} /\ d \in Switched(inst, call.ch)
              /\ call.op = "onifwas" => doc[call.ch].on
         /\ ~After.on[d] /\ inst.on[d] => call.op \in {"off", "offenabled"} /\ d \in Switched(inst, call.ch)
         /\ call.op = "off" \/ (call.op = "offenabled" /\ call.ch \in enabled) =>
              (d \in Switched(inst, call.ch) => ~After.on[d])
<1>1. call.op \notin Switches => After.on = inst.on
  BY AfterAlters
<1>2. inst.on[d] \in BOOLEAN
  BY DEF Shape
<1>3. CASE call.op \in Switches
  <2>1. \/ After = inst /\ ~(call.op = "off" \/ (call.op = "offenabled" /\ call.ch \in enabled))
        \/ After = OutputOn(inst, call.ch) /\ (call.op = "on" \/ (call.op = "onifwas" /\ doc[call.ch].on))
        \/ After = OutputOff(inst, call.ch) /\ call.op \in {"off", "offenabled"}
    BY <1>3 DEF After, Switches
  <2>2. \/ (After.on[d] <=> inst.on[d]) /\ ~(call.op = "off" \/ (call.op = "offenabled" /\ call.ch \in enabled))
        \/ /\ After.on[d] <=> (inst.on[d] \/ (d \in Switched(inst, call.ch) /\ ~inst.tripped[d]))
           /\ call.op = "on" \/ (call.op = "onifwas" /\ doc[call.ch].on)
        \/ /\ After.on[d] <=> (inst.on[d] /\ d \notin Switched(inst, call.ch))
           /\ call.op \in {"off", "offenabled"}
    BY <2>1, SwitchAlters
  <2> QED
    BY <2>2
<1> QED
  BY <1>1, <1>2, <1>3 DEF Switches

\* Settings are written to the channel of the call, or started transients move
\* them.
LEMMA AfterSet ==
  ASSUME Shape(inst), NEW d \in DOMAIN inst.on, After.set[d] # inst.set[d]
  PROVE  \/ call.op \in Writers /\ call.ch = d
         \/ call.op = "init" /\ call.ch = d /\ inst.trig[d].source = "imm"
         \/ call.op = "trg" /\ d \in Waiting(inst)
<1>1. call.op \in Writers \cup {"init", "trg"}
  BY AfterAlters
<1>2. CASE call.op \in {"set", "put"}
  <2>1. PICK key, v : After \in {inst, WriteSetting(inst, call.ch, key, v)}
    BY <1>2 DEF After
  <2> QED
    BY <1>2, <2>1, SettingAlters DEF Writers
<1>3. CASE call.op = "prepare"
  <2>1. After \in {inst, PrepareOutputPair(inst, call.ch, PairOf[1], PairOf[2])}
    BY <1>3 DEF After
  <2> QED
    BY <1>3, <2>1, PrepareAlters DEF Writers
<1>4. CASE call.op = "init"
  <2>1. After = InitiateOutputTrigger(inst, call.ch)
    BY <1>4 DEF After
  <2> QED
    BY <1>4, <2>1, TransientAlters
<1>5. CASE call.op = "trg"
  <2>1. After = FireBusTrigger(inst)
    BY <1>5 DEF After
  <2> QED
    BY <1>5, <2>1, BusAlters
<1> QED
  BY <1>1, <1>2, <1>3, <1>4, <1>5 DEF Writers

\* A transient is armed by its own channel's INIT only.
LEMMA AfterInit ==
  ASSUME Shape(inst), NEW d \in DOMAIN inst.on, After.init[d] = "armed"
  PROVE  inst.init[d] = "armed" \/ (call.op = "init" /\ call.ch = d)
<1>1. CASE call.op = "init"
  <2>1. After = InitiateOutputTrigger(inst, call.ch)
    BY <1>1 DEF After
  <2> QED
    BY <1>1, <2>1, TransientAlters
<1>2. CASE call.op = "trg"
  <2>1. After = FireBusTrigger(inst)
    BY <1>2 DEF After
  <2> QED
    BY <2>1, BusAlters
<1>3. CASE call.op = "abort"
  <2>1. After = AbortOutputTrigger(inst, call.ch)
    BY <1>3 DEF After
  <2> QED
    BY <2>1, TransientAlters
<1> QED
  BY <1>1, <1>2, <1>3, AfterAlters DEF Transients

-----------------------------------------------------------------------------
(* The calls of a command                                                  *)

Ops == {"poll", "read", "errors", "drain", "save", "abort", "restore", "trigger", "restorepins", "restorebus",
        "clearpins", "pins", "bus", "hold", "cls", "wait", "trg", "init", "collected", "set", "prepare", "on",
        "verify", "verifystate", "off", "offenabled", "noteon", "note", "keep", "put", "onifwas", "clear"}
Keys == Settings \cup TriggerKeys \cup {"", "given", "document"}
Kinds == {"plain", "try", "collect", "shrug", "waitfail", "failure", "cleanup", "effort"}

\* The values that the calls of a command carry.
Given(cmd) == {None} \cup {cmd.values[k] : k \in Settings}
Vals(cmd) == BOOLEAN \cup {0, "fix", "step", "list", "bus", cmd.source, cmd.pins}
                \cup Given(cmd) \cup (Given(cmd) \X Given(cmd))

Calls(cmd) == [op : Ops, ch : Nat, key : Keys, val : Vals(cmd)]

\* Only the channels of the command are written and switched, and only a
\* trigger command arms and starts transients, those of its own channels.  A
\* snapshot is taken and a document written back by their commands only.
Addresses(cmd, op, c, key) ==
  /\ op \in Switches \cup Writers => c \in ToSet(cmd.channels)
  /\ op \in {"init", "trg"} => cmd.name \in TriggerNames
  /\ op = "init" => c \in ToSet(cmd.channels)
  /\ op \in {"onifwas", "put"} => cmd.name = "restore-from-snapshot"
  /\ op \in Drafting => cmd.name = "snapshot"
  /\ op = "set" => key # "range"
OwnCalls(cmd) == {k \in Calls(cmd) : Addresses(cmd, k.op, k.ch, k.key)}
Lists(cmd) == Seq(OwnCalls(cmd))

\* The mild ones among them have nothing to do with triggers.
Touching == {"save", "abort", "restore", "trigger", "restorepins", "restorebus", "clearpins", "pins", "bus", "hold",
             "trg", "init"}
Mild(cmd) == Seq({k \in OwnCalls(cmd) : k.op \notin Touching})
MildBlocks(cmd) == [kind : Kinds, calls : Mild(cmd)]

\* But for the completion pulse, which arms and starts the transient of its
\* channel in a block of its own.
PulseList(cmd) ==
  On("abort", cmd.pulse) \o ConfigurePins(cmd.pins, FALSE) \o On("hold", cmd.pulse)
    \o Mode(cmd.pulse, "step") \o Trigger(cmd.pulse, "source", "bus") \o On("init", cmd.pulse) \o On("trg", 0)
PulseBlock(cmd) == [kind |-> "try", calls |-> PulseList(cmd)]
PulseCalls(cmd) ==
  {k \in Calls(cmd) : k.op \in {"abort", "pins", "bus", "hold", "trigger", "init", "trg"}
                        /\ (k.op = "init" => k.ch = cmd.pulse)}

PulseBlocks(cmd) == {blk \in {PulseBlock(cmd)} : cmd.pulse # 0}
Blocks(cmd) == [kind : Kinds, calls : Lists(cmd)] \cup PulseBlocks(cmd)
Entries(cmd) == [call : Calls(cmd), kind : Kinds, block : Nat]

\* A call that only addresses what it may.
LEMMA OneCall ==
  ASSUME NEW cmd, NEW op \in Ops, NEW c \in Nat, NEW key \in Keys, NEW v \in Vals(cmd), Addresses(cmd, op, c, key)
  PROVE  Call(op, c, key, v) \in Lists(cmd) /\ (op \notin Touching => Call(op, c, key, v) \in Mild(cmd))
<1>1. [op |-> op, ch |-> c, key |-> key, val |-> v] \in OwnCalls(cmd)
  BY DEF Calls, OwnCalls
<1>2. op \notin Touching =>
        [op |-> op, ch |-> c, key |-> key, val |-> v] \in {k \in OwnCalls(cmd) : k.op \notin Touching}
  BY <1>1
<1> QED
  BY <1>1, <1>2 DEF Call, Lists, Mild

\* A call without a value.
LEMMA BareCall ==
  ASSUME NEW cmd, NEW op \in Ops, NEW c \in Nat, Addresses(cmd, op, c, "")
  PROVE  On(op, c) \in Lists(cmd) /\ (op \notin Touching => On(op, c) \in Mild(cmd))
<1>1. 0 \in Vals(cmd) /\ "" \in Keys
  BY DEF Vals, Keys
<1> QED
  BY <1>1, OneCall DEF On

\* Lists one after the other.
LEMMA JoinLists ==
  ASSUME NEW T, NEW s \in Seq(T), NEW t \in Seq(T)
  PROVE  s \o t \in Seq(T)
BY ConcatProperties

\* A list or none.
LEMMA WhenList ==
  ASSUME NEW T, NEW condition, NEW s, condition => s \in Seq(T)
  PROVE  When(condition, s) \in Seq(T)
BY EmptySeq DEF When

\* Lists flattened.
LEMMA FlatList ==
  ASSUME NEW T, NEW n \in Nat, NEW f \in [1..n -> Seq(T)]
  PROVE  FlattenSeq(f) \in Seq(T)
<1>1. f \in Seq(Seq(T)) /\ f = [i \in 1..n |-> f[i]]
  BY SeqDef
<1>2. Len(f) = n
  BY <1>1, LenProperties
<1> DEFINE P == Seq(T)
<1>3. << >> \in P /\ \A s, t \in P : s \o t \in P
  BY EmptySeq, JoinLists
<1> HIDE DEF P
<1>4. \A i \in 1..n : f[i] \in P
  BY DEF P
<1>5. FlattenSeq(f) \in P
  BY <1>1, <1>2, <1>3, <1>4, FlattenClosed
<1> QED
  BY <1>5 DEF P

\* What admission says of a command.
LEMMA CommandFacts ==
  ASSUME NEW cmd \in Commands
  PROVE  /\ Admitted(cmd) /\ ToSet(cmd.channels) \subseteq ChannelsOf(cmd.model) /\ ChannelsOf(cmd.model) \subseteq Nat \ {0}
         /\ Len(cmd.channels) \in Nat \ {0} /\ DOMAIN cmd.channels = 1..Len(cmd.channels)
         /\ \A i \in 1..Len(cmd.channels) : cmd.channels[i] \in ToSet(cmd.channels)
         /\ cmd.pulse \in Nat /\ \A k \in Settings : cmd.values[k] \in Given(cmd)
         /\ Given(cmd) \subseteq Vals(cmd) /\ None \in Given(cmd)
         /\ \A v, i \in Given(cmd) : <<v, i>> \in Vals(cmd)
<1>1. Admitted(cmd)
  BY CommandsAssumption DEF Commands
<1>2. cmd.channels \in Seq(ChannelsOf(cmd.model)) /\ cmd.channels # << >>
  BY <1>1 DEF Admitted
<1>3. Len(cmd.channels) \in Nat \ {0} /\ DOMAIN cmd.channels = 1..Len(cmd.channels)
      /\ cmd.channels \in [1..Len(cmd.channels) -> ChannelsOf(cmd.model)]
  BY <1>2, LenProperties, EmptySeq
<1>4. ChannelsOf(cmd.model) \subseteq Nat \ {0}
  BY NumChannelsAssumption DEF ChannelsOf
<1>5. ToSet(cmd.channels) \subseteq ChannelsOf(cmd.model)
      /\ \A i \in 1..Len(cmd.channels) : cmd.channels[i] \in ToSet(cmd.channels)
  BY <1>3 DEF ToSet
<1>6. cmd.pulse \in Nat
  BY <1>1, <1>4 DEF Admitted
<1>7. (\A k \in Settings : cmd.values[k] \in Given(cmd)) /\ Given(cmd) \subseteq Vals(cmd) /\ None \in Given(cmd)
      /\ \A v, i \in Given(cmd) : <<v, i>> \in Vals(cmd)
  BY DEF Given, Vals
<1> QED
  BY <1>1, <1>3, <1>4, <1>5, <1>6, <1>7

\* The first of its channels.
LEMMA FirstChannel ==
  ASSUME NEW cmd \in Commands
  PROVE  cmd.channels[1] \in ToSet(cmd.channels) /\ cmd.channels[1] \in Nat
<1>1. 1 \in 1..Len(cmd.channels)
  BY CommandFacts
<1>2. cmd.channels[1] \in ToSet(cmd.channels) /\ ToSet(cmd.channels) \subseteq Nat
  BY <1>1, CommandFacts
<1> QED
  BY <1>2

\* All channels of its supply.
LEMMA ChannelsInOrder ==
  ASSUME NEW cmd \in Commands
  PROVE  \E n \in Nat : DOMAIN AllChannels(cmd) = 1..n /\ \A i \in 1..n : AllChannels(cmd)[i] \in Nat
<1>1. PICK n \in Nat : ChannelsOf(cmd.model) = 1..n
  <2>1. CASE cmd.model = "pair"
    <3>1. ChannelsOf(cmd.model) = 1..1
      BY <2>1 DEF ChannelsOf
    <3> QED
      BY <3>1
  <2>2. CASE cmd.model # "pair"
    BY <2>2, NumChannelsAssumption DEF ChannelsOf
  <2> QED
    BY <2>1, <2>2
<1> QED
  BY <1>1 DEF AllChannels

\* These calls may go to any channel.
Harmless == Ops \ (Switches \cup Writers \cup Drafting \cup {"init", "trg"})
HarmlessCalls(cmd) == {k \in Calls(cmd) : k.op \in Harmless}
Quiet(cmd) == Seq(HarmlessCalls(cmd))
QuietBlocks(cmd) == [kind : Kinds, calls : Quiet(cmd)] \cup PulseBlocks(cmd)

\* Such a call is a list of its own, quiet and among the command's.
LEMMA HarmlessCall ==
  ASSUME NEW cmd, NEW op \in Harmless, NEW c \in Nat
  PROVE  /\ On(op, c) \in Quiet(cmd) /\ On(op, c) \in Lists(cmd)
         /\ \A key \in Keys, v \in Vals(cmd) :
              Call(op, c, key, v) \in Quiet(cmd) /\ Call(op, c, key, v) \in Lists(cmd)
<1>1. op \in Ops /\ \A key : Addresses(cmd, op, c, key)
  BY DEF Harmless, Addresses, Switches, Writers, Drafting
<1>2. On(op, c) \in Lists(cmd) /\ \A key \in Keys, v \in Vals(cmd) : Call(op, c, key, v) \in Lists(cmd)
  BY <1>1, OneCall, BareCall
<1>3. ASSUME NEW key \in Keys, NEW v \in Vals(cmd) PROVE Call(op, c, key, v) \in Quiet(cmd)
  <2>1. [op |-> op, ch |-> c, key |-> key, val |-> v] \in HarmlessCalls(cmd)
    BY <1>1 DEF HarmlessCalls, Calls
  <2> QED
    BY <2>1 DEF Call, Quiet
<1>4. "" \in Keys /\ 0 \in Vals(cmd)
  BY DEF Keys, Vals
<1> QED
  BY <1>2, <1>3, <1>4 DEF On

\* Mild calls are calls of the command, and so are their blocks.
LEMMA MildLists ==
  ASSUME NEW cmd
  PROVE  Mild(cmd) \subseteq Lists(cmd) /\ Seq(MildBlocks(cmd)) \subseteq Seq(Blocks(cmd))
<1>1. Mild(cmd) \subseteq Lists(cmd)
  BY DEF Mild, Lists
<1>2. MildBlocks(cmd) \subseteq Blocks(cmd)
  BY <1>1 DEF MildBlocks, Blocks
<1> QED
  BY <1>1, <1>2

\* What every handler does between its calls.
LEMMA MildPieces ==
  ASSUME NEW cmd, NEW c \in Nat
  PROVE  /\ Poll \in Mild(cmd) /\ Errors \in Mild(cmd) /\ Drain \in Mild(cmd) /\ Read(c) \in Mild(cmd)
         /\ On("clear", c) \in Mild(cmd)
<1>1. \A op \in {"poll", "errors", "drain", "read", "clear"} :
        op \in Ops /\ op \notin Touching /\ \A d : Addresses(cmd, op, d, "")
  BY DEF Ops, Touching, Addresses, Switches, Writers, Drafting
<1>2. \A op \in {"poll", "errors", "drain", "read", "clear"}, d \in Nat : On(op, d) \in Mild(cmd)
  BY <1>1, BareCall
<1> QED
  BY <1>2 DEF Poll, Errors, Drain, Read

\* Harmless calls are calls of the command.
LEMMA QuietLists ==
  ASSUME NEW cmd
  PROVE  Quiet(cmd) \subseteq Lists(cmd)
<1>1. HarmlessCalls(cmd) \subseteq OwnCalls(cmd)
  BY DEF HarmlessCalls, OwnCalls, Addresses, Harmless, Switches, Writers, Drafting
<1> QED
  BY <1>1 DEF Quiet, Lists

\* The pieces of the trigger commands.
LEMMA QuietPieces ==
  ASSUME NEW cmd \in Commands, NEW c \in Nat
  PROVE  /\ RestoreChannel(c) \in Quiet(cmd) /\ RestoreGlobal(c) \in Quiet(cmd) /\ Wait \in Quiet(cmd)
         /\ Poll \in Quiet(cmd) /\ Errors \in Quiet(cmd) /\ Drain \in Quiet(cmd) /\ Read(c) \in Quiet(cmd)
         /\ Save(c) \in Quiet(cmd) /\ On("abort", c) \in Quiet(cmd)
         /\ \A e \in BOOLEAN : ConfigurePins(cmd.pins, e) \in Quiet(cmd)
         /\ \A v \in Given(cmd) : Level(c, v) \in Quiet(cmd) /\ Trigger(c, "list", v) \in Quiet(cmd)
         /\ \A m \in {"step", "list"} : Mode(c, m) \in Quiet(cmd)
         /\ Trigger(c, "source", "bus") \in Quiet(cmd) /\ Trigger(c, "source", cmd.source) \in Quiet(cmd)
         /\ On("hold", c) \in Quiet(cmd) /\ On("collected", 0) \in Quiet(cmd)
<1> USE DEF Harmless, Ops, Switches, Writers, Drafting, Keys, TriggerKeys, Settings
<1>1. \A op \in {"poll", "read", "errors", "drain", "save", "abort", "restorepins", "restorebus", "bus", "hold",
                 "cls", "wait", "collected"} : \A d \in Nat : On(op, d) \in Quiet(cmd)
  BY HarmlessCall
<1>2. \A v \in Vals(cmd) : \A key \in TriggerKeys :
        Call("trigger", c, key, v) \in Quiet(cmd) /\ Call("restore", c, key, v) \in Quiet(cmd)
  BY HarmlessCall
<1>3. {0, "fix", "step", "list", "bus", cmd.source, cmd.pins} \subseteq Vals(cmd) /\ Given(cmd) \subseteq Vals(cmd)
  BY DEF Vals
<1>4. Call("clearpins", 0, "", cmd.pins) \in Quiet(cmd) /\ Call("pins", 0, "", cmd.pins) \in Quiet(cmd)
  BY <1>3, HarmlessCall
<1> USE DEF Quiet
<1>5. \A v \in Vals(cmd), key \in TriggerKeys : Trigger(c, key, v) \in Quiet(cmd)
  BY <1>2 DEF Trigger
<1>6. RestoreChannel(c) \in Quiet(cmd) /\ RestoreGlobal(c) \in Quiet(cmd)
  BY <1>1, <1>2, <1>3, <1>5, JoinLists DEF RestoreChannel, RestoreGlobal
<1>7. Wait \in Quiet(cmd)
  BY <1>1, JoinLists DEF Wait
<1>8. \A e \in BOOLEAN : ConfigurePins(cmd.pins, e) \in Quiet(cmd)
  BY <1>1, <1>4, JoinLists, WhenList DEF ConfigurePins
<1>9. \A v \in Given(cmd) : Level(c, v) \in Quiet(cmd) /\ Trigger(c, "list", v) \in Quiet(cmd)
  BY <1>1, <1>3, <1>5 DEF Level
<1>10. \A m \in {"step", "list"} : Mode(c, m) \in Quiet(cmd)
  BY <1>3, <1>5, JoinLists DEF Mode
<1> QED
  BY <1>1, <1>3, <1>5, <1>6, <1>7, <1>8, <1>9, <1>10 DEF Poll, Errors, Drain, Read, Save

\* The same as calls of the command, and those that only trigger commands make.
LEMMA TriggerPieces ==
  ASSUME NEW cmd \in Commands, NEW c \in Nat
  PROVE  /\ RestoreChannel(c) \in Lists(cmd) /\ RestoreGlobal(c) \in Lists(cmd) /\ Wait \in Lists(cmd)
         /\ Poll \in Lists(cmd) /\ Errors \in Lists(cmd) /\ Drain \in Lists(cmd) /\ Read(c) \in Lists(cmd)
         /\ Save(c) \in Lists(cmd) /\ On("abort", c) \in Lists(cmd)
         /\ \A e \in BOOLEAN : ConfigurePins(cmd.pins, e) \in Lists(cmd)
         /\ \A v \in Given(cmd) : Level(c, v) \in Lists(cmd) /\ Trigger(c, "list", v) \in Lists(cmd)
         /\ \A m \in {"step", "list"} : Mode(c, m) \in Lists(cmd)
         /\ Trigger(c, "source", "bus") \in Lists(cmd) /\ Trigger(c, "source", cmd.source) \in Lists(cmd)
         /\ On("hold", c) \in Lists(cmd) /\ On("collected", 0) \in Lists(cmd)
         /\ cmd.name \in TriggerNames => FireAndWait(cmd) \in Lists(cmd) /\ On("trg", 0) \in Lists(cmd)
<1>1. ASSUME cmd.name \in TriggerNames
      PROVE  FireAndWait(cmd) \in Lists(cmd) /\ On("trg", 0) \in Lists(cmd)
  <2>1. On("trg", 0) \in Lists(cmd)
    <3>1. "trg" \in Ops /\ 0 \in Nat /\ Addresses(cmd, "trg", 0, "")
      BY <1>1 DEF Addresses, Ops, Switches, Writers, Drafting
    <3> QED
      BY <3>1, BareCall
  <2>2. Wait \in Lists(cmd)
    BY QuietPieces, QuietLists
  <2> QED
    BY <2>1, <2>2, JoinLists, WhenList DEF FireAndWait, Lists
<1> QED
  BY <1>1, QuietPieces, QuietLists

\* A list for every channel, or for every setting.
LEMMA EachChannel ==
  ASSUME NEW cmd \in Commands, NEW T, NEW f \in [1..Len(cmd.channels) -> Seq(T)]
  PROVE  FlattenSeq(f) \in Seq(T)
BY CommandFacts, FlatList

\* The pieces of the output commands.
LEMMA OutputPieces ==
  ASSUME NEW cmd \in Commands, NEW c \in ToSet(cmd.channels)
  PROVE  /\ \A v \in Given(cmd) : SetVoltage(cmd, c, v) \in Mild(cmd) /\ SetCurrent(cmd, c, v) \in Mild(cmd)
         /\ \A v \in Given(cmd), k \in Settings \ {"range"} : Write(c, k, v) \in Mild(cmd)
         /\ WritePair(cmd, c) \in Mild(cmd) /\ SwitchOn(cmd, c) \in Mild(cmd)
         /\ On("off", c) \in Mild(cmd) /\ SwitchOffEnabled(c) \in Mild(cmd)
<1>1. c \in Nat /\ (\A k \in Settings : cmd.values[k] \in Given(cmd)) /\ Given(cmd) \subseteq Vals(cmd)
      /\ None \in Given(cmd) /\ \A v, i \in Given(cmd) : <<v, i>> \in Vals(cmd)
  BY CommandFacts
<1>2. \A op \in {"set", "prepare", "on", "off", "offenabled"} :
        op \in Ops /\ op \notin Touching /\ \A key \in Keys \ {"range"} : Addresses(cmd, op, c, key)
  BY DEF Ops, Addresses, Switches, Writers, Drafting, Touching
<1>3. {"given", ""} \subseteq Keys \ {"range"} /\ Settings \subseteq Keys
  BY DEF Keys
<1>4. \A v \in Vals(cmd) : \A k \in Settings \ {"range"} : Call("set", c, k, v) \in Mild(cmd)
  BY <1>1, <1>2, <1>3, OneCall
<1>5. \A v \in Vals(cmd) : Call("prepare", c, "given", v) \in Mild(cmd)
  BY <1>1, <1>2, <1>3, OneCall
<1>6. \A v, i \in Given(cmd) : Prepare(c, v, i) \in Mild(cmd)
  BY <1>1, <1>5 DEF Prepare
<1>7. Read(c) \in Mild(cmd)
  BY <1>1, MildPieces
<1>8. On("on", c) \in Mild(cmd) /\ On("off", c) \in Mild(cmd) /\ On("offenabled", c) \in Mild(cmd)
  BY <1>1, <1>2, <1>3, BareCall
<1> USE DEF Mild
<1>9. \A v \in Given(cmd), k \in Settings \ {"range"} : Write(c, k, v) \in Mild(cmd)
  BY <1>1, <1>4 DEF Write
<1>10. {"voltage", "current"} \subseteq Settings \ {"range"}
  BY DEF Settings
<1>11. \A v \in Given(cmd) : SetVoltage(cmd, c, v) \in Mild(cmd) /\ SetCurrent(cmd, c, v) \in Mild(cmd)
  <2> SUFFICES ASSUME NEW v \in Given(cmd)
               PROVE  SetVoltage(cmd, c, v) \in Mild(cmd) /\ SetCurrent(cmd, c, v) \in Mild(cmd)
    OBVIOUS
  <2>1. Prepare(c, v, None) \in Mild(cmd) /\ Prepare(c, None, v) \in Mild(cmd)
        /\ Write(c, "voltage", v) \in Mild(cmd) /\ Write(c, "current", v) \in Mild(cmd)
    BY <1>1, <1>6, <1>9, <1>10
  <2> QED
    BY <1>7, <2>1, JoinLists, WhenList DEF SetVoltage, SetCurrent
<1>12. WritePair(cmd, c) \in Mild(cmd)
  <2>1. Prepare(c, cmd.values["voltage"], cmd.values["current"]) \in Mild(cmd)
        /\ Write(c, "voltage", cmd.values["voltage"]) \in Mild(cmd)
        /\ Write(c, "current", cmd.values["current"]) \in Mild(cmd)
    BY <1>1, <1>6, <1>9, <1>10
  <2> QED
    BY <2>1, JoinLists, WhenList DEF WritePair
<1>13. SwitchOn(cmd, c) \in Mild(cmd)
  BY <1>1, <1>6, <1>7, <1>8, JoinLists, WhenList DEF SwitchOn
<1> QED
  BY <1>8, <1>9, <1>11, <1>12, <1>13 DEF SwitchOffEnabled

\* The verification of what was written.
LEMMA VerifyPieces ==
  ASSUME NEW cmd \in Commands
  PROVE  VerifySetpoints(cmd) \in Mild(cmd) /\ \A e \in BOOLEAN : VerifyState(cmd, e) \in Mild(cmd)
<1>1. /\ DOMAIN cmd.channels = 1..Len(cmd.channels)
      /\ \A i \in 1..Len(cmd.channels) : cmd.channels[i] \in Nat
  BY CommandFacts
<1>2. \A k \in {"voltage", "current"} : k \in Keys /\ cmd.values[k] \in Vals(cmd)
  BY CommandFacts DEF Keys, Settings
<1>3. \A c \in Nat, k \in {"voltage", "current"} : Call("verify", c, k, cmd.values[k]) \in Mild(cmd)
  <2>1. "verify" \in Ops /\ "verify" \notin Touching /\ \A c, k : Addresses(cmd, "verify", c, k)
    BY DEF Ops, Addresses, Switches, Writers, Drafting, Touching
  <2> QED
    BY <1>2, <2>1, OneCall
<1>4. \A c \in Nat, e \in BOOLEAN : Call("verifystate", c, "", e) \in Mild(cmd)
  <2>1. "verifystate" \in Ops /\ "verifystate" \notin Touching /\ (\A c : Addresses(cmd, "verifystate", c, ""))
        /\ "" \in Keys /\ BOOLEAN \subseteq Vals(cmd)
    BY DEF Ops, Addresses, Switches, Writers, Drafting, Touching, Keys, Vals
  <2> QED
    BY <2>1, OneCall
<1> USE DEF Mild
<1>5. ASSUME NEW c \in Nat
      PROVE  Each(<<"voltage", "current">>, LAMBDA k : When(cmd.values[k] # None, Call("verify", c, k, cmd.values[k])))
                \in Mild(cmd)
  <2> DEFINE f == [j \in DOMAIN <<"voltage", "current">> |->
                    When(cmd.values[<<"voltage", "current">>[j]] # None,
                         Call("verify", c, <<"voltage", "current">>[j], cmd.values[<<"voltage", "current">>[j]]))]
  <2>1. \A k \in {"voltage", "current"} :
          When(cmd.values[k] # None, Call("verify", c, k, cmd.values[k])) \in Mild(cmd)
    BY <1>3, WhenList
  <2>2. DOMAIN <<"voltage", "current">> = 1..2
        /\ \A j \in 1..2 : <<"voltage", "current">>[j] \in {"voltage", "current"}
    OBVIOUS
  <2>3. f \in [1..2 -> Mild(cmd)]
    BY <2>1, <2>2
  <2>4. FlattenSeq(f) \in Mild(cmd)
    <3> HIDE DEF f
    <3> QED
      BY <2>3, FlatList
  <2> QED
    BY <2>4 DEF Each
<1>6. VerifySetpoints(cmd) \in Mild(cmd)
  <2> DEFINE f == [i \in DOMAIN cmd.channels |->
                Each(<<"voltage", "current">>, LAMBDA k :
                    When(cmd.values[k] # None, Call("verify", cmd.channels[i], k, cmd.values[k])))]
  <2>1. f \in [1..Len(cmd.channels) -> Mild(cmd)]
    BY <1>1, <1>5
  <2>2. FlattenSeq(f) \in Mild(cmd)
    <3> HIDE DEF f
    <3> QED
      BY <2>1, EachChannel
  <2> QED
    BY <2>2, WhenList DEF VerifySetpoints, Each
<1>7. ASSUME NEW e \in BOOLEAN PROVE VerifyState(cmd, e) \in Mild(cmd)
  <2> DEFINE f == [i \in DOMAIN cmd.channels |-> Call("verifystate", cmd.channels[i], "", e)]
  <2>1. f \in [1..Len(cmd.channels) -> Mild(cmd)]
    BY <1>1, <1>4
  <2>2. FlattenSeq(f) \in Mild(cmd)
    <3> HIDE DEF f
    <3> QED
      BY <2>1, EachChannel
  <2> QED
    BY <2>2, WhenList DEF VerifyState, Each
<1> QED
  BY <1>6, <1>7

\* A block of calls.
LEMMA OneBlock ==
  ASSUME NEW cmd, NEW calls \in Lists(cmd)
  PROVE  /\ \A kind \in Kinds : Block(kind, calls) \in Seq(Blocks(cmd))
         /\ Plain(calls) \in Seq(Blocks(cmd)) /\ Try(calls) \in Seq(Blocks(cmd))
         /\ Cleanup(calls) \in Seq(Blocks(cmd)) /\ Effort(calls) \in Seq(Blocks(cmd))
<1>1. \A kind \in Kinds : Block(kind, calls) \in Seq(Blocks(cmd))
  BY DEF Block, Blocks
<1> QED
  BY <1>1 DEF Plain, Try, Cleanup, Effort, Kinds

\* The tail of an output command: harmless calls, but for the pulse.
LEMMA FinishQuiet ==
  ASSUME NEW cmd \in Commands
  PROVE  Finish(cmd) \in Seq(QuietBlocks(cmd))
<1> DEFINE c == cmd.pulse
           T == QuietBlocks(cmd)
<1>1. c \in Nat
  BY CommandFacts
<1>2. c # 0 => Try(PulseList(cmd)) \in Seq(T)
  BY DEF Try, Block, QuietBlocks, PulseBlocks, PulseBlock
<1>3. \A calls \in Quiet(cmd) : Plain(calls) \in Seq(T) /\ Effort(calls) \in Seq(T)
  BY DEF Plain, Effort, Block, QuietBlocks, Kinds
<1>4. Read(c) \o Save(c) \in Quiet(cmd) /\ RestoreChannel(c) \o RestoreGlobal(c) \in Quiet(cmd)
      /\ Errors \in Quiet(cmd)
  BY <1>1, QuietPieces, JoinLists DEF Quiet
<1> HIDE DEF T, c
<1>7. CASE c = 0
  <2>1. CompletionPulse(cmd) = << >>
    BY <1>7 DEF CompletionPulse, When, c
  <2> QED
    BY <1>3, <1>4, <2>1, JoinLists DEF Finish, T
<1>5. ASSUME c # 0 PROVE CompletionPulse(cmd) \in Seq(T)
  <2>1. CompletionPulse(cmd) =
          When(c # 0, Plain(Read(c) \o Save(c)) \o Try(PulseList(cmd))
                        \o When(~Has(cmd, "leave"), Effort(RestoreChannel(c) \o RestoreGlobal(c)))
                        \o Effort(Errors))
    BY DEF CompletionPulse, PulseList, c
  <2>2. Plain(Read(c) \o Save(c)) \in Seq(T) /\ Effort(RestoreChannel(c) \o RestoreGlobal(c)) \in Seq(T)
        /\ Effort(Errors) \in Seq(T)
    BY <1>3, <1>4
  <2>3. When(~Has(cmd, "leave"), Effort(RestoreChannel(c) \o RestoreGlobal(c))) \in Seq(T)
    BY <2>2, WhenList
  <2> DEFINE p1 == Plain(Read(c) \o Save(c))
             p2 == Try(PulseList(cmd))
             p3 == When(~Has(cmd, "leave"), Effort(RestoreChannel(c) \o RestoreGlobal(c)))
             p4 == Effort(Errors)
  <2>4. p1 \in Seq(T) /\ p2 \in Seq(T) /\ p3 \in Seq(T) /\ p4 \in Seq(T)
    BY <1>2, <1>5, <2>2, <2>3
  <2>5. CompletionPulse(cmd) = When(c # 0, p1 \o p2 \o p3 \o p4)
    BY <2>1
  <2> HIDE DEF p1, p2, p3, p4
  <2>6. p1 \o p2 \o p3 \o p4 \in Seq(T)
    BY <2>4, JoinLists
  <2> QED
    BY <2>5, <2>6, WhenList
<1>6. Plain(Errors) \in Seq(T)
  BY <1>3, <1>4
<1> QED
  BY <1>5, <1>6, <1>7, JoinLists DEF Finish, T

\* The same as blocks of the command.
LEMMA FinishBlocks ==
  ASSUME NEW cmd \in Commands
  PROVE  Finish(cmd) \in Seq(Blocks(cmd))
<1>1. QuietBlocks(cmd) \subseteq Blocks(cmd)
  BY QuietLists DEF QuietBlocks, Blocks
<1>2. Finish(cmd) \in Seq(QuietBlocks(cmd))
  BY FinishQuiet
<1> HIDE DEF QuietBlocks, Blocks
<1> QED
  BY <1>1, <1>2

\* The trigger commands.
LEMMA TriggerBlocks ==
  ASSUME NEW cmd \in Commands, cmd.name \in TriggerNames
  PROVE  /\ NativeStep(cmd) \in Seq(Blocks(cmd)) /\ NativeList(cmd) \in Seq(Blocks(cmd))
         /\ TriggerFire(cmd) \in Seq(Blocks(cmd)) /\ TriggerAbort(cmd) \in Seq(Blocks(cmd))
         /\ TriggerPulse(cmd) \in Seq(Blocks(cmd)) /\ TriggerStatus(cmd) \in Seq(Blocks(cmd))
<1> DEFINE c == cmd.channels[1]
           all == AllChannels(cmd)
<1>1. c \in ToSet(cmd.channels) /\ c \in Nat
  BY FirstChannel
<1>2. On("init", c) \in Lists(cmd)
  BY <1>1, BareCall DEF Addresses, Ops, Switches, Writers, Drafting
<1>3. "voltage" \in Settings /\ cmd.values["voltage"] \in Given(cmd) /\ (\A flag : Has(cmd, flag) \in BOOLEAN)
  BY CommandFacts DEF Settings, Has
<1>4. FALSE \in BOOLEAN /\ "step" \in {"step", "list"} /\ "list" \in {"step", "list"} /\ 0 \in Nat /\ 1 \in Nat
  OBVIOUS
<1>5. \E n \in Nat : DOMAIN all = 1..n /\ \A i \in 1..n : all[i] \in Nat
  BY ChannelsInOrder
<1>6. FinishTransient(cmd, c) \in Seq(Blocks(cmd))
  <2>1. On("abort", c) \in Lists(cmd) /\ RestoreChannel(c) \o RestoreGlobal(c) \in Lists(cmd) /\ Errors \in Lists(cmd)
    BY <1>1, TriggerPieces, JoinLists DEF Lists
  <2>2. /\ Block("waitfail", On("abort", c)) \in Seq(Blocks(cmd)) /\ Plain(Errors) \in Seq(Blocks(cmd))
        /\ Cleanup(RestoreChannel(c) \o RestoreGlobal(c)) \in Seq(Blocks(cmd))
    BY <2>1, OneBlock DEF Kinds
  <2> QED
    BY <2>2, JoinLists, WhenList DEF FinishTransient
<1>7. NativeStep(cmd) \in Seq(Blocks(cmd))
  <2> DEFINE first == When(cmd.values["voltage"] = None, Read(c)) \o Save(c)
             calls == Poll \o On("abort", c) \o ConfigurePins(cmd.pins, FALSE) \o Level(c, cmd.values["voltage"])
                       \o Mode(c, "step") \o Trigger(c, "source", cmd.source) \o On("init", c)
                       \o FireAndWait(cmd)
  <2>1. first \in Lists(cmd)
    BY <1>1, TriggerPieces, JoinLists, WhenList DEF Lists
  <2>2. calls \in Lists(cmd)
    BY <1>1, <1>2, <1>3, <1>4, TriggerPieces, JoinLists DEF Lists
  <2> HIDE DEF calls, first
  <2>3. Plain(first) \in Seq(Blocks(cmd)) /\ Try(calls) \in Seq(Blocks(cmd))
    BY <2>1, <2>2, OneBlock
  <2> QED
    BY <1>6, <2>3, JoinLists DEF NativeStep, calls, first
<1>8. NativeList(cmd) \in Seq(Blocks(cmd))
  <2> DEFINE calls == Poll \o On("abort", c) \o ConfigurePins(cmd.pins, Has(cmd, "exclusive"))
                       \o Trigger(c, "list", cmd.values["voltage"]) \o Mode(c, "list")
                       \o Trigger(c, "source", cmd.source) \o On("init", c) \o FireAndWait(cmd)
  <2>1. Save(c) \in Lists(cmd) /\ calls \in Lists(cmd)
    BY <1>1, <1>2, <1>3, <1>4, TriggerPieces, JoinLists DEF Lists
  <2> HIDE DEF calls
  <2>2. Plain(Save(c)) \in Seq(Blocks(cmd)) /\ Try(calls) \in Seq(Blocks(cmd))
    BY <2>1, OneBlock
  <2> QED
    BY <1>6, <2>2, JoinLists DEF NativeList, calls
<1>9. TriggerFire(cmd) \in Seq(Blocks(cmd))
  <2>1. On("trg", 0) \o When(Has(cmd, "wait"), Wait) \o Errors \in Lists(cmd) /\ On("abort", c) \in Lists(cmd)
    BY <1>1, <1>4, TriggerPieces, JoinLists, WhenList DEF Lists
  <2>2. Try(On("trg", 0) \o When(Has(cmd, "wait"), Wait) \o Errors) \in Seq(Blocks(cmd))
        /\ Block("failure", On("abort", c)) \in Seq(Blocks(cmd))
    BY <2>1, OneBlock DEF Kinds
  <2> QED
    BY <2>2, JoinLists, WhenList DEF TriggerFire
<1>10. TriggerAbort(cmd) \in Seq(Blocks(cmd))
  <2> DEFINE f == [i \in DOMAIN cmd.channels |-> Block("shrug", On("abort", cmd.channels[i]))]
  <2>1. f \in [1..Len(cmd.channels) -> Seq(Blocks(cmd))]
    BY CommandFacts, TriggerPieces, OneBlock DEF Kinds
  <2>2. FlattenSeq(f) \in Seq(Blocks(cmd))
    <3> HIDE DEF f
    <3> QED
      BY <2>1, EachChannel
  <2>3. Plain(Errors) \in Seq(Blocks(cmd))
    BY <1>1, TriggerPieces, OneBlock
  <2> QED
    BY <2>2, <2>3, JoinLists DEF TriggerAbort, Each
<1>11. TriggerPulse(cmd) \in Seq(Blocks(cmd))
  <2> DEFINE saves == [i \in DOMAIN all |-> Save(all[i])]
             aborts == [i \in DOMAIN all |-> Block("collect", On("abort", all[i]))]
             restores == [i \in DOMAIN all |-> Effort(RestoreChannel(all[i]))]
             calls == On("collected", 0) \o ConfigurePins(cmd.pins, Has(cmd, "exclusive")) \o On("hold", c)
                       \o Mode(c, "step") \o Trigger(c, "source", "bus") \o Poll
                       \o On("init", c) \o On("trg", 0)
  <2>1. FlattenSeq(saves) \in Lists(cmd)
    <3>1. PICK n \in Nat : saves \in [1..n -> Lists(cmd)]
      BY <1>5, TriggerPieces
    <3> HIDE DEF saves
    <3> QED
      BY <3>1, FlatList DEF Lists
  <2>2. FlattenSeq(aborts) \in Seq(Blocks(cmd))
    <3>1. PICK n \in Nat : aborts \in [1..n -> Seq(Blocks(cmd))]
      BY <1>5, TriggerPieces, OneBlock DEF Kinds
    <3> HIDE DEF aborts
    <3> QED
      BY <3>1, FlatList
  <2>3. FlattenSeq(restores) \in Seq(Blocks(cmd))
    <3>1. PICK n \in Nat : restores \in [1..n -> Seq(Blocks(cmd))]
      BY <1>5, TriggerPieces, OneBlock
    <3> HIDE DEF restores
    <3> QED
      BY <3>1, FlatList
  <2>4. Each(all, Save) = FlattenSeq(saves)
    BY DEF Each
  <2>5. Each(all, LAMBDA d : Block("collect", On("abort", d))) = FlattenSeq(aborts)
    BY DEF Each
  <2>6. Each(all, LAMBDA d : Effort(RestoreChannel(d))) = FlattenSeq(restores)
    BY DEF Each
  <2>7. calls \in Lists(cmd) /\ Read(c) \o Poll \in Lists(cmd) /\ RestoreGlobal(1) \in Lists(cmd)
        /\ Errors \in Lists(cmd)
    BY <1>1, <1>2, <1>3, <1>4, TriggerPieces, JoinLists DEF Lists
  <2> HIDE DEF saves, aborts, restores, calls, all
  <2>8. /\ Plain(Each(all, Save)) \in Seq(Blocks(cmd)) /\ Try(Read(c) \o Poll) \in Seq(Blocks(cmd))
        /\ Try(calls) \in Seq(Blocks(cmd)) /\ Effort(RestoreGlobal(1)) \in Seq(Blocks(cmd))
        /\ Effort(Errors) \in Seq(Blocks(cmd))
    BY <2>1, <2>4, <2>7, OneBlock
  <2> QED
    BY <2>2, <2>3, <2>5, <2>6, <2>8, JoinLists DEF TriggerPulse, calls, all
<1>12. TriggerStatus(cmd) \in Seq(Blocks(cmd))
  <2> DEFINE f == [i \in DOMAIN cmd.channels |-> Read(cmd.channels[i])]
  <2>1. f \in [1..Len(cmd.channels) -> Lists(cmd)]
    BY CommandFacts, TriggerPieces
  <2>2. FlattenSeq(f) \in Lists(cmd)
    <3> HIDE DEF f
    <3> QED
      BY <2>1, EachChannel DEF Lists
  <2>3. Read(0) \o Each(cmd.channels, Read) \in Lists(cmd)
    BY <1>4, <2>2, TriggerPieces, JoinLists DEF Lists, Each
  <2> QED
    BY <2>3, OneBlock DEF TriggerStatus
<1> QED
  BY <1>7, <1>8, <1>9, <1>10, <1>11, <1>12

\* A list of one kind for every channel of the command.
LEMMA ChannelLists ==
  ASSUME NEW cmd \in Commands
  PROVE  /\ Each(cmd.channels, LAMBDA c : WritePair(cmd, c)) \in Mild(cmd)
         /\ Each(cmd.channels, LAMBDA c : SwitchOn(cmd, c)) \in Mild(cmd)
         /\ Each(cmd.channels, LAMBDA c : Poll \o SwitchOn(cmd, c)) \in Mild(cmd)
         /\ Each(cmd.channels, LAMBDA c : On("off", c)) \in Mild(cmd)
         /\ Each(cmd.channels, LAMBDA c : On("off", c) \o Read(c)) \in Mild(cmd)
         /\ Each(cmd.channels, SwitchOffEnabled) \in Mild(cmd)
         /\ Each(cmd.channels, Read) \in Mild(cmd)
         /\ Each(cmd.channels, LAMBDA c : Poll \o Read(c)) \in Mild(cmd)
         /\ Each(cmd.channels, LAMBDA c : Drain \o Read(c)) \in Mild(cmd)
         /\ Each(cmd.channels, LAMBDA c : On("clear", c)) \in Mild(cmd)
<1> DEFINE n == Len(cmd.channels)
           F == [1..n -> Mild(cmd)]
<1>1. DOMAIN cmd.channels = 1..n /\ n \in Nat
      /\ \A i \in 1..n : cmd.channels[i] \in ToSet(cmd.channels) /\ cmd.channels[i] \in Nat
  BY CommandFacts
<1>2. \A f \in F : FlattenSeq(f) \in Mild(cmd)
  BY EachChannel DEF Mild
<1>3. \A i \in 1..n : /\ WritePair(cmd, cmd.channels[i]) \in Mild(cmd) /\ SwitchOn(cmd, cmd.channels[i]) \in Mild(cmd)
                      /\ On("off", cmd.channels[i]) \in Mild(cmd) /\ SwitchOffEnabled(cmd.channels[i]) \in Mild(cmd)
  BY <1>1, OutputPieces
<1>4. \A i \in 1..n : /\ Read(cmd.channels[i]) \in Mild(cmd) /\ Poll \in Mild(cmd) /\ Drain \in Mild(cmd)
                      /\ On("clear", cmd.channels[i]) \in Mild(cmd)
  BY <1>1, MildPieces
<1>5. \A i \in 1..n : /\ Poll \o SwitchOn(cmd, cmd.channels[i]) \in Mild(cmd)
                      /\ On("off", cmd.channels[i]) \o Read(cmd.channels[i]) \in Mild(cmd)
                      /\ Poll \o Read(cmd.channels[i]) \in Mild(cmd)
                      /\ Drain \o Read(cmd.channels[i]) \in Mild(cmd)
  BY <1>3, <1>4, JoinLists DEF Mild
<1>6. Each(cmd.channels, LAMBDA c : WritePair(cmd, c)) \in Mild(cmd)
      /\ Each(cmd.channels, LAMBDA c : SwitchOn(cmd, c)) \in Mild(cmd)
  <2>1. [i \in DOMAIN cmd.channels |-> WritePair(cmd, cmd.channels[i])] \in F
        /\ [i \in DOMAIN cmd.channels |-> SwitchOn(cmd, cmd.channels[i])] \in F
    BY <1>1, <1>3
  <2> QED
    BY <1>2, <2>1 DEF Each
<1>7. Each(cmd.channels, LAMBDA c : Poll \o SwitchOn(cmd, c)) \in Mild(cmd)
      /\ Each(cmd.channels, LAMBDA c : On("off", c)) \in Mild(cmd)
  <2>1. [i \in DOMAIN cmd.channels |-> Poll \o SwitchOn(cmd, cmd.channels[i])] \in F
        /\ [i \in DOMAIN cmd.channels |-> On("off", cmd.channels[i])] \in F
    BY <1>1, <1>3, <1>5
  <2> QED
    BY <1>2, <2>1 DEF Each
<1>8. Each(cmd.channels, LAMBDA c : On("off", c) \o Read(c)) \in Mild(cmd)
      /\ Each(cmd.channels, SwitchOffEnabled) \in Mild(cmd)
  <2>1. [i \in DOMAIN cmd.channels |-> On("off", cmd.channels[i]) \o Read(cmd.channels[i])] \in F
        /\ [i \in DOMAIN cmd.channels |-> SwitchOffEnabled(cmd.channels[i])] \in F
    BY <1>1, <1>3, <1>5
  <2> QED
    BY <1>2, <2>1 DEF Each
<1>9. Each(cmd.channels, Read) \in Mild(cmd)
      /\ Each(cmd.channels, LAMBDA c : Poll \o Read(c)) \in Mild(cmd)
  <2>1. [i \in DOMAIN cmd.channels |-> Read(cmd.channels[i])] \in F
        /\ [i \in DOMAIN cmd.channels |-> Poll \o Read(cmd.channels[i])] \in F
    BY <1>1, <1>4, <1>5
  <2> QED
    BY <1>2, <2>1 DEF Each
<1>10. Each(cmd.channels, LAMBDA c : Drain \o Read(c)) \in Mild(cmd)
       /\ Each(cmd.channels, LAMBDA c : On("clear", c)) \in Mild(cmd)
  <2>1. [i \in DOMAIN cmd.channels |-> Drain \o Read(cmd.channels[i])] \in F
        /\ [i \in DOMAIN cmd.channels |-> On("clear", cmd.channels[i])] \in F
    BY <1>1, <1>4, <1>5
  <2> QED
    BY <1>2, <2>1 DEF Each
<1> QED
  BY <1>6, <1>7, <1>8, <1>9, <1>10

\* A block of mild calls.
LEMMA MildBlock ==
  ASSUME NEW cmd, NEW calls \in Mild(cmd)
  PROVE  /\ Plain(calls) \in Seq(MildBlocks(cmd)) /\ Try(calls) \in Seq(MildBlocks(cmd))
         /\ Cleanup(calls) \in Seq(MildBlocks(cmd))
BY DEF Plain, Try, Cleanup, Block, MildBlocks, Kinds

\* These blocks come before the tail of an output command.
BeforeFinish(cmd, blocks) == \E P \in Seq(MildBlocks(cmd)) : blocks = P \o Finish(cmd)

\* The output commands: mild blocks, and the tail.
LEMMA OutputFronts ==
  ASSUME NEW cmd \in Commands
  PROVE  /\ BeforeFinish(cmd, Set(cmd)) /\ BeforeFinish(cmd, Apply(cmd)) /\ BeforeFinish(cmd, OutputOnCommand(cmd))
         /\ BeforeFinish(cmd, OutputOffCommand(cmd)) /\ BeforeFinish(cmd, SafeOff(cmd))
         /\ BeforeFinish(cmd, CycleOutput(cmd)) /\ BeforeFinish(cmd, SmokeOutput(cmd))
         /\ OutputState(cmd) \in Seq(MildBlocks(cmd))
<1> DEFINE c == cmd.channels[1]
           v == cmd.values["voltage"]
           i == cmd.values["current"]
<1>1. c \in ToSet(cmd.channels) /\ c \in Nat
  BY FirstChannel
<1>2. v \in Given(cmd) /\ i \in Given(cmd)
  BY CommandFacts DEF Settings
<1>3. Poll \in Mild(cmd) /\ Read(c) \in Mild(cmd)
  BY <1>1, MildPieces
<1>4. /\ WritePair(cmd, c) \in Mild(cmd) /\ SwitchOn(cmd, c) \in Mild(cmd) /\ SwitchOffEnabled(c) \in Mild(cmd)
      /\ SetCurrent(cmd, c, i) \in Mild(cmd) /\ SetVoltage(cmd, c, v) \in Mild(cmd)
  BY <1>1, <1>2, OutputPieces
<1>5. TRUE \in BOOLEAN /\ FALSE \in BOOLEAN
  OBVIOUS
<1>6. VerifySetpoints(cmd) \in Mild(cmd) /\ VerifyState(cmd, TRUE) \in Mild(cmd) /\ VerifyState(cmd, FALSE) \in Mild(cmd)
  BY <1>5, VerifyPieces
<1> HIDE DEF c, v, i
<1>8. BeforeFinish(cmd, Set(cmd))
  <2> DEFINE writes == IF cmd.model = "pair" /\ v # None /\ i # None THEN WritePair(cmd, c)
                       ELSE When(i # None, SetCurrent(cmd, c, i)) \o When(v # None, SetVoltage(cmd, c, v))
             calls == Poll \o writes \o When(Has(cmd, "settle"), Poll) \o VerifySetpoints(cmd)
  <2>1. writes \in Mild(cmd)
    BY <1>4, JoinLists, WhenList DEF Mild
  <2>2. calls \in Mild(cmd)
    <3> HIDE DEF writes
    <3> QED
      BY <1>3, <1>6, <2>1, JoinLists, WhenList DEF Mild
  <2>3. Plain(calls) \in Seq(MildBlocks(cmd))
    BY <2>2, MildBlock
  <2>4. Set(cmd) = Plain(calls) \o Finish(cmd)
    BY DEF Set, c, v, i
  <2> HIDE DEF calls
  <2> QED
    BY <2>3, <2>4 DEF BeforeFinish
<1>9. BeforeFinish(cmd, Apply(cmd))
  <2> DEFINE pairs == Each(cmd.channels, LAMBDA d : WritePair(cmd, d))
             ons == Each(cmd.channels, LAMBDA d : SwitchOn(cmd, d))
             calls == Poll \o pairs \o When(~Has(cmd, "no_output"), ons)
                       \o VerifySetpoints(cmd) \o When(~Has(cmd, "no_output"), VerifyState(cmd, TRUE))
  <2>1. pairs \in Mild(cmd) /\ ons \in Mild(cmd)
    BY ChannelLists
  <2>2. calls \in Mild(cmd)
    <3> HIDE DEF pairs, ons
    <3> QED
      BY <1>3, <1>6, <2>1, JoinLists, WhenList DEF Mild
  <2>3. Plain(calls) \in Seq(MildBlocks(cmd))
    BY <2>2, MildBlock
  <2>4. Apply(cmd) = Plain(calls) \o Finish(cmd)
    BY DEF Apply
  <2> HIDE DEF calls
  <2> QED
    BY <2>3, <2>4 DEF BeforeFinish
<1>10. BeforeFinish(cmd, OutputOnCommand(cmd))
  <2> DEFINE reads == Each(cmd.channels, Read)
             ons == Each(cmd.channels, LAMBDA d : SwitchOn(cmd, d))
             calls == Poll \o reads \o ons \o VerifyState(cmd, TRUE)
  <2>1. reads \in Mild(cmd) /\ ons \in Mild(cmd)
    BY ChannelLists
  <2>2. calls \in Mild(cmd)
    <3> HIDE DEF reads, ons
    <3> QED
      BY <1>3, <1>6, <2>1, JoinLists DEF Mild
  <2>3. Plain(calls) \in Seq(MildBlocks(cmd))
    BY <2>2, MildBlock
  <2>4. OutputOnCommand(cmd) = Plain(calls) \o Finish(cmd)
    BY DEF OutputOnCommand
  <2> HIDE DEF calls
  <2> QED
    BY <2>3, <2>4 DEF BeforeFinish
<1>11. BeforeFinish(cmd, OutputOffCommand(cmd)) /\ BeforeFinish(cmd, SafeOff(cmd))
  <2> DEFINE offs == Each(cmd.channels, LAMBDA d : On("off", d))
             reads == Each(cmd.channels, LAMBDA d : On("off", d) \o Read(d))
  <2>1. offs \in Mild(cmd) /\ reads \in Mild(cmd)
    BY ChannelLists
  <2>2. OutputOffCommand(cmd) = Plain(offs \o VerifyState(cmd, FALSE)) \o Finish(cmd)
        /\ SafeOff(cmd) = Plain(reads) \o Finish(cmd)
    BY DEF OutputOffCommand, SafeOff
  <2> HIDE DEF offs, reads
  <2>3. offs \o VerifyState(cmd, FALSE) \in Mild(cmd)
    BY <1>6, <2>1, JoinLists DEF Mild
  <2>4. Plain(offs \o VerifyState(cmd, FALSE)) \in Seq(MildBlocks(cmd)) /\ Plain(reads) \in Seq(MildBlocks(cmd))
    BY <2>1, <2>3, MildBlock
  <2> QED
    BY <2>2, <2>4 DEF BeforeFinish
<1>12. OutputState(cmd) \in Seq(MildBlocks(cmd))
  <2> DEFINE reads == Each(cmd.channels, LAMBDA d : Poll \o Read(d))
  <2>1. reads \in Mild(cmd) /\ OutputState(cmd) = Plain(Poll \o reads)
    BY ChannelLists DEF OutputState
  <2> HIDE DEF reads
  <2>2. Poll \o reads \in Mild(cmd)
    BY <1>3, <2>1, JoinLists DEF Mild
  <2> QED
    BY <2>1, <2>2, MildBlock
<1>13. BeforeFinish(cmd, CycleOutput(cmd))
  <2> DEFINE reads == Each(cmd.channels, Read)
             ons == Each(cmd.channels, LAMBDA d : Poll \o SwitchOn(cmd, d))
             offs == Each(cmd.channels, SwitchOffEnabled)
  <2>1. reads \in Mild(cmd) /\ ons \in Mild(cmd) /\ offs \in Mild(cmd)
    BY ChannelLists
  <2>2. CycleOutput(cmd) = Plain(Poll \o reads) \o Try(ons \o Poll) \o Cleanup(offs) \o Finish(cmd)
    BY DEF CycleOutput
  <2> HIDE DEF reads, ons, offs
  <2>3. Poll \o reads \in Mild(cmd) /\ ons \o Poll \in Mild(cmd)
    BY <1>3, <2>1, JoinLists DEF Mild
  <2>4. /\ Plain(Poll \o reads) \in Seq(MildBlocks(cmd)) /\ Try(ons \o Poll) \in Seq(MildBlocks(cmd))
        /\ Cleanup(offs) \in Seq(MildBlocks(cmd))
    BY <2>1, <2>3, MildBlock
  <2>5. Plain(Poll \o reads) \o Try(ons \o Poll) \o Cleanup(offs) \in Seq(MildBlocks(cmd))
    BY <2>4, JoinLists
  <2> QED
    BY <2>2, <2>5 DEF BeforeFinish
<1>14. BeforeFinish(cmd, SmokeOutput(cmd))
  <2>1. WritePair(cmd, c) \o SwitchOn(cmd, c) \o Poll \o Read(c) \in Mild(cmd)
    BY <1>3, <1>4, JoinLists DEF Mild
  <2>2. /\ Plain(Poll) \in Seq(MildBlocks(cmd)) /\ Plain(Read(c)) \in Seq(MildBlocks(cmd))
        /\ Try(WritePair(cmd, c) \o SwitchOn(cmd, c) \o Poll \o Read(c)) \in Seq(MildBlocks(cmd))
        /\ Cleanup(SwitchOffEnabled(c)) \in Seq(MildBlocks(cmd))
    BY <1>3, <1>4, <2>1, MildBlock
  <2> DEFINE P == Plain(Poll) \o Try(WritePair(cmd, c) \o SwitchOn(cmd, c) \o Poll \o Read(c))
                     \o Cleanup(SwitchOffEnabled(c)) \o Plain(Read(c))
  <2>3. P \in Seq(MildBlocks(cmd))
    BY <2>2, JoinLists
  <2>4. SmokeOutput(cmd) = P \o Finish(cmd)
    BY DEF SmokeOutput, c
  <2> QED
    BY <2>3, <2>4 DEF BeforeFinish
<1> QED
  BY <1>8, <1>9, <1>10, <1>11, <1>12, <1>13, <1>14

\* The output commands.
LEMMA OutputBlocks ==
  ASSUME NEW cmd \in Commands
  PROVE  /\ Set(cmd) \in Seq(Blocks(cmd)) /\ Apply(cmd) \in Seq(Blocks(cmd))
         /\ OutputOnCommand(cmd) \in Seq(Blocks(cmd)) /\ OutputOffCommand(cmd) \in Seq(Blocks(cmd))
         /\ SafeOff(cmd) \in Seq(Blocks(cmd)) /\ OutputState(cmd) \in Seq(Blocks(cmd))
         /\ CycleOutput(cmd) \in Seq(Blocks(cmd)) /\ SmokeOutput(cmd) \in Seq(Blocks(cmd))
<1>1. Finish(cmd) \in Seq(Blocks(cmd)) /\ Seq(MildBlocks(cmd)) \subseteq Seq(Blocks(cmd))
  BY FinishBlocks, MildLists
<1>2. \A blocks : BeforeFinish(cmd, blocks) => blocks \in Seq(Blocks(cmd))
  BY <1>1, JoinLists DEF BeforeFinish
<1> QED
  BY <1>1, <1>2, OutputFronts

\* The pieces of the snapshot, restore and protection commands.
LEMMA StatePieces ==
  ASSUME NEW cmd \in Commands
  PROVE  /\ On("cls", 0) \in Lists(cmd) /\ Drain \in Lists(cmd)
         /\ \A c \in ToSet(cmd.channels) : Call("prepare", c, "document", <<None, None>>) \in Lists(cmd)
         /\ cmd.name = "restore-from-snapshot" =>
              \A c \in ToSet(cmd.channels) :
                 On("onifwas", c) \in Lists(cmd) /\ \A k \in Settings : Call("put", c, k, 0) \in Lists(cmd)
<1>1. Settings \subseteq Keys /\ "document" \in Keys /\ 0 \in Vals(cmd) /\ <<None, None>> \in Vals(cmd)
      /\ ToSet(cmd.channels) \subseteq Nat
  BY CommandFacts DEF Keys, Vals
<1>2. On("cls", 0) \in Lists(cmd) /\ Drain \in Lists(cmd)
  BY HarmlessCall DEF Harmless, Ops, Switches, Writers, Drafting, Drain
<1>3. \A c \in ToSet(cmd.channels), k \in Keys : Addresses(cmd, "prepare", c, k)
  BY DEF Addresses, Switches, Writers, Drafting
<1>4. "put" \in Ops /\ "prepare" \in Ops
  BY DEF Ops
<1>5. ASSUME cmd.name = "restore-from-snapshot", NEW c \in ToSet(cmd.channels), NEW k \in Settings
      PROVE  Call("put", c, k, 0) \in Lists(cmd)
  <2>1. Addresses(cmd, "put", c, k)
    BY <1>5 DEF Addresses, Switches, Writers, Drafting
  <2> QED
    BY <1>1, <1>4, <2>1, OneCall
<1>6. \A c \in ToSet(cmd.channels) : Call("prepare", c, "document", <<None, None>>) \in Lists(cmd)
  BY <1>1, <1>3, <1>4, OneCall
<1>7. ASSUME cmd.name = "restore-from-snapshot", NEW c \in ToSet(cmd.channels)
      PROVE  On("onifwas", c) \in Lists(cmd)
  <2>1. "onifwas" \in Ops /\ Addresses(cmd, "onifwas", c, "")
    BY <1>7 DEF Ops, Addresses, Switches, Writers, Drafting
  <2> QED
    BY <1>1, <2>1, BareCall
<1> QED
  BY <1>2, <1>5, <1>6, <1>7

\* Four pieces, one after the other.
LEMMA FourPieces ==
  ASSUME NEW T, NEW f \in [1..4 -> Seq(T)]
  PROVE  FlattenSeq(f) \in Seq(T)
BY FlatList

\* A list for each of the protection settings.
LEMMA ProtectionLists ==
  ASSUME NEW cmd \in Commands, NEW c \in ToSet(cmd.channels)
  PROVE  /\ cmd.name = "restore-from-snapshot" =>
              Each(ProtectionSettings, LAMBDA k : Poll \o Call("put", c, k, 0)) \in Lists(cmd)
         /\ Each(ProtectionSettings, LAMBDA k : When(cmd.values[k] # None, Write(c, k, cmd.values[k]))) \in Lists(cmd)
<1>1. DOMAIN ProtectionSettings = 1..4
      /\ \A i \in 1..4 : ProtectionSettings[i] \in Settings \ {"range"}
  BY DEF ProtectionSettings, Settings
<1>2. \A k \in Settings \ {"range"} :
        /\ cmd.name = "restore-from-snapshot" => Poll \o Call("put", c, k, 0) \in Lists(cmd)
        /\ When(cmd.values[k] # None, Write(c, k, cmd.values[k])) \in Lists(cmd)
  <2> SUFFICES ASSUME NEW k \in Settings \ {"range"}
               PROVE  /\ cmd.name = "restore-from-snapshot" => Poll \o Call("put", c, k, 0) \in Lists(cmd)
                      /\ When(cmd.values[k] # None, Write(c, k, cmd.values[k])) \in Lists(cmd)
    OBVIOUS
  <2>1. Poll \in Lists(cmd) /\ (cmd.name = "restore-from-snapshot" => Call("put", c, k, 0) \in Lists(cmd))
    BY StatePieces, TriggerPieces, FirstChannel
  <2>2. Write(c, k, cmd.values[k]) \in Lists(cmd)
    BY CommandFacts, OutputPieces, MildLists
  <2> QED
    BY <2>1, <2>2, JoinLists, WhenList DEF Lists
<1>3. (cmd.name = "restore-from-snapshot" =>
         [i \in DOMAIN ProtectionSettings |-> Poll \o Call("put", c, ProtectionSettings[i], 0)] \in [1..4 -> Lists(cmd)])
      /\ [i \in DOMAIN ProtectionSettings |-> When(cmd.values[ProtectionSettings[i]] # None,
              Write(c, ProtectionSettings[i], cmd.values[ProtectionSettings[i]]))] \in [1..4 -> Lists(cmd)]
  BY <1>1, <1>2
<1> QED
  BY <1>3, FourPieces DEF Each, Lists


\* The restore of a channel.
LEMMA RestoreList ==
  ASSUME NEW cmd \in Commands, cmd.name = "restore-from-snapshot", NEW c \in ToSet(cmd.channels)
  PROVE  RestoreSteps(cmd, c) \in Lists(cmd)
<1> DEFINE protections == Each(ProtectionSettings, LAMBDA k : Poll \o Call("put", c, k, 0))
<1>1. {"voltage", "current", "range"} \subseteq Settings
  BY DEF Settings
<1>2. /\ protections \in Lists(cmd) /\ Poll \in Lists(cmd) /\ On("off", c) \in Lists(cmd)
      /\ Call("put", c, "range", 0) \in Lists(cmd) /\ Call("put", c, "voltage", 0) \in Lists(cmd)
      /\ Call("put", c, "current", 0) \in Lists(cmd) /\ On("onifwas", c) \in Lists(cmd)
      /\ Call("prepare", c, "document", <<None, None>>) \in Lists(cmd)
  BY <1>1, ProtectionLists, StatePieces, TriggerPieces, FirstChannel, OutputPieces, MildLists
<1> HIDE DEF protections
<1>3. When(Has(cmd, "on"), Poll \o On("onifwas", c)) \in Lists(cmd)
      /\ When(cmd.model = "pair", Poll \o Call("put", c, "range", 0)) \in Lists(cmd)
  BY <1>2, JoinLists, WhenList DEF Lists
<1>4. Poll \o Poll \o Call("prepare", c, "document", <<None, None>>)
        \o Call("put", c, "current", 0) \o Call("put", c, "voltage", 0) \in Lists(cmd)
      /\ Poll \o Call("put", c, "current", 0) \o Poll \o Call("put", c, "voltage", 0) \in Lists(cmd)
  BY <1>2, JoinLists DEF Lists
<1>5. (IF cmd.model = "pair"
       THEN Poll \o Poll \o Call("prepare", c, "document", <<None, None>>)
             \o Call("put", c, "current", 0) \o Call("put", c, "voltage", 0)
       ELSE Poll \o Call("put", c, "current", 0) \o Poll \o Call("put", c, "voltage", 0)) \in Lists(cmd)
  BY <1>4
<1> QED
  BY <1>2, <1>3, <1>5, JoinLists DEF RestoreSteps, Lists, protections

\* What a snapshot calls; only a PSM-2010 has a range to note.
Noting(cmd) ==
  {k \in Calls(cmd) : k.op \in Drafting \cup {"read", "drain"}
                         /\ (k.op = "note" /\ k.key = "range" => cmd.model = "pair")}
NotingLists(cmd) == Seq(Noting(cmd))
NotingBlocks(cmd) == [kind : Kinds, calls : NotingLists(cmd)]

\* Such a call is a list of its own.
LEMMA NotingCalls ==
  ASSUME NEW cmd
  PROVE  /\ \A c \in Nat : Read(c) \in NotingLists(cmd) /\ On("noteon", c) \in NotingLists(cmd)
         /\ \A c \in Nat, k \in Settings :
              (k = "range" => cmd.model = "pair") => Call("note", c, k, 0) \in NotingLists(cmd)
         /\ Drain \in NotingLists(cmd) /\ On("keep", 0) \in NotingLists(cmd)
<1>1. {"", "range"} \cup Settings \subseteq Keys /\ 0 \in Vals(cmd)
  BY DEF Keys, Settings, Vals
<1>2. \A op \in Drafting \cup {"read", "drain"}, c \in Nat, k \in {""} \cup Settings :
        (op = "note" /\ k = "range" => cmd.model = "pair") => [op |-> op, ch |-> c, key |-> k, val |-> 0] \in Noting(cmd)
  <2>1. Drafting \cup {"read", "drain"} \subseteq Ops
    BY DEF Drafting, Ops
  <2>2. \A op \in Ops, c \in Nat, k \in Keys : [op |-> op, ch |-> c, key |-> k, val |-> 0] \in Calls(cmd)
    BY <1>1 DEF Calls
  <2> QED
    BY <1>1, <2>1, <2>2 DEF Noting
<1>3. \A x \in Noting(cmd) : <<x>> \in Seq(Noting(cmd))
  OBVIOUS
<1>4. \A op \in Drafting \cup {"read", "drain"}, c \in Nat, k \in {""} \cup Settings :
        (op = "note" /\ k = "range" => cmd.model = "pair") => Call(op, c, k, 0) \in NotingLists(cmd)
  BY <1>2, <1>3 DEF Call, NotingLists
<1>5. "range" # "" /\ 0 \in Nat
  OBVIOUS
<1> QED
  BY <1>4, <1>5 DEF On, Read, Drain, Drafting

\* A list of them in a block.
LEMMA OneNotingBlock ==
  ASSUME NEW cmd, NEW calls \in NotingLists(cmd), NEW kind \in Kinds
  PROVE  Block(kind, calls) \in Seq(NotingBlocks(cmd)) /\ Plain(calls) \in Seq(NotingBlocks(cmd))
<1>1. [kind |-> kind, calls |-> calls] \in NotingBlocks(cmd) /\ [kind |-> "plain", calls |-> calls] \in NotingBlocks(cmd)
  BY DEF NotingBlocks, Kinds
<1>2. \A x \in NotingBlocks(cmd) : <<x>> \in Seq(NotingBlocks(cmd))
  OBVIOUS
<1> QED
  BY <1>1, <1>2 DEF Plain, Block

\* The snapshot: the notes of the protections, each in a block of its own.
LEMMA SnapshotNotes ==
  ASSUME NEW cmd \in Commands
  PROVE  Snapshot(cmd) \in Seq(NotingBlocks(cmd))
<1> DEFINE channels == AllChannels(cmd)
           settings == IF cmd.model = "pair" THEN <<"ovp", "ocp">> ELSE ProtectionSettings
           reads == Each(channels, Read)
           ons == Each(channels, LAMBDA c : On("noteon", c))
           pairs == Each(channels, LAMBDA c : Call("note", c, "voltage", 0) \o Call("note", c, "current", 0))
           notes(c) == Each(settings, LAMBDA k : Block("shrug", Call("note", c, k, 0)))
           shrugs == Each(channels, LAMBDA c : notes(c))
<1>1. PICK n \in Nat : DOMAIN channels = 1..n /\ \A i \in 1..n : channels[i] \in Nat
  BY ChannelsInOrder
<1>2. {"voltage", "current", "range"} \subseteq Settings
  BY DEF Settings
<1>3. \A c \in Nat : /\ \A k \in Settings \ {"range"} : Call("note", c, k, 0) \in NotingLists(cmd)
                     /\ On("noteon", c) \in NotingLists(cmd) /\ Read(c) \in NotingLists(cmd)
  BY NotingCalls
<1>4. \A f \in [1..n -> NotingLists(cmd)] : FlattenSeq(f) \in NotingLists(cmd)
  BY FlatList DEF NotingLists
<1>5. reads \in NotingLists(cmd) /\ ons \in NotingLists(cmd)
  <2>1. [i \in DOMAIN channels |-> Read(channels[i])] \in [1..n -> NotingLists(cmd)]
        /\ [i \in DOMAIN channels |-> On("noteon", channels[i])] \in [1..n -> NotingLists(cmd)]
    <3> HIDE DEF channels
    <3> QED
      BY <1>1, <1>2, <1>3
  <2> QED
    BY <1>4, <2>1 DEF Each
<1>6. pairs \in NotingLists(cmd)
  <2>1. \A c \in Nat : Call("note", c, "voltage", 0) \o Call("note", c, "current", 0) \in NotingLists(cmd)
    BY <1>2, <1>3, JoinLists DEF NotingLists
  <2>2. [i \in DOMAIN channels |-> Call("note", channels[i], "voltage", 0) \o Call("note", channels[i], "current", 0)]
          \in [1..n -> NotingLists(cmd)]
    <3> HIDE DEF channels
    <3> QED
      BY <1>1, <2>1
  <2> QED
    BY <1>4, <2>2 DEF Each
<1>7. ASSUME NEW c \in Nat PROVE notes(c) \in Seq(NotingBlocks(cmd))
  <2>1. PICK m \in Nat : DOMAIN settings = 1..m /\ \A i \in 1..m : settings[i] \in Settings \ {"range"}
    <3>1. CASE cmd.model = "pair"
      <4>1. settings = <<"ovp", "ocp">>
        BY <3>1
      <4>2. DOMAIN settings = 1..2 /\ \A i \in 1..2 : settings[i] \in Settings \ {"range"}
        BY <4>1 DEF Settings
      <4> QED
        BY <4>2
    <3>2. CASE cmd.model # "pair"
      <4>1. DOMAIN settings = 1..4 /\ \A i \in 1..4 : settings[i] \in Settings \ {"range"}
        BY <3>2 DEF Settings, ProtectionSettings
      <4> QED
        BY <4>1
    <3> QED
      BY <3>1, <3>2
  <2> DEFINE f == [i \in DOMAIN settings |-> Block("shrug", Call("note", c, settings[i], 0))]
  <2>2. f \in [1..m -> Seq(NotingBlocks(cmd))]
    <3> HIDE DEF settings
    <3> QED
      BY <1>3, <2>1, OneNotingBlock DEF Kinds
  <2> HIDE DEF f
  <2>3. FlattenSeq(f) \in Seq(NotingBlocks(cmd))
    BY <2>2, FlatList
  <2> QED
    BY <2>3 DEF Each, f
<1> HIDE DEF notes, settings
<1>8. shrugs \in Seq(NotingBlocks(cmd))
  <2> DEFINE f == [i \in DOMAIN channels |-> notes(channels[i])]
  <2>1. f \in [1..n -> Seq(NotingBlocks(cmd))]
    <3> HIDE DEF channels
    <3> QED
      BY <1>1, <1>7
  <2> HIDE DEF f
  <2>2. FlattenSeq(f) \in Seq(NotingBlocks(cmd))
    BY <2>1, FlatList
  <2> QED
    BY <2>2 DEF Each, f
<1>9. Snapshot(cmd) = Plain(Drain \o reads \o ons \o pairs \o reads) \o shrugs
                        \o Plain(When(cmd.model = "pair", Call("note", 1, "range", 0)) \o On("keep", 0))
  BY DEF Snapshot, notes, settings
<1> HIDE DEF reads, ons, pairs, shrugs
<1>10. Drain \o reads \o ons \o pairs \o reads \in NotingLists(cmd)
  BY <1>5, <1>6, NotingCalls, JoinLists DEF NotingLists
<1>11. When(cmd.model = "pair", Call("note", 1, "range", 0)) \o On("keep", 0) \in NotingLists(cmd)
  <2>1. When(cmd.model = "pair", Call("note", 1, "range", 0)) \in NotingLists(cmd) /\ On("keep", 0) \in NotingLists(cmd)
    BY <1>2, NotingCalls, WhenList DEF NotingLists, When
  <2> QED
    BY <2>1, JoinLists, WhenList DEF NotingLists
<1>12. /\ Plain(Drain \o reads \o ons \o pairs \o reads) \in Seq(NotingBlocks(cmd))
       /\ Plain(When(cmd.model = "pair", Call("note", 1, "range", 0)) \o On("keep", 0)) \in Seq(NotingBlocks(cmd))
  <2>1. "plain" \in Kinds
    BY DEF Kinds
  <2> QED
    BY <1>10, <1>11, <2>1, OneNotingBlock
<1> QED
  BY <1>8, <1>9, <1>12, JoinLists

\* The same as blocks of the command.
LEMMA SnapshotBlocks ==
  ASSUME NEW cmd \in Commands, cmd.name = "snapshot"
  PROVE  Snapshot(cmd) \in Seq(Blocks(cmd))
<1>1. Noting(cmd) \subseteq OwnCalls(cmd)
  BY DEF Noting, OwnCalls, Addresses, Switches, Writers, Drafting
<1>2. NotingBlocks(cmd) \subseteq Blocks(cmd)
  BY <1>1 DEF NotingBlocks, NotingLists, Blocks, Lists
<1>3. Snapshot(cmd) \in Seq(NotingBlocks(cmd))
  BY SnapshotNotes
<1> HIDE DEF NotingBlocks, Blocks
<1> QED
  BY <1>2, <1>3

\* The snapshot, restore, protection, telemetry and read-only commands.
LEMMA StateBlocks ==
  ASSUME NEW cmd \in Commands
  PROVE  /\ cmd.name = "snapshot" => Snapshot(cmd) \in Seq(Blocks(cmd))
         /\ ProtectionSet(cmd) \in Seq(Blocks(cmd))
         /\ cmd.name = "restore-from-snapshot" => RestoreFromSnapshot(cmd) \in Seq(Blocks(cmd))
         /\ ClearProtection(cmd) \in Seq(Blocks(cmd)) /\ ProtectionStatus(cmd) \in Seq(Blocks(cmd))
         /\ Telemetry(cmd) \in Seq(Blocks(cmd)) /\ ReadOnly(cmd) \in Seq(Blocks(cmd))
         /\ ReadStatus(cmd) \in Seq(Blocks(cmd)) /\ LivePanel(cmd) \in Seq(Blocks(cmd))
         /\ ValidateReadOnly(cmd) \in Seq(Blocks(cmd)) /\ Clear(cmd) \in Seq(Blocks(cmd))
         /\ ErrorCommand(cmd) \in Seq(Blocks(cmd)) /\ Measure(cmd) \in Seq(Blocks(cmd))
         /\ Identify(cmd) \in Seq(Blocks(cmd))
<1> DEFINE reads == Each(cmd.channels, Read)
           drains == Each(cmd.channels, LAMBDA c : Drain \o Read(c))
           clears == Each(cmd.channels, LAMBDA c : On("clear", c))
<1>1. reads \in Lists(cmd) /\ drains \in Lists(cmd) /\ clears \in Lists(cmd)
  BY ChannelLists, MildLists
<1>2. Drain \in Lists(cmd) /\ Poll \in Lists(cmd) /\ Errors \in Lists(cmd) /\ On("cls", 0) \in Lists(cmd)
      /\ Read(cmd.channels[1]) \in Lists(cmd)
  BY FirstChannel, StatePieces, TriggerPieces
<1>3. Read(0) \in Lists(cmd)
  BY HarmlessCall DEF Harmless, Ops, Switches, Writers, Drafting, Read
<1>4. ClearProtection(cmd) = Plain(clears \o Errors) /\ ProtectionStatus(cmd) = Plain(reads)
      /\ ReadOnly(cmd) = Plain(reads) /\ ReadStatus(cmd) = Plain(Drain \o reads) /\ LivePanel(cmd) = Plain(reads)
      /\ ValidateReadOnly(cmd) = Plain(Drain \o reads)
      /\ Telemetry(cmd) = Plain((Poll \o drains \o Poll) \o Poll \o (Poll \o drains \o Poll))
  BY DEF ClearProtection, ProtectionStatus, ReadOnly, ReadStatus, LivePanel, ValidateReadOnly, Telemetry
<1>5. ProtectionSet(cmd) \in Seq(Blocks(cmd))
  <2> DEFINE f == [i \in DOMAIN cmd.channels |-> Each(ProtectionSettings, LAMBDA k :
                     When(cmd.values[k] # None, Write(cmd.channels[i], k, cmd.values[k])))]
  <2>1. f \in [1..Len(cmd.channels) -> Lists(cmd)]
    BY CommandFacts, ProtectionLists
  <2>2. FlattenSeq(f) \in Lists(cmd)
    <3> HIDE DEF f
    <3> QED
      BY <2>1, EachChannel DEF Lists
  <2>3. ProtectionSet(cmd) = Plain(FlattenSeq(f) \o Errors)
    BY DEF ProtectionSet, Each
  <2> HIDE DEF f
  <2>4. FlattenSeq(f) \o Errors \in Lists(cmd)
    BY <1>2, <2>2, JoinLists DEF Lists
  <2> QED
    BY <2>3, <2>4, OneBlock
<1>6. ASSUME cmd.name = "restore-from-snapshot" PROVE RestoreFromSnapshot(cmd) \in Seq(Blocks(cmd))
  <2> DEFINE f == [i \in DOMAIN cmd.channels |-> RestoreSteps(cmd, cmd.channels[i])]
  <2>1. f \in [1..Len(cmd.channels) -> Lists(cmd)]
    BY <1>6, CommandFacts, RestoreList
  <2>2. FlattenSeq(f) \in Lists(cmd)
    <3> HIDE DEF f
    <3> QED
      BY <2>1, EachChannel DEF Lists
  <2>3. RestoreFromSnapshot(cmd) = Plain(FlattenSeq(f) \o Errors)
    BY DEF RestoreFromSnapshot, Each
  <2> HIDE DEF f
  <2>4. FlattenSeq(f) \o Errors \in Lists(cmd)
    BY <1>2, <2>2, JoinLists DEF Lists
  <2> QED
    BY <2>3, <2>4, OneBlock
<1> HIDE DEF reads, drains, clears
<1>7. clears \o Errors \in Lists(cmd) /\ Drain \o reads \in Lists(cmd) /\ Poll \o drains \o Poll \in Lists(cmd)
  BY <1>1, <1>2, JoinLists DEF Lists
<1>8. (Poll \o drains \o Poll) \o Poll \o (Poll \o drains \o Poll) \in Lists(cmd)
  BY <1>2, <1>7, JoinLists DEF Lists
<1> QED
  BY <1>1, <1>2, <1>3, <1>4, <1>5, <1>6, <1>7, <1>8, OneBlock, SnapshotBlocks
     DEF Clear, ErrorCommand, Measure, Identify

\* Every command is a list of blocks that address only what they may.
LEMMA BlocksFit ==
  ASSUME NEW cmd \in Commands
  PROVE  BlocksOf(cmd) \in Seq(Blocks(cmd))
<1>1. cmd.name \in Names
  BY CommandFacts DEF Admitted
<1>2. CASE cmd.name \in TriggerNames
  BY <1>2, TriggerBlocks DEF TriggerNames, BlocksOf
<1>3. CASE cmd.name \in {"set", "apply", "output-on", "output-off", "safe-off", "output-state", "cycle-output",
                         "smoke-output"}
  BY <1>3, OutputBlocks DEF BlocksOf
<1>4. CASE cmd.name \in {"snapshot", "restore-from-snapshot", "protection-set", "clear-protection",
                         "protection-status", "log"}
  BY <1>4, StateBlocks DEF BlocksOf
<1>5. CASE cmd.name \in {"read-status", "live-panel", "validate-readonly", "readback", "measure-all", "clear",
                         "error", "measure", "identify", "verify"}
  BY <1>5, StateBlocks DEF BlocksOf
<1> QED
  BY <1>1, <1>2, <1>3, <1>4, <1>5 DEF Names, PulseNames

-----------------------------------------------------------------------------
(* The places of a script                                                  *)

\* Where the blocks end.
IsEnds(o, blocks) ==
  /\ o \in [0..Len(blocks) -> Nat] /\ o[0] = 0
  /\ \A b \in 1..Len(blocks) : o[b] = o[b - 1] + Len(blocks[b].calls)
Ends(blocks) == CHOOSE o : IsEnds(o, blocks)

\* A function on 1..n is a sequence.
LEMMA IsSequence ==
  ASSUME NEW T, NEW n \in Nat, NEW f \in [1..n -> T]
  PROVE  f \in Seq(T) /\ Len(f) = n
<1>1. f \in Seq(T)
  BY SeqDef
<1> QED
  BY <1>1, LenProperties

\* What the elements of a sequence are.
LEMMA ItsElements ==
  ASSUME NEW T, NEW s \in Seq(T)
  PROVE  Len(s) \in Nat /\ DOMAIN s = 1..Len(s) /\ \A i \in 1..Len(s) : s[i] \in T
BY LenProperties

\* The ends exist, and they ascend.
LEMMA EndsExist ==
  ASSUME NEW K, NEW T, NEW blocks \in Seq([kind : K, calls : Seq(T)])
  PROVE  /\ IsEnds(Ends(blocks), blocks)
         /\ \A b \in 0..Len(blocks) : Ends(blocks)[b] <= Ends(blocks)[Len(blocks)]
<1> DEFINE n == Len(blocks)
           v == [b \in 1..n |-> Len(blocks[b].calls)]
<1>1. n \in Nat /\ \A b \in 1..n : blocks[b].calls \in Seq(T)
  <2>1. n \in Nat /\ \A b \in 1..n : blocks[b] \in [kind : K, calls : Seq(T)]
    BY ItsElements
  <2> QED
    BY <2>1
<1>2. v \in [1..n -> Nat]
  BY <1>1, LenProperties
<1>3. PICK o \in [0..n -> Nat] : /\ o[0] = 0 /\ \A k \in 1..n : o[k] = o[k - 1] + v[k]
                                 /\ \A k \in 0..n : o[k] <= o[n]
  <2> HIDE DEF v
  <2> QED
    BY <1>1, <1>2, SumsExist
<1>4. IsEnds(o, blocks)
  BY <1>3 DEF IsEnds
<1>5. IsEnds(Ends(blocks), blocks)
  BY <1>4 DEF Ends
<1>6. Ends(blocks) = o
  <2> DEFINE e == Ends(blocks)
             S == {k \in Nat : k <= n => e[k] = o[k]}
  <2>1. 0 \in S
    BY <1>3, <1>5 DEF IsEnds
  <2>2. \A k \in Nat : k \in S => k + 1 \in S
    <3> SUFFICES ASSUME NEW k \in Nat, k <= n => e[k] = o[k], k + 1 <= n PROVE e[k + 1] = o[k + 1]
      OBVIOUS
    <3>1. k + 1 \in 1..n /\ (k + 1) - 1 = k /\ e[k] = o[k]
      BY <1>1
    <3>2. e[k + 1] = e[(k + 1) - 1] + Len(blocks[k + 1].calls) /\ o[k + 1] = o[(k + 1) - 1] + Len(blocks[k + 1].calls)
      BY <1>4, <1>5, <3>1 DEF IsEnds
    <3> QED
      BY <3>1, <3>2
  <2>3. \A k \in Nat : k \in S
    <3> HIDE DEF S
    <3> QED
      BY <2>1, <2>2, NaturalInduction
  <2>4. \A k \in 0..n : e[k] = o[k]
    BY <1>1, <2>3
  <2> QED
    BY <1>4, <1>5, <2>4 DEF IsEnds
<1> QED
  BY <1>3, <1>5, <1>6

\* Every call of every block is in the script, at the place its block gives
\* it, and every entry of the script is one of them.
Located(blocks) ==
  LET s == Script(blocks)
      e == Ends(blocks)
  IN  /\ Len(s) = e[Len(blocks)]
      /\ \A b \in 1..Len(blocks) : \A i \in 1..Len(blocks[b].calls) :
            /\ e[b - 1] + i \in 1..Len(s)
            /\ s[e[b - 1] + i] = [call |-> blocks[b].calls[i], kind |-> blocks[b].kind, block |-> b]
      /\ \A p \in 1..Len(s) :
            LET b == s[p].block
            IN  /\ b \in 1..Len(blocks) /\ p - e[b - 1] \in 1..Len(blocks[b].calls)
                /\ s[p].kind = blocks[b].kind /\ s[p].call = blocks[b].calls[p - e[b - 1]]

\* So it is, for blocks of any kind.
LEMMA ScriptPlaces ==
  ASSUME NEW K, NEW T, NEW blocks \in Seq([kind : K, calls : Seq(T)])
  PROVE  Script(blocks) \in Seq([call : T, kind : K, block : Nat]) /\ Located(blocks)
<1> DEFINE n == Len(blocks)
           e == Ends(blocks)
           U == [call : T, kind : K, block : Nat]
           ss == [b \in DOMAIN blocks |->
                    [i \in DOMAIN blocks[b].calls |->
                        [call |-> blocks[b].calls[i], kind |-> blocks[b].kind, block |-> b]]]
           s == FlattenSeq(ss)
<1>1. n \in Nat /\ DOMAIN blocks = 1..n /\ \A b \in 1..n : blocks[b] \in [kind : K, calls : Seq(T)]
  BY LenProperties
<1>2. \A b \in 1..n : /\ Len(blocks[b].calls) \in Nat /\ DOMAIN blocks[b].calls = 1..Len(blocks[b].calls)
                      /\ \A i \in 1..Len(blocks[b].calls) : blocks[b].calls[i] \in T
  BY <1>1, LenProperties
<1>3. IsEnds(e, blocks) /\ \A b \in 0..n : e[b] <= e[n]
  BY EndsExist
<1>4. ASSUME NEW b \in 1..n
      PROVE  /\ ss[b] \in Seq(U) /\ Len(ss[b]) = Len(blocks[b].calls)
             /\ \A i \in 1..Len(blocks[b].calls) :
                  ss[b][i] = [call |-> blocks[b].calls[i], kind |-> blocks[b].kind, block |-> b]
  <2>1. ss[b] = [i \in 1..Len(blocks[b].calls) |->
                    [call |-> blocks[b].calls[i], kind |-> blocks[b].kind, block |-> b]]
    BY <1>1, <1>2
  <2>2. \A i \in 1..Len(blocks[b].calls) : ss[b][i] \in U
    BY <1>1, <1>2, <2>1
  <2>3. ss[b] \in [1..Len(blocks[b].calls) -> U]
    <3> HIDE DEF U
    <3> QED
      BY <2>1, <2>2
  <2>4. Len(blocks[b].calls) \in Nat
    BY <1>2
  <2>5. ss[b] \in Seq(U) /\ Len(ss[b]) = Len(blocks[b].calls)
    <3> HIDE DEF U, ss
    <3> QED
      BY <2>3, <2>4, IsSequence
  <2> QED
    BY <2>1, <2>5
<1>5. Len(ss) = n /\ (n = 0 => ss = << >>)
  <2>1. ss \in [1..n -> Seq(U)]
    <3> HIDE DEF U
    <3>1. \A b \in 1..n : ss[b] \in Seq(U)
      BY <1>4
    <3>2. DOMAIN ss = 1..n /\ ss = [b \in DOMAIN ss |-> ss[b]]
      BY <1>1
    <3> HIDE DEF ss
    <3> QED
      BY <3>1, <3>2
  <2> HIDE DEF ss, U, n
  <2>2. n \in Nat
    BY <1>1
  <2>3. ss \in Seq(Seq(U)) /\ Len(ss) = n
    BY <2>1, <2>2, IsSequence
  <2> QED
    BY <2>3, EmptySeq, LenProperties
<1> HIDE DEF ss
<1>6. Placed(U, ss, e, n, s)
  <2>1. \A k \in 1..n : ss[k] \in Seq(U)
    BY <1>4
  <2>2. e \in [0..n -> Nat] /\ e[0] = 0 /\ \A k \in 1..n : e[k] = e[k - 1] + Len(ss[k])
    BY <1>3, <1>4 DEF IsEnds
  <2> HIDE DEF U, e
  <2> QED
    BY <1>1, <1>5, <2>1, <2>2, FlattenPositions
<1>7. s \in Seq(U) /\ Len(s) = e[n]
  BY <1>6 DEF Placed
<1>8. ASSUME NEW b \in 1..n, NEW i \in 1..Len(blocks[b].calls)
      PROVE  /\ e[b - 1] + i \in 1..Len(s)
             /\ s[e[b - 1] + i] = [call |-> blocks[b].calls[i], kind |-> blocks[b].kind, block |-> b]
  <2>1. e[b - 1] + i <= e[n] /\ s[e[b - 1] + i] = ss[b][i]
    BY <1>4, <1>6 DEF Placed
  <2>2. e[b - 1] \in Nat /\ e[n] \in Nat
    <3>1. e \in [0..n -> Nat] /\ n \in Nat
      BY <1>1, <1>3 DEF IsEnds
    <3> HIDE DEF e, n
    <3>2. b - 1 \in 0..n /\ n \in 0..n
      BY <3>1
    <3> QED
      BY <3>1, <3>2
  <2>3. i \in Nat \ {0}
    BY <1>2
  <2>4. e[b - 1] + i \in 1..e[n]
    BY <2>1, <2>2, <2>3
  <2> QED
    BY <1>4, <1>7, <2>1, <2>4
<1>9. ASSUME NEW p \in 1..Len(s)
      PROVE  LET b == s[p].block
             IN  /\ b \in 1..n /\ p - e[b - 1] \in 1..Len(blocks[b].calls)
                 /\ s[p].kind = blocks[b].kind /\ s[p].call = blocks[b].calls[p - e[b - 1]]
  <2> DEFINE S == {b \in 0..n : p <= e[b]}
  <2>1. n \in S /\ S \subseteq Nat
    BY <1>1, <1>7
  <2>2. PICK b \in S : \A m \in S : b <= m
    <3> HIDE DEF S
    <3> QED
      BY <2>1, LeastExists
  <2>3. b # 0
    BY <1>3 DEF IsEnds
  <2>4. b \in 1..n /\ b - 1 \in 0..n /\ e[b - 1] \in Nat /\ e[b] \in Nat
    <3>1. e \in [0..n -> Nat] /\ n \in Nat
      BY <1>1, <1>3 DEF IsEnds
    <3> HIDE DEF e, n
    <3>2. b \in 1..n /\ b - 1 \in 0..n
      BY <2>3, <3>1
    <3> QED
      BY <3>1, <3>2
  <2>5. ~(p <= e[b - 1])
    BY <2>2, <2>4
  <2>6. e[b] = e[b - 1] + Len(blocks[b].calls) /\ p <= e[b]
    BY <1>3, <2>4 DEF IsEnds
  <2> DEFINE i == p - e[b - 1]
  <2>7. i \in 1..Len(blocks[b].calls) /\ e[b - 1] + i = p
    <3>1. p \in Nat /\ Len(blocks[b].calls) \in Nat
      BY <1>2, <2>4
    <3> DEFINE m == Len(blocks[b].calls)
               u == e[b - 1]
               v == e[b]
    <3>2. p \in Nat /\ m \in Nat /\ u \in Nat /\ v \in Nat /\ ~(p <= u) /\ v = u + m /\ p <= v
      BY <2>4, <2>5, <2>6, <3>1
    <3> HIDE DEF m, u, v
    <3>3. p - u \in 1..m /\ u + (p - u) = p
      BY <3>2
    <3> QED
      BY <3>3 DEF m, u
  <2>8. s[p] = [call |-> blocks[b].calls[i], kind |-> blocks[b].kind, block |-> b]
    <3> HIDE DEF i, s, e, S
    <3> QED
      BY <1>8, <2>4, <2>7
  <2>9. s[p].block = b /\ s[p].kind = blocks[b].kind /\ s[p].call = blocks[b].calls[i]
    <3> HIDE DEF s, i
    <3> QED
      BY <2>8
  <2> HIDE DEF s
  <2> QED
    BY <2>4, <2>7, <2>9
<1>10. Script(blocks) = s
  BY DEF Script, ss
<1> HIDE DEF s
<1> QED
  BY <1>7, <1>8, <1>9, <1>10 DEF Located

\* The blocks of a command, and its script.
LEMMA CommandScript ==
  ASSUME NEW cmd \in Commands
  PROVE  /\ BlocksOf(cmd) \in Seq([kind : Kinds, calls : Seq(Calls(cmd))])
         /\ \A b \in 1..Len(BlocksOf(cmd)) :
              BlocksOf(cmd)[b] \in PulseBlocks(cmd) \/ BlocksOf(cmd)[b].calls \in Lists(cmd)
         /\ PulseList(cmd) \in Seq(PulseCalls(cmd))
         /\ ScriptOf[cmd] = Script(BlocksOf(cmd)) /\ ScriptOf[cmd] \in Seq(Entries(cmd))
<1>1. PulseList(cmd) \in Seq(PulseCalls(cmd))
  <2> DEFINE c == cmd.pulse
             T == PulseCalls(cmd)
  <2>1. c \in Nat /\ {"fix", "step", "bus", 0, cmd.pins} \subseteq Vals(cmd) /\ {"mode", "source", ""} \subseteq Keys
    BY CommandFacts DEF Vals, Keys, TriggerKeys
  <2>2. \A op \in {"abort", "pins", "bus", "hold", "trigger", "trg"} : \A d \in Nat, key \in Keys, v \in Vals(cmd) :
          Call(op, d, key, v) \in Seq(T)
    <3> SUFFICES ASSUME NEW op \in {"abort", "pins", "bus", "hold", "trigger", "trg"},
                        NEW d \in Nat, NEW key \in Keys, NEW v \in Vals(cmd)
                 PROVE  Call(op, d, key, v) \in Seq(T)
      OBVIOUS
    <3>1. [op |-> op, ch |-> d, key |-> key, val |-> v] \in T
      BY DEF PulseCalls, Calls, Ops
    <3> QED
      BY <3>1 DEF Call
  <2>3. On("init", c) \in Seq(T)
    <3>1. [op |-> "init", ch |-> c, key |-> "", val |-> 0] \in T
      BY <2>1 DEF PulseCalls, Calls, Ops
    <3>2. \A x \in T : <<x>> \in Seq(T)
      OBVIOUS
    <3>3. <<[op |-> "init", ch |-> c, key |-> "", val |-> 0]>> \in Seq(T)
      BY <3>1, <3>2, Zenon
    <3> QED
      BY <3>3 DEF Call, On
  <2> HIDE DEF T
  <2>4. ConfigurePins(cmd.pins, FALSE) \in Seq(T)
    BY <2>1, <2>2, JoinLists, WhenList DEF ConfigurePins, On
  <2>5. Mode(c, "step") \in Seq(T) /\ Trigger(c, "source", "bus") \in Seq(T)
    BY <2>1, <2>2, JoinLists DEF Mode, Trigger
  <2>6. On("abort", c) \in Seq(T) /\ On("hold", c) \in Seq(T) /\ On("trg", 0) \in Seq(T)
    BY <2>1, <2>2 DEF On
  <2> QED
    BY <2>3, <2>4, <2>5, <2>6, JoinLists DEF PulseList, T
<1>2. Lists(cmd) \subseteq Seq(Calls(cmd)) /\ Seq(PulseCalls(cmd)) \subseteq Seq(Calls(cmd))
  BY DEF Lists, OwnCalls, PulseCalls
<1>3. Blocks(cmd) \subseteq [kind : Kinds, calls : Seq(Calls(cmd))]
  BY <1>1, <1>2 DEF Blocks, PulseBlocks, PulseBlock, Kinds
<1>4. BlocksOf(cmd) \in Seq(Blocks(cmd))
  BY BlocksFit
<1>5. \A b \in 1..Len(BlocksOf(cmd)) : BlocksOf(cmd)[b] \in Blocks(cmd)
  BY <1>4, ItsElements
<1>6. \A b \in 1..Len(BlocksOf(cmd)) : BlocksOf(cmd)[b] \in PulseBlocks(cmd) \/ BlocksOf(cmd)[b].calls \in Lists(cmd)
  BY <1>5 DEF Blocks
<1>7. BlocksOf(cmd) \in Seq([kind : Kinds, calls : Seq(Calls(cmd))])
  <2> DEFINE U == [kind : Kinds, calls : Seq(Calls(cmd))]
  <2>1. \A i \in 1..Len(BlocksOf(cmd)) : BlocksOf(cmd)[i] \in U
    BY <1>3, <1>5
  <2>2. Len(BlocksOf(cmd)) \in Nat /\ BlocksOf(cmd) \in [1..Len(BlocksOf(cmd)) -> Blocks(cmd)]
    BY <1>4, LenProperties
  <2> HIDE DEF U
  <2>3. BlocksOf(cmd) \in [1..Len(BlocksOf(cmd)) -> U]
    BY <2>1, <2>2
  <2>4. BlocksOf(cmd) \in Seq(U)
    BY <2>2, <2>3, IsSequence
  <2> QED
    BY <2>4 DEF U
<1>8. Script(BlocksOf(cmd)) \in Seq(Entries(cmd))
  BY <1>7, ScriptPlaces DEF Entries
<1> QED
  BY <1>1, <1>6, <1>7, <1>8 DEF ScriptOf

\* The least element of a set of naturals is the one it is defined to be.
LEMMA LeastIsMin ==
  ASSUME NEW S, S \subseteq Nat, S # {}
  PROVE  Min(S) \in S /\ \A x \in S : Min(S) <= x
BY LeastExists DEF Min

\* s from the entry after n on.
Onward(s, n) == SubSeq(s, n + 1, Len(s))

\* What is left of a sequence.
LEMMA Remainder ==
  ASSUME NEW T, NEW s \in Seq(T), NEW n \in 0..Len(s)
  PROVE  /\ Onward(s, n) \in Seq(T) /\ Len(Onward(s, n)) = Len(s) - n /\ DOMAIN Onward(s, n) = 1..Len(s) - n
         /\ \A p \in 1..Len(s) - n : n + p \in 1..Len(s) /\ Onward(s, n)[p] = s[n + p]
         /\ (Onward(s, n) = << >> <=> n = Len(s))
<1> DEFINE l == Len(s)
           r == Onward(s, n)
<1>1. l \in Nat /\ n \in Nat /\ n <= l /\ n + 1 \in Int /\ \A i \in n + 1..l : s[i] \in T
  BY ItsElements
<1>2. r \in Seq(T) /\ Len(r) = (IF n + 1 <= l THEN l - (n + 1) + 1 ELSE 0)
      /\ \A i \in 1..l - (n + 1) + 1 : r[i] = s[(n + 1) + i - 1]
  BY <1>1, SubSeqProperties DEF Onward
<1> HIDE DEF l, r
<1>3. Len(r) = l - n /\ DOMAIN r = 1..l - n
  <2>1. Len(r) = l - n
    BY <1>1, <1>2
  <2> QED
    BY <1>2, <2>1, ItsElements
<1>4. \A p \in 1..l - n : n + p \in 1..l /\ r[p] = s[n + p]
  <2> SUFFICES ASSUME NEW p \in 1..l - n PROVE n + p \in 1..l /\ r[p] = s[n + p]
    OBVIOUS
  <2>1. l - (n + 1) + 1 = l - n /\ (n + 1) + p - 1 = n + p /\ n + p \in 1..l
    BY <1>1
  <2> QED
    BY <1>2, <2>1
<1>5. r = << >> <=> n = l
  <2>1. r = << >> <=> Len(r) = 0
    BY <1>2, EmptySeq, LenProperties
  <2> QED
    BY <1>1, <1>3, <2>1
<1> QED
  BY <1>2, <1>3, <1>4, <1>5 DEF l, r

\* Nothing is left after the last.
LEMMA NothingLeft ==
  ASSUME NEW T, NEW s \in Seq(T), NEW n \in 0..Len(s)
  PROVE  Onward(s, n) = << >> <=> n = Len(s)
BY Remainder

\* A part of what is left is what is left later.
LEMMA PartOfRemainder ==
  ASSUME NEW T, NEW s \in Seq(T), NEW n \in 0..Len(s), NEW p \in 1..Len(s) - n
  PROVE  SubSeq(Onward(s, n), p, Len(Onward(s, n))) = Onward(s, n + p - 1)
<1> DEFINE l == Len(s)
           r == Onward(s, n)
<1>1. l \in Nat /\ n \in Nat /\ n <= l /\ Len(r) = l - n
  BY ItsElements, Remainder
<1> HIDE DEF l, r
<1>2. n + 1 \in 1..l /\ l \in 1..l /\ p \in 1..l - (n + 1) + 1 /\ l - n \in 1..l - (n + 1) + 1
      /\ (n + 1) + p - 1 = (n + p - 1) + 1 /\ (n + 1) + (l - n) - 1 = l
  BY <1>1 DEF l
<1>3. \A i \in 1..l, j \in 1..l : \A m \in 1..j - i + 1, k \in 1..j - i + 1 :
        SubSeq(SubSeq(s, i, j), m, k) = SubSeq(s, i + m - 1, i + k - 1)
  BY SubSeqOfSubSeq DEF l
<1>4. SubSeq(SubSeq(s, n + 1, l), p, l - n) = SubSeq(s, (n + 1) + p - 1, (n + 1) + (l - n) - 1)
  BY <1>2, <1>3
<1>5. SubSeq(r, p, l - n) = SubSeq(s, (n + p - 1) + 1, l)
  BY <1>2, <1>4 DEF r, l, Onward
<1> QED
  BY <1>1, <1>5 DEF Onward, l, r

\* What is passed over from n to m does not run.
Passed(s, n, m, calls, pend, fld) ==
  \A q \in calls : n + q <= m /\ (m < Len(s) \/ (pend = "none" /\ fld = FALSE)) =>
    ~Runs(s[n + q].kind, pend, fld) /\ (m < Len(s) => s[n + q].kind # "plain")

\* A command goes on at m, where it ran or passed over nothing it may run.
GoesTo(s, n, m, calls, pend, fld) ==
  /\ n < Len(s) => n < m
  /\ From(calls, pend, fld) = Onward(s, m)
  /\ m = Len(s) \/ (m - n + 1 \in calls /\ Runs(s[m + 1].kind, pend, fld))
  /\ \A p \in calls :
       (Runs(s[n + p].kind, pend, fld) /\ \A q \in calls : q < p => s[n + q].kind # "plain")
         => m < Len(s) /\ m + 1 <= n + p

\* Where a command goes on: at one of the calls it may go on with, the first
\* that runs unless a plain block that cannot run comes before it, or nowhere.
LEMMA GoesOn ==
  ASSUME NEW T, NEW s \in Seq(T), NEW n \in 0..Len(s),
         NEW calls, calls \subseteq 2..Len(s) - n, NEW pend, NEW fld
  PROVE  rest = Onward(s, n) =>
         \E m \in n..Len(s) : GoesTo(s, n, m, calls, pend, fld) /\ Passed(s, n, m, calls, pend, fld)
<1>0. /\ \A p \in 1..Len(s) - n : n + p \in 1..Len(s) /\ Onward(s, n)[p] = s[n + p]
      /\ \A p \in 1..Len(s) - n : SubSeq(Onward(s, n), p, Len(Onward(s, n))) = Onward(s, n + p - 1)
      /\ \A m \in 0..Len(s) : Onward(s, m) = << >> <=> m = Len(s)
  <2>1. \A p \in 1..Len(s) - n : n + p \in 1..Len(s) /\ Onward(s, n)[p] = s[n + p]
    BY Remainder
  <2>2. \A p \in 1..Len(s) - n : SubSeq(Onward(s, n), p, Len(Onward(s, n))) = Onward(s, n + p - 1)
    BY PartOfRemainder
  <2>3. \A m \in 0..Len(s) : Onward(s, m) = << >> <=> m = Len(s)
    BY Remainder
  <2> QED
    BY <2>1, <2>2, <2>3
<1> SUFFICES ASSUME rest = Onward(s, n)
             PROVE  \E m \in n..Len(s) :
                      /\ n < Len(s) => n < m
                      /\ From(calls, pend, fld) = Onward(s, m)
                      /\ m = Len(s) \/ (m - n + 1 \in calls /\ Runs(s[m + 1].kind, pend, fld))
                      /\ \A p \in calls :
                           (Runs(s[n + p].kind, pend, fld) /\ \A q \in calls : q < p => s[n + q].kind # "plain")
                             => m < Len(s) /\ m + 1 <= n + p
                      /\ Passed(s, n, m, calls, pend, fld)
  BY DEF GoesTo
<1> DEFINE l == Len(s)
           stops == {p \in calls : rest[p].kind = "plain" \/ Runs(rest[p].kind, pend, fld)}
           next == Min(stops)
<1>1. l \in Nat /\ n \in Nat /\ n <= l /\ \A p \in calls : p \in Nat /\ 2 <= p /\ p <= l - n /\ rest[p] = s[n + p]
  <2>1. l \in Nat /\ n \in Nat /\ n <= l
    BY ItsElements
  <2>2. \A p \in calls : p \in Nat /\ 2 <= p /\ p <= l - n /\ p \in 1..l - n
    BY <2>1 DEF l
  <2>3. \A p \in 1..l - n : Onward(s, n)[p] = s[n + p]
    BY <1>0
  <2> QED
    BY <2>1, <2>2, <2>3
<1>2. stops # {} => next \in stops /\ \A x \in stops : next <= x
  <2>1. stops \subseteq Nat
    BY <1>1
  <2> HIDE DEF stops
  <2> QED
    BY <2>1, LeastIsMin
<1>3. CASE stops = {} \/ ~Runs(rest[next].kind, pend, fld)
  <2>1. From(calls, pend, fld) = << >>
    BY <1>3 DEF From
  <2>2. l \in n..l /\ Onward(s, l) = << >>
    BY <1>0, <1>1 DEF l
  <2>3. ASSUME NEW p \in calls, Runs(s[n + p].kind, pend, fld),
               \A q \in calls : q < p => s[n + q].kind # "plain"
        PROVE  FALSE
    <3>1. p \in stops
      BY <1>1, <2>3
    <3>2. next \in stops /\ next <= p /\ next \in calls
      BY <1>2, <3>1
    <3>3. ~Runs(rest[next].kind, pend, fld) /\ rest[next].kind = "plain"
      BY <1>3, <3>1, <3>2
    <3>4. next # p /\ next < p
      <4>1. next # p
        BY <1>1, <2>3, <3>3
      <4>2. next \in Nat /\ p \in Nat
        BY <1>1, <3>2
      <4> QED
        BY <3>2, <4>1, <4>2
    <3> QED
      BY <1>1, <2>3, <3>2, <3>3, <3>4
  <2>4. ASSUME NEW q \in calls, pend = "none", fld = FALSE, Runs(s[n + q].kind, pend, fld) PROVE FALSE
    <3>1. q \in stops
      BY <1>1, <2>4
    <3>2. next \in stops /\ next \in calls /\ ~Runs(rest[next].kind, pend, fld)
      BY <1>2, <1>3, <3>1
    <3>3. rest[next].kind = "plain"
      BY <3>2
    <3> QED
      BY <2>4, <3>2, <3>3 DEF Runs
  <2>5. Passed(s, n, l, calls, pend, fld)
    <3>1. ~(l < l)
      BY <1>1
    <3> HIDE DEF stops, next
    <3> QED
      BY <2>4, <3>1 DEF Passed, l
  <2> QED
    BY <2>1, <2>2, <2>3, <2>5 DEF l
<1>4. CASE stops # {} /\ Runs(rest[next].kind, pend, fld)
  <2> DEFINE m == n + next - 1
  <2>1. next \in calls /\ (\A x \in stops : next <= x) /\ next \in Nat /\ 2 <= next /\ next <= l - n
    BY <1>1, <1>2, <1>4
  <2> HIDE DEF stops, next
  <2>2. From(calls, pend, fld) = SubSeq(rest, next, Len(rest))
    BY <1>4 DEF From, stops, next
  <2>3. next \in 1..l - n
    BY <1>1, <2>1
  <2>4. From(calls, pend, fld) = Onward(s, m)
    BY <1>0, <2>2, <2>3 DEF l
  <2>5. m \in n..l /\ n < m /\ m - n + 1 = next /\ m + 1 = n + next
    BY <1>1, <2>1
  <2>6. Runs(s[m + 1].kind, pend, fld)
    BY <1>1, <1>4, <2>1, <2>5
  <2>7. ASSUME NEW p \in calls, Runs(s[n + p].kind, pend, fld)
        PROVE  m < l /\ m + 1 <= n + p
    <3>1. p \in stops
      BY <1>1, <2>7 DEF stops
    <3> QED
      BY <1>1, <2>1, <2>5, <3>1
  <2>8. ASSUME NEW q \in calls, n + q <= m
        PROVE  ~Runs(s[n + q].kind, pend, fld) /\ s[n + q].kind # "plain"
    <3>1. q \notin stops
      BY <1>1, <2>1, <2>5, <2>8
    <3> QED
      BY <1>1, <3>1 DEF stops
  <2> HIDE DEF m
  <2>9. Passed(s, n, m, calls, pend, fld)
    BY <2>8 DEF Passed
  <2> QED
    BY <2>1, <2>4, <2>5, <2>6, <2>7, <2>9 DEF l
<1> QED
  BY <1>3, <1>4

-----------------------------------------------------------------------------
(* The way through a script                                                *)

script == ScriptOf[command]

\* A block ends after the first n calls.
Boundary(n) == script[n + 1].block # script[n].block

\* Where the command is: what a supply is, and that what is left of the script
\* is the end of it.
Sound ==
  /\ program \in Programs /\ index \in 1..Len(program)
  /\ Shape(inst) /\ Shape(before) /\ inst.model = command.model /\ before.model = command.model
  /\ phase \in {"opening", "identify"} => /\ inst = before /\ enabled = {} /\ pending = "none" /\ failed = FALSE
  /\ phase # "run" => rest = << >>
  /\ \E n \in 0..Len(script) : rest = Onward(script, n)
  /\ rest # << >> => Runs(block, pending, failed) \/ (pending = "none" /\ failed = FALSE)

\* How many of its calls are behind it.
at == Len(script) - Len(rest)

\* The command that runs is one of the commands.
LEMMA TheCommand ==
  ASSUME program \in Programs, index \in 1..Len(program)
  PROVE  /\ command \in Commands /\ script \in Seq(Entries(command)) /\ Len(script) \in Nat
         /\ \A i \in 1..Len(program) : program[i] \in Commands /\ program[i].model = command.model
<1>1. program \in Seq(Commands) /\ \A cmd \in ToSet(program) : cmd.model = program[1].model
  BY CommandsAssumption
<1>2. \A i \in 1..Len(program) : program[i] \in Commands /\ program[i] \in ToSet(program)
  BY <1>1, ItsElements DEF ToSet
<1>3. command \in Commands /\ \A i \in 1..Len(program) : program[i].model = command.model
  BY <1>1, <1>2 DEF command
<1>4. script \in Seq(Entries(command)) /\ Len(script) \in Nat
  BY <1>3, CommandScript, LenProperties DEF script
<1> QED
  BY <1>2, <1>3, <1>4

\* Where it is, and which call comes next.
LEMMA Whereabouts ==
  ASSUME Sound
  PROVE  /\ at \in 0..Len(script) /\ Len(script) \in Nat /\ rest = Onward(script, at)
         /\ (rest = << >> <=> at = Len(script)) /\ DOMAIN rest = 1..Len(script) - at
         /\ \A n \in 0..Len(script) : rest = Onward(script, n) => n = at
         /\ \A p \in 1..Len(script) - at : at + p \in 1..Len(script) /\ rest[p] = script[at + p]
         /\ rest # << >> => /\ at + 1 \in 1..Len(script) /\ call = script[at + 1].call
                            /\ block = script[at + 1].kind /\ rest[1] = script[at + 1]
<1>1. script \in Seq(Entries(command)) /\ Len(script) \in Nat
  BY TheCommand DEF Sound
<1>2. \A n \in 0..Len(script) : /\ Len(Onward(script, n)) = Len(script) - n
                                /\ (Onward(script, n) = << >> <=> n = Len(script))
                                /\ DOMAIN Onward(script, n) = 1..Len(script) - n
                                /\ \A p \in 1..Len(script) - n :
                                     n + p \in 1..Len(script) /\ Onward(script, n)[p] = script[n + p]
  BY <1>1, Remainder
<1>3. PICK n \in 0..Len(script) : rest = Onward(script, n)
  BY DEF Sound
<1>4. \A m \in 0..Len(script) : rest = Onward(script, m) => m = at
  BY <1>1, <1>2 DEF at
<1>5. n = at
  BY <1>3, <1>4
<1>6. at \in 0..Len(script) /\ rest = Onward(script, at)
  BY <1>3, <1>5
<1> HIDE DEF at
<1>7. /\ (rest = << >> <=> at = Len(script)) /\ DOMAIN rest = 1..Len(script) - at
      /\ \A p \in 1..Len(script) - at : at + p \in 1..Len(script) /\ rest[p] = script[at + p]
  BY <1>2, <1>6
<1>8. rest # << >> => 1 \in 1..Len(script) - at
  BY <1>1, <1>6, <1>7
<1> QED
  BY <1>1, <1>4, <1>6, <1>7, <1>8 DEF call, block

\* A call that returned is followed by the next one, if that one runs.
LEMMA OnProceed ==
  ASSUME Sound, Running, Proceed
  PROVE  \E m \in at + 1..Len(script) :
           /\ rest' = Onward(script, m)
           /\ m < Len(script) => Runs(script[m + 1].kind, pending', failed') /\ (m = at + 1 \/ Boundary(m))
           /\ at + 1 < Len(script) /\ Runs(script[at + 2].kind, pending', failed') => m = at + 1
<1> DEFINE l == Len(script)
           n == at
           calls == LaterBlocks \cup ({2} \cap DOMAIN rest)
<1>1. /\ script \in Seq(Entries(command)) /\ l \in Nat /\ n \in 0..l /\ rest = Onward(script, n) /\ n < l
      /\ DOMAIN rest = 1..l - n /\ \A p \in 1..l - n : rest[p] = script[n + p]
  <2>1. script \in Seq(Entries(command))
    BY TheCommand DEF Sound
  <2>2. /\ l \in Nat /\ n \in 0..l /\ rest = Onward(script, n) /\ n # l
        /\ DOMAIN rest = 1..l - n /\ \A p \in 1..l - n : rest[p] = script[n + p]
    BY Whereabouts DEF Running
  <2> QED
    BY <2>1, <2>2
<1>2. rest' = From(calls, pending, failed) /\ pending' = pending /\ failed' = failed
  BY DEF Proceed
<1> HIDE DEF n, l
<1>3. Len(rest) = l - n
  BY <1>1, Remainder DEF l
<1>4. calls \subseteq 2..l - n /\ (2 <= l - n => 2 \in calls)
      /\ \A p \in calls : p = 2 \/ rest[p].block # rest[p - 1].block
  BY <1>1, <1>3 DEF LaterBlocks
<1> HIDE DEF calls
<1>5. PICK m \in n..l :
        /\ n < l => n < m
        /\ From(calls, pending, failed) = Onward(script, m)
        /\ m = l \/ (m - n + 1 \in calls /\ Runs(script[m + 1].kind, pending, failed))
        /\ \A p \in calls :
             (Runs(script[n + p].kind, pending, failed) /\ \A q \in calls : q < p => script[n + q].kind # "plain")
               => m < l /\ m + 1 <= n + p
  <2>1. /\ script \in Seq(Entries(command)) /\ n \in 0..Len(script) /\ calls \subseteq 2..Len(script) - n
        /\ rest = Onward(script, n) /\ l = Len(script)
    BY <1>1, <1>4 DEF l
  <2>2. \E m \in n..Len(script) : GoesTo(script, n, m, calls, pending, failed)
    BY <2>1, GoesOn
  <2> QED
    BY <2>1, <2>2 DEF GoesTo
<1>6. m \in n + 1..l /\ rest' = Onward(script, m)
  BY <1>1, <1>2, <1>5
<1>7. m < l => Runs(script[m + 1].kind, pending, failed) /\ (m = n + 1 \/ Boundary(m))
  <2> SUFFICES ASSUME m < l PROVE Runs(script[m + 1].kind, pending, failed) /\ (m = n + 1 \/ Boundary(m))
    OBVIOUS
  <2>1. m - n + 1 \in calls /\ Runs(script[m + 1].kind, pending, failed)
    BY <1>1, <1>5
  <2>2. m - n + 1 = 2 \/ rest[m - n + 1].block # rest[(m - n + 1) - 1].block
    BY <1>4, <2>1
  <2>3. CASE m - n + 1 = 2
    BY <1>1, <1>6, <2>1, <2>3
  <2>4. CASE rest[m - n + 1].block # rest[(m - n + 1) - 1].block
    <3>1. m - n + 1 \in 1..l - n /\ (m - n + 1) - 1 \in 1..l - n /\ n + (m - n + 1) = m + 1
          /\ n + ((m - n + 1) - 1) = m
      BY <1>1, <1>6
    <3>2. rest[m - n + 1] = script[m + 1] /\ rest[(m - n + 1) - 1] = script[m]
      BY <1>1, <3>1
    <3> QED
      BY <2>1, <2>4, <3>2 DEF Boundary
  <2> QED
    BY <2>2, <2>3, <2>4
<1>8. n + 1 < l /\ Runs(script[n + 2].kind, pending, failed) => m = n + 1
  <2> SUFFICES ASSUME n + 1 < l, Runs(script[n + 2].kind, pending, failed) PROVE m = n + 1
    OBVIOUS
  <2>1. 2 \in calls /\ \A q \in calls : ~(q < 2)
    BY <1>1, <1>4
  <2>2. m + 1 <= n + 2
    BY <1>5, <2>1
  <2> QED
    BY <1>1, <1>6, <2>2
<1> QED
  BY <1>2, <1>6, <1>7, <1>8 DEF l, n

\* An exception skips the rest of the block, or of the command.
LEMMA OnThrow ==
  ASSUME Sound, Running, NEW kind, Throw(kind)
  PROVE  \E m \in at + 1..Len(script) :
           /\ rest' = Onward(script, m)
           /\ block \in {"plain", "cleanup"} => m = Len(script)
           /\ m < Len(script) => Runs(script[m + 1].kind, pending', failed') /\ Boundary(m)
           /\ block \notin {"plain", "cleanup"} =>
                \A j \in at + 1..Len(script) - 1 :
                  (Boundary(j) /\ Runs(script[j + 1].kind, pending', failed')
                     /\ \A i \in at + 1..j - 1 : ~Boundary(i)) => m = j
<1> DEFINE l == Len(script)
           n == at
           calls == LaterBlocks
<1>1. /\ script \in Seq(Entries(command)) /\ l \in Nat /\ n \in 0..l /\ rest = Onward(script, n) /\ n < l
      /\ DOMAIN rest = 1..l - n /\ \A p \in 1..l - n : rest[p] = script[n + p]
  <2>1. script \in Seq(Entries(command))
    BY TheCommand DEF Sound
  <2>2. /\ l \in Nat /\ n \in 0..l /\ rest = Onward(script, n) /\ n # l
        /\ DOMAIN rest = 1..l - n /\ \A p \in 1..l - n : rest[p] = script[n + p]
    BY Whereabouts DEF Running
  <2> QED
    BY <2>1, <2>2
<1> HIDE DEF n, l
<1>2. CASE block \in {"plain", "cleanup"}
  <2>1. rest' = << >>
    BY <1>2 DEF Throw
  <2>2. l \in n + 1..l
    BY <1>1
  <2>3. Onward(script, l) = << >>
    BY <1>1, Remainder DEF l
  <2> QED
    BY <1>1, <1>2, <2>1, <2>2, <2>3 DEF l, n
<1>3. CASE block \notin {"plain", "cleanup"}
  <2>1. rest' = From(calls, pending', failed')
    BY <1>3 DEF Throw
  <2>2. Len(rest) = l - n
    BY <1>1, Remainder DEF l
  <2>3. calls \subseteq 2..l - n /\ \A p \in 2..l - n : p \in calls <=> rest[p].block # rest[p - 1].block
    BY <1>1, <2>2 DEF LaterBlocks
  <2> HIDE DEF calls
  <2>4. PICK m \in n..l :
          /\ n < l => n < m
          /\ From(calls, pending', failed') = Onward(script, m)
          /\ m = l \/ (m - n + 1 \in calls /\ Runs(script[m + 1].kind, pending', failed'))
          /\ \A p \in calls :
               (Runs(script[n + p].kind, pending', failed') /\ \A q \in calls : q < p => script[n + q].kind # "plain")
                 => m < l /\ m + 1 <= n + p
    <3>1. /\ script \in Seq(Entries(command)) /\ n \in 0..Len(script) /\ calls \subseteq 2..Len(script) - n
          /\ rest = Onward(script, n) /\ l = Len(script)
      BY <1>1, <2>3 DEF l
    <3>2. \E m \in n..Len(script) : GoesTo(script, n, m, calls, pending', failed')
      BY <3>1, GoesOn
    <3> QED
      BY <3>1, <3>2 DEF GoesTo
  <2>5. m \in n + 1..l /\ rest' = Onward(script, m)
    BY <1>1, <2>1, <2>4
  <2>6. \A p \in 2..l - n : p \in calls <=> Boundary(n + p - 1)
    <3> SUFFICES ASSUME NEW p \in 2..l - n PROVE p \in calls <=> Boundary(n + p - 1)
      OBVIOUS
    <3>1. p \in 1..l - n /\ p - 1 \in 1..l - n /\ n + (p - 1) = n + p - 1 /\ (n + p - 1) + 1 = n + p
      BY <1>1
    <3>2. rest[p] = script[(n + p - 1) + 1] /\ rest[p - 1] = script[n + p - 1]
      BY <1>1, <3>1
    <3> QED
      BY <2>3, <3>2 DEF Boundary
  <2>7. m < l => Runs(script[m + 1].kind, pending', failed') /\ Boundary(m)
    <3>1. m < l => m - n + 1 \in 2..l - n /\ n + (m - n + 1) - 1 = m
      BY <1>1, <2>5
    <3> QED
      BY <2>4, <2>5, <2>6, <3>1
  <2>8. ASSUME NEW j \in n + 1..l - 1, Boundary(j), Runs(script[j + 1].kind, pending', failed'),
               \A i \in n + 1..j - 1 : ~Boundary(i)
        PROVE  m = j
    <3> DEFINE p == j - n + 1
    <3>0. l \in Nat /\ n \in Nat /\ j \in Nat /\ n + 1 <= j /\ j <= l - 1
      BY <1>1
    <3>1. p \in 2..l - n /\ n + p - 1 = j /\ n + p = j + 1
      BY <3>0
    <3>2. p \in calls /\ Runs(script[n + p].kind, pending', failed')
      BY <2>6, <2>8, <3>1
    <3>3. \A q \in calls : ~(q < p)
      <4> SUFFICES ASSUME NEW q \in calls, q < p PROVE FALSE
        OBVIOUS
      <4>0. q \in 2..l - n
        BY <2>3
      <4>1. n + q - 1 \in n + 1..j - 1
        BY <3>0, <3>1, <4>0
      <4> QED
        BY <2>6, <2>8, <4>0, <4>1
    <3> HIDE DEF p
    <3>4. m < l /\ m + 1 <= n + p
      BY <2>4, <3>2, <3>3
    <3>5. Boundary(m) /\ m <= j
      BY <1>1, <2>5, <2>7, <3>1, <3>4
    <3>6. m # j => m \in n + 1..j - 1
      BY <1>1, <2>5, <3>5
    <3> QED
      BY <2>8, <3>5, <3>6
  <2> QED
    BY <1>3, <2>5, <2>7, <2>8 DEF l, n
<1> QED
  BY <1>2, <1>3

-----------------------------------------------------------------------------
(* Steps                                                                   *)

\* A step of the command keeps the supply a supply.
LEMMA SupplyKept ==
  ASSUME Shape(inst), [Next]_vars
  PROVE  Shape(inst') /\ inst'.model = inst.model
<1>1. CASE inst' = inst
  BY <1>1
<1>2. CASE inst' = After
  BY <1>2, AfterAlters
<1>3. CASE Refuse
  <2>1. inst' \in {inst, ReadErrorQueue(inst)}
    BY <1>3 DEF Refuse
  <2> QED
    BY <2>1, BusAlters DEF Alters
<1>4. CASE Reject
  <2>1. inst' = [inst EXCEPT !.queued = TRUE]
    BY <1>4 DEF Reject
  <2> QED
    BY <2>1 DEF Shape, Parts
<1>5. CASE Astray
  <2>1. PICK c, key, v : inst' = [WriteSetting(inst, c, key, v) EXCEPT !.queued = TRUE]
    BY <1>5 DEF Astray
  <2>2. Shape(WriteSetting(inst, c, key, v)) /\ WriteSetting(inst, c, key, v).model = inst.model
    BY SettingAlters DEF Alters
  <2> HIDE DEF WriteSetting
  <2> QED
    BY <2>1, <2>2 DEF Shape, Parts
<1>6. CASE \E c \in DOMAIN inst.on : Trip(c)
  <2>1. PICK c \in DOMAIN inst.on : inst' = [inst EXCEPT !.on[c] = FALSE, !.tripped[c] = TRUE]
    BY <1>6 DEF Trip
  <2> QED
    BY <2>1 DEF Shape, Parts
<1>7. CASE \E c \in DOMAIN inst.on : Settle(c)
  <2>1. PICK c \in DOMAIN inst.on : inst' = [inst EXCEPT !.init[c] = "idle"]
    BY <1>7 DEF Settle
  <2> QED
    BY <2>1 DEF Shape, Parts
<1>8. Open \/ Identified \/ NotOpened \/ NextCommand \/ Completed \/ WaitFails \/ Return \/ RequestStop
        \/ UNCHANGED vars => inst' = inst
  BY DEF Open, Identified, NotOpened, NextCommand, Completed, WaitFails, Return, RequestStop, vars
<1>9. Perform => inst' = After
  BY DEF Perform
<1>10. Raise => inst' = inst \/ inst' = After
  BY DEF Raise
<1> QED
  BY <1>1, <1>2, <1>3, <1>4, <1>5, <1>6, <1>7, <1>8, <1>9, <1>10 DEF Next

\* The steps of a command: a call returns, raises, or the command stays where
\* it is in its script.
LEMMA HowItMoves ==
  ASSUME Sound, [Next]_vars, index' = index
  PROVE  \/ Running /\ Proceed
         \/ Running /\ \E kind : Throw(kind)
         \/ UNCHANGED <<program, index, phase, rest, pending, failed>>
         \/ /\ UNCHANGED <<program, index, pending, failed, enabled, inst, before>> /\ phase \in {"opening", "identify"}
            /\ \/ phase' = "run" /\ rest' = script
               \/ phase' \in {"identify", "ended"} /\ rest' = rest
         \/ Return
<1>1. Open \/ Identified \/ NotOpened =>
        /\ UNCHANGED <<program, index, pending, failed, enabled, inst, before>> /\ phase \in {"opening", "identify"}
        /\ \/ phase' = "run" /\ rest' = script
           \/ phase' \in {"identify", "ended"} /\ rest' = rest
  BY DEF Open, Identified, NotOpened, Begin, End, script, data
<1>2. ~NextCommand
  <2>1. index \in Nat
    BY TheCommand DEF Sound
  <2> QED
    BY <2>1 DEF NextCommand
<1>3. Perform \/ Completed \/ Reject \/ Astray => Running /\ Proceed
  BY DEF Perform, Completed, Reject, Astray
<1>4. Refuse \/ WaitFails \/ Raise => Running /\ \E kind : Throw(kind)
  BY DEF Refuse, WaitFails, Raise
<1>5. RequestStop \/ (\E c \in DOMAIN inst.on : Trip(c) \/ Settle(c)) \/ UNCHANGED vars =>
        UNCHANGED <<program, index, phase, rest, pending, failed>>
  BY DEF RequestStop, Trip, Settle, vars, control
<1> QED
  BY <1>1, <1>2, <1>3, <1>4, <1>5 DEF Next

\* What a step within a command leaves alone, and the memory of what hit it.
LEMMA SameCommand ==
  ASSUME Sound, [Next]_vars, index' = index
  PROVE  before' = before /\ program' = program /\ command' = command /\ script' = script /\ hits \subseteq hits'
<1>1. ~NextCommand
  <2>1. index \in Nat
    BY TheCommand DEF Sound
  <2> QED
    BY <2>1 DEF NextCommand
<1>2. Open \/ Identified \/ NotOpened \/ Return \/ RequestStop \/ UNCHANGED vars
        => before' = before /\ program' = program /\ hits \subseteq hits'
  BY DEF Open, Identified, NotOpened, Return, RequestStop, Disturb, vars, control, data
<1>3. Perform \/ Reject \/ Astray => before' = before /\ program' = program /\ hits \subseteq hits'
  BY DEF Perform, Reject, Astray, Proceed, Disturb
<1>4. Refuse \/ Completed \/ WaitFails \/ Raise => before' = before /\ program' = program /\ hits \subseteq hits'
  BY DEF Refuse, Completed, WaitFails, Raise, Proceed, Throw, Disturb
<1>5. (\E c \in DOMAIN inst.on : Trip(c) \/ Settle(c)) => before' = before /\ program' = program /\ hits \subseteq hits'
  BY DEF Trip, Settle, Disturb, control
<1>6. before' = before /\ program' = program /\ hits \subseteq hits'
  BY <1>1, <1>2, <1>3, <1>4, <1>5 DEF Next
<1> QED
  BY <1>6 DEF command, script

\* The start of a command.
LEMMA InitSound == Init => Sound
<1> SUFFICES ASSUME Init PROVE Sound
  OBVIOUS
<1>1. program \in Programs /\ index = 1 /\ inst = Supply(command.model) /\ before = inst /\ rest = << >>
      /\ phase = "opening" /\ enabled = {} /\ pending = "none" /\ failed = FALSE
  BY DEF Init
<1>2. program \in Seq(Commands) \ {<< >>}
  BY <1>1, CommandsAssumption
<1>3. 1 \in 1..Len(program)
  BY <1>2, EmptySeq, LenProperties
<1>4. Shape(inst) /\ inst.model = command.model
  BY <1>1 DEF Supply, Shape, Parts
<1>5. \E n \in 0..Len(script) : rest = Onward(script, n)
  <2>1. script \in Seq(Entries(command)) /\ Len(script) \in Nat
    BY <1>1, <1>3, TheCommand
  <2>2. Len(script) \in 0..Len(script)
    BY <2>1
  <2>3. Onward(script, Len(script)) = << >>
    BY <2>1, <2>2, Remainder
  <2> QED
    BY <1>1, <2>2, <2>3
<1> QED
  BY <1>1, <1>3, <1>4, <1>5 DEF Sound

\* Every step keeps it.
LEMMA StepSound == Sound /\ [Next]_vars => Sound'
<1> SUFFICES ASSUME Sound, [Next]_vars PROVE Sound'
  OBVIOUS
<1>1. Shape(inst') /\ inst'.model = command.model
  BY SupplyKept DEF Sound
<1>2. /\ script \in Seq(Entries(command)) /\ Len(script) \in Nat /\ index \in Nat
      /\ \A i \in 1..Len(program) : program[i] \in Commands /\ program[i].model = command.model
  BY TheCommand DEF Sound
<1>3. program' = program
  BY DEF Next, Open, Identified, NotOpened, NextCommand, Perform, Refuse, Completed, WaitFails, Raise, Reject,
         Astray, Return, RequestStop, Trip, Settle, Proceed, Throw, control, vars
<1>4. CASE index' # index
  <2>1. NextCommand
    BY <1>4 DEF Next, Open, Identified, NotOpened, Perform, Refuse, Completed, WaitFails, Raise, Reject,
                Astray, Return, RequestStop, Trip, Settle, Proceed, Throw, control, vars
  <2>2. index' = index + 1 /\ index < Len(program) /\ rest' = << >> /\ before' = inst /\ inst' = inst /\ enabled' = {}
        /\ pending' = "none" /\ failed' = FALSE /\ phase' = "opening"
    BY <2>1 DEF NextCommand
  <2>3. index' \in 1..Len(program') /\ Len(program) \in Nat
    <3>1. program \in Seq(Commands)
      BY CommandsAssumption DEF Sound
    <3>2. Len(program) \in Nat
      BY <3>1, LenProperties
    <3> QED
      BY <1>2, <1>3, <2>2, <3>2
  <2>4. command' \in Commands /\ command'.model = command.model
    BY <1>2, <1>3, <2>3 DEF command
  <2>5. \E n \in 0..Len(script') : rest' = Onward(script', n)
    <3>1. script' = ScriptOf[command']
      BY DEF script
    <3>2. script' \in Seq(Entries(command'))
      BY <2>4, <3>1, CommandScript
    <3> HIDE DEF script
    <3>3. Len(script') \in Nat
      BY <3>2, LenProperties
    <3>4. Len(script') \in 0..Len(script')
      BY <3>3
    <3>5. Onward(script', Len(script')) = << >>
      BY <3>2, <3>4, Remainder
    <3> QED
      BY <2>2, <3>4, <3>5
  <2>6. program' \in Programs
    BY <1>3 DEF Sound
  <2>7. Shape(before') /\ before'.model = command'.model /\ inst'.model = command'.model /\ Shape(inst')
        /\ inst' = before'
    BY <1>1, <2>2, <2>4 DEF Sound
  <2> QED
    BY <2>2, <2>3, <2>5, <2>6, <2>7 DEF Sound
<1>5. CASE index' = index
  <2>1. command' = command /\ script' = script
    BY <1>3, <1>5 DEF command, script
  <2>2. before' = before
    BY <1>5, SameCommand
  <2>3. program' \in Programs /\ index' \in 1..Len(program') /\ Shape(inst') /\ Shape(before')
        /\ inst'.model = command'.model /\ before'.model = command'.model
    BY <1>1, <1>3, <1>5, <2>1, <2>2 DEF Sound
  <2>4. \/ Running /\ Proceed
        \/ Running /\ \E kind : Throw(kind)
        \/ UNCHANGED <<program, index, phase, rest, pending, failed>>
        \/ /\ UNCHANGED <<program, index, pending, failed, enabled, inst, before>> /\ phase \in {"opening", "identify"}
           /\ \/ phase' = "run" /\ rest' = script
              \/ phase' \in {"identify", "ended"} /\ rest' = rest
        \/ Return
    BY <1>5, HowItMoves
  <2>5. CASE Running /\ (Proceed \/ \E kind : Throw(kind))
    <3>1. phase' = phase /\ phase = "run"
      BY <2>5 DEF Running, Proceed, Throw
    <3>2. PICK m \in at + 1..Len(script) :
            /\ rest' = Onward(script, m)
            /\ m < Len(script) => Runs(script[m + 1].kind, pending', failed')
      BY <2>5, OnProceed, OnThrow
    <3>3. m \in 0..Len(script)
      <4>1. at \in 0..Len(script)
        BY Whereabouts
      <4> QED
        BY <1>2, <4>1
    <3>4. rest' # << >> => Runs(block', pending', failed')
      <4> SUFFICES ASSUME rest' # << >> PROVE Runs(block', pending', failed')
        OBVIOUS
      <4>1. Onward(script, m) # << >>
        BY <3>2
      <4>2. m # Len(script) /\ \A p \in 1..Len(script) - m : Onward(script, m)[p] = script[m + p]
        <5>1. Onward(script, m) = << >> <=> m = Len(script)
          BY <1>2, <3>3, NothingLeft
        <5>2. \A p \in 1..Len(script) - m : Onward(script, m)[p] = script[m + p]
          BY <1>2, <3>3, Remainder
        <5> QED
          BY <4>1, <5>1, <5>2
      <4>3. 1 \in 1..Len(script) - m /\ m < Len(script)
        BY <1>2, <3>3, <4>2
      <4>4. rest'[1] = script[m + 1]
        BY <3>2, <4>2, <4>3
      <4> QED
        BY <3>2, <4>3, <4>4 DEF block
    <3>5. \E n \in 0..Len(script') : rest' = Onward(script', n)
      BY <2>1, <3>2, <3>3
    <3> QED
      BY <2>3, <3>1, <3>4, <3>5 DEF Sound
  <2>6. CASE UNCHANGED <<program, index, phase, rest, pending, failed>>
    <3>1. \E n \in 0..Len(script') : rest' = Onward(script', n)
      BY <2>1, <2>6 DEF Sound
    <3>2. rest' # << >> => Runs(block', pending', failed') \/ (pending' = "none" /\ failed' = FALSE)
      BY <2>6 DEF Sound, block
    <3>3. phase' \in {"opening", "identify"} =>
            inst' = before' /\ enabled' = {} /\ pending' = "none" /\ failed' = FALSE
      <4> SUFFICES ASSUME phase' \in {"opening", "identify"}
                   PROVE  inst' = before' /\ enabled' = {} /\ pending' = "none" /\ failed' = FALSE
        OBVIOUS
      <4>1. phase \in {"opening", "identify"} /\ rest = << >> /\ inst = before /\ enabled = {} /\ pending = "none"
            /\ failed = FALSE
        BY <2>6 DEF Sound
      <4>2. inst' = inst /\ enabled' = enabled
        BY <1>5, <1>2, <4>1, <2>6 DEF Next, Open, Identified, NotOpened, NextCommand, Perform, Refuse, Completed, WaitFails,
             Raise, Reject, Astray, Return, RequestStop, Trip, Settle, Running, vars, data
      <4> QED
        BY <2>2, <2>6, <4>1, <4>2
    <3>4. phase' # "run" => rest' = << >>
      BY <2>6 DEF Sound
    <3> QED
      BY <2>3, <3>1, <3>2, <3>3, <3>4 DEF Sound
  <2>7. CASE /\ UNCHANGED <<program, index, pending, failed, enabled, inst, before>> /\ phase \in {"opening", "identify"}
             /\ \/ phase' = "run" /\ rest' = script
                \/ phase' \in {"identify", "ended"} /\ rest' = rest
    <3>1. \E n \in 0..Len(script') : rest' = Onward(script', n)
      <4>1. Onward(script, 0) = script /\ 0 \in 0..Len(script)
        BY <1>2, SubSeqFull DEF Onward
      <4> QED
        BY <2>1, <2>7, <4>1 DEF Sound
    <3>2. inst = before /\ enabled = {} /\ pending = "none" /\ failed = FALSE /\ rest = << >>
      BY <2>7 DEF Sound
    <3> QED
      BY <2>3, <2>7, <3>1, <3>2 DEF Sound
  <2>8. CASE Return
    <3>1. phase' = "ended" /\ rest' = rest /\ rest = << >>
      BY <2>8 DEF Return, End
    <3>2. \E n \in 0..Len(script') : rest' = Onward(script', n)
      BY <2>1, <3>1 DEF Sound
    <3> QED
      BY <2>3, <3>1, <3>2 DEF Sound
  <2> QED
    BY <2>4, <2>5, <2>6, <2>7, <2>8
<1> QED
  BY <1>4, <1>5

\* The supply is a supply, and what is left of a script is the end of it.
THEOREM AlwaysSound == Spec => []Sound
BY InitSound, StepSound, PTL DEF Spec


-----------------------------------------------------------------------------
(* Outputs that are on for a while                                         *)

Temporary == {"cycle-output", "smoke-output"}

\* A sequence that goes on after x, y and z with elements of R.
GoesOnWith(x, y, z, R, s) ==
  /\ Len(s) \in Nat /\ 3 <= Len(s)
  /\ s[1] = x /\ s[2] = y /\ s[3] = z
  /\ \A b \in 4..Len(s) : s[b] \in R

\* Three of them, one after the other.
LEMMA ThreeInARow ==
  ASSUME NEW T, NEW R, NEW x \in T, NEW y \in T, NEW z \in T
  PROVE  <<x>> \o <<y>> \o <<z>> \in Seq(T) /\ GoesOnWith(x, y, z, R, <<x>> \o <<y>> \o <<z>>)
<1>1. \A e \in T : <<e>> \in Seq(T) /\ Len(<<e>>) = 1 /\ <<e>>[1] = e
  OBVIOUS
<1>2. <<x>> \o <<y>> \in Seq(T) /\ Len(<<x>> \o <<y>>) = 2 /\ (<<x>> \o <<y>>)[1] = x /\ (<<x>> \o <<y>>)[2] = y
  <2>1. /\ <<x>> \o <<y>> \in Seq(T) /\ Len(<<x>> \o <<y>>) = Len(<<x>>) + Len(<<y>>)
        /\ \A i \in 1..Len(<<x>>) : (<<x>> \o <<y>>)[i] = <<x>>[i]
        /\ \A i \in 1..Len(<<y>>) : (<<x>> \o <<y>>)[Len(<<x>>) + i] = <<y>>[i]
    BY <1>1, JoinPositions
  <2> QED
    BY <1>1, <2>1
<1> DEFINE s == <<x>> \o <<y>>
           last == <<z>>
<1> HIDE DEF s, last
<1>3. s \o last \in Seq(T) /\ Len(s \o last) = 3 /\ (s \o last)[1] = x /\ (s \o last)[2] = y
      /\ (s \o last)[3] = z
  <2>1. s \in Seq(T) /\ last \in Seq(T) /\ Len(s) = 2 /\ s[1] = x /\ s[2] = y /\ Len(last) = 1 /\ last[1] = z
    BY <1>1, <1>2 DEF s, last
  <2>2. /\ s \o last \in Seq(T) /\ Len(s \o last) = Len(s) + Len(last)
        /\ \A i \in 1..Len(s) : (s \o last)[i] = s[i]
        /\ \A i \in 1..Len(last) : (s \o last)[Len(s) + i] = last[i]
    <3>1. s \in Seq(T) /\ last \in Seq(T)
      BY <2>1
    <3> QED
      BY <3>1, JoinPositions
  <2> QED
    BY <2>1, <2>2
<1> QED
  BY <1>3 DEF GoesOnWith, s, last

\* More of what may follow.
LEMMA MoreOfIt ==
  ASSUME NEW T, NEW R, R \subseteq T, NEW x, NEW y, NEW z, NEW s \in Seq(T), GoesOnWith(x, y, z, R, s), NEW t \in Seq(R)
  PROVE  s \o t \in Seq(T) /\ GoesOnWith(x, y, z, R, s \o t)
<1>1. t \in Seq(T) /\ Len(t) \in Nat /\ \A i \in 1..Len(t) : t[i] \in R
  <2>1. Len(t) \in Nat /\ t \in [1..Len(t) -> R]
    BY LenProperties
  <2>2. t \in [1..Len(t) -> T]
    BY <2>1
  <2> QED
    BY <2>1, <2>2, IsSequence
<1>2. Len(s) \in Nat /\ 3 <= Len(s)
  BY DEF GoesOnWith
<1>3. /\ s \o t \in Seq(T) /\ Len(s \o t) = Len(s) + Len(t)
      /\ \A i \in 1..Len(s) : (s \o t)[i] = s[i]
      /\ \A i \in 1..Len(t) : (s \o t)[Len(s) + i] = t[i]
  BY <1>1, JoinPositions
<1>4. ASSUME NEW b \in 4..Len(s) + Len(t) PROVE (s \o t)[b] \in R
  <2>1. CASE b <= Len(s)
    <3>1. b \in 1..Len(s) /\ b \in 4..Len(s)
      BY <1>1, <1>2, <2>1
    <3> QED
      BY <1>3, <3>1 DEF GoesOnWith
  <2>2. CASE b > Len(s)
    <3>1. b - Len(s) \in 1..Len(t) /\ Len(s) + (b - Len(s)) = b
      BY <1>1, <1>2, <2>2
    <3> QED
      BY <1>1, <1>3, <3>1
  <2> QED
    BY <1>1, <1>2, <2>1, <2>2
<1>5. (s \o t)[1] = x /\ (s \o t)[2] = y /\ (s \o t)[3] = z
  <2>1. 1 \in 1..Len(s) /\ 2 \in 1..Len(s) /\ 3 \in 1..Len(s)
    BY <1>2
  <2> QED
    BY <1>3, <2>1 DEF GoesOnWith
<1>6. Len(s \o t) \in Nat /\ 3 <= Len(s \o t)
  BY <1>1, <1>2, <1>3
<1> QED
  BY <1>3, <1>4, <1>5, <1>6 DEF GoesOnWith

\* One element for each, flattened.
LEMMA FlatSingles ==
  ASSUME NEW T, NEW n \in Nat, NEW f \in [1..n -> T]
  PROVE  LET s == FlattenSeq([i \in 1..n |-> <<f[i]>>])
         IN  s \in Seq(T) /\ Len(s) = n /\ \A i \in 1..n : s[i] = f[i]
<1> DEFINE ss == [i \in 1..n |-> <<f[i]>>]
           o == [k \in 0..n |-> k]
<1>1. \A k \in 1..n : ss[k] \in Seq(T) /\ Len(ss[k]) = 1 /\ ss[k][1] = f[k]
  OBVIOUS
<1>2. ss \in [1..n -> Seq(T)]
  <2> SUFFICES ASSUME NEW k \in 1..n PROVE <<f[k]>> \in Seq(T)
    OBVIOUS
  <2> QED
    OBVIOUS
<1> HIDE DEF ss
<1>3. Len(ss) = n /\ (n = 0 => ss = << >>)
  <2>1. ss \in Seq(Seq(T)) /\ Len(ss) = n
    BY <1>2, IsSequence
  <2> QED
    BY <2>1, EmptySeq, LenProperties
<1>4. o \in [0..n -> Nat] /\ o[0] = 0 /\ \A k \in 1..n : o[k] = o[k - 1] + Len(ss[k])
  <2>1. o \in [0..n -> Nat] /\ o[0] = 0
    OBVIOUS
  <2>2. \A k \in 1..n : k \in 0..n /\ k - 1 \in 0..n /\ k = (k - 1) + 1
    OBVIOUS
  <2>3. \A k \in 1..n : o[k] = o[k - 1] + 1
    BY <2>2
  <2> QED
    BY <1>1, <2>1, <2>3
<1>5. \A k \in 1..n : o[k - 1] + 1 = k /\ o[n] = n
  OBVIOUS
<1>6. o[n] = n
  OBVIOUS
<1> HIDE DEF o
<1>7. Placed(T, ss, o, n, FlattenSeq(ss))
  BY <1>1, <1>3, <1>4, FlattenPositions
<1>8. FlattenSeq(ss) \in Seq(T) /\ Len(FlattenSeq(ss)) = n
  BY <1>6, <1>7 DEF Placed
<1>9. ASSUME NEW k \in 1..n PROVE FlattenSeq(ss)[k] = f[k]
  <2>1. 1 \in 1..Len(ss[k])
    BY <1>1
  <2>2. FlattenSeq(ss)[o[k - 1] + 1] = ss[k][1]
    BY <1>7, <2>1 DEF Placed
  <2> QED
    BY <1>1, <1>5, <2>2
<1> QED
  BY <1>8, <1>9 DEF ss

\* The blocks of a command that switches outputs on for a while: a plain one,
\* one that switches on under a try, the cleanup that switches off, channel
\* by channel, what output_on returned for, and nothing that switches.
InThree(blocks) ==
  /\ Len(blocks) \in Nat /\ 3 <= Len(blocks)
  /\ blocks[1].kind = "plain" /\ blocks[2].kind = "try" /\ blocks[3].kind = "cleanup"
  /\ Len(blocks[3].calls) \in Nat \ {0}
  /\ \A i \in 1..Len(blocks[3].calls) : blocks[3].calls[i].op = "offenabled"
  /\ \A i, j \in 1..Len(blocks[3].calls) : i < j => blocks[3].calls[i].ch < blocks[3].calls[j].ch
  /\ \A b \in 1..Len(blocks) : \A i \in 1..Len(blocks[b].calls) :
       blocks[b].calls[i].op \in {"on", "onifwas"} =>
          /\ blocks[b].calls[i].op = "on" /\ b = 2
          /\ \E j \in 1..Len(blocks[3].calls) : blocks[3].calls[j].ch = blocks[b].calls[i].ch


\* The calls that switch on nothing but these channels.
OnFor(cmd, n, chs) == {k \in Calls(cmd) : k.op # "onifwas" /\ (k.op = "on" => \E j \in 1..n : k.ch = chs[j])}

\* A plain block, a try that switches channels on, and the cleanup for them.
OnAndOff(cmd, n, chs, first, ons, offs) ==
  /\ n \in Nat \ {0} /\ chs \in [1..n -> Nat] /\ \A i, j \in 1..n : i < j => chs[i] < chs[j]
  /\ first.kind = "plain" /\ ons.kind = "try" /\ offs.kind = "cleanup"
  /\ first.calls \in Quiet(cmd) /\ ons.calls \in Seq(OnFor(cmd, n, chs))
  /\ offs.calls \in Seq(Calls(cmd)) /\ Len(offs.calls) = n
  /\ \A i \in 1..n : offs.calls[i].op = "offenabled" /\ offs.calls[i].ch = chs[i]

\* They and a quiet rest.
LEMMA ThreeBlocks ==
  ASSUME NEW cmd \in Commands, NEW n, NEW chs, NEW first, NEW ons, NEW offs, NEW s,
         OnAndOff(cmd, n, chs, first, ons, offs), GoesOnWith(first, ons, offs, QuietBlocks(cmd), s)
  PROVE  InThree(s)
<1> USE DEF OnAndOff
<1>1. Len(s) \in Nat /\ 3 <= Len(s) /\ s[1] = first /\ s[2] = ons /\ s[3] = offs
      /\ \A b \in 4..Len(s) : s[b] \in QuietBlocks(cmd)
  BY DEF GoesOnWith
<1>2. \A q \in Quiet(cmd) : \A i \in 1..Len(q) : q[i].op \notin {"on", "onifwas"}
  <2> SUFFICES ASSUME NEW q \in Quiet(cmd), NEW i \in 1..Len(q) PROVE q[i].op \notin {"on", "onifwas"}
    OBVIOUS
  <2>1. q[i] \in HarmlessCalls(cmd)
    BY ItsElements DEF Quiet
  <2> QED
    BY <2>1 DEF HarmlessCalls, Harmless, Switches
<1>3. \A i \in 1..Len(PulseList(cmd)) : PulseList(cmd)[i].op \notin {"on", "onifwas"}
  <2> SUFFICES ASSUME NEW i \in 1..Len(PulseList(cmd)) PROVE PulseList(cmd)[i].op \notin {"on", "onifwas"}
    OBVIOUS
  <2>1. PulseList(cmd) \in Seq(PulseCalls(cmd))
    BY CommandScript
  <2>2. PulseList(cmd)[i] \in PulseCalls(cmd)
    BY <2>1, ItsElements
  <2> QED
    BY <2>2 DEF PulseCalls
<1>4. ASSUME NEW b \in 1..Len(s), b # 2, NEW i \in 1..Len(s[b].calls) PROVE s[b].calls[i].op \notin {"on", "onifwas"}
  <2>1. CASE b = 1
    BY <1>1, <1>2, <2>1
  <2>2. CASE b = 3
    BY <1>1, <2>2
  <2>3. CASE b \notin {1, 3}
    <3>1. b \in 4..Len(s)
      BY <1>1, <1>4, <2>3
    <3>2. s[b] \in QuietBlocks(cmd)
      BY <1>1, <3>1
    <3>3. s[b].calls \in Quiet(cmd) \/ s[b].calls = PulseList(cmd)
      BY <3>2 DEF QuietBlocks, PulseBlocks, PulseBlock
    <3> QED
      BY <1>2, <1>3, <3>3
  <2> QED
    BY <2>1, <2>2, <2>3
<1>5. ASSUME NEW i \in 1..Len(ons.calls)
      PROVE  ons.calls[i].op # "onifwas" /\ (ons.calls[i].op = "on" => \E j \in 1..n : ons.calls[i].ch = chs[j])
  <2>1. ons.calls[i] \in OnFor(cmd, n, chs)
    BY ItsElements
  <2> QED
    BY <2>1 DEF OnFor
<1>6. \A b \in 1..Len(s) : \A i \in 1..Len(s[b].calls) :
        s[b].calls[i].op \in {"on", "onifwas"} =>
          /\ s[b].calls[i].op = "on" /\ b = 2
          /\ \E j \in 1..Len(s[3].calls) : s[3].calls[j].ch = s[b].calls[i].ch
  <2> SUFFICES ASSUME NEW b \in 1..Len(s), NEW i \in 1..Len(s[b].calls), s[b].calls[i].op \in {"on", "onifwas"}
               PROVE  /\ s[b].calls[i].op = "on" /\ b = 2
                      /\ \E j \in 1..Len(s[3].calls) : s[3].calls[j].ch = s[b].calls[i].ch
    OBVIOUS
  <2>1. b = 2
    BY <1>4
  <2>2. s[b].calls[i].op = "on" /\ \E j \in 1..n : s[b].calls[i].ch = chs[j]
    BY <1>1, <1>5, <2>1
  <2> QED
    BY <1>1, <2>1, <2>2
<1>7. \A i, j \in 1..n : i < j => s[3].calls[i].ch < s[3].calls[j].ch
  BY <1>1
<1> QED
  BY <1>1, <1>6, <1>7 DEF InThree

\* The cleanup: what output_on returned for is switched off, in order.
LEMMA SwitchedOffInOrder ==
  ASSUME NEW cmd \in Commands
  PROVE  LET s == Each(cmd.channels, SwitchOffEnabled)
         IN  /\ s \in Seq(Calls(cmd)) /\ Len(s) = Len(cmd.channels)
             /\ \A i \in 1..Len(cmd.channels) : s[i].op = "offenabled" /\ s[i].ch = cmd.channels[i]
<1> DEFINE n == Len(cmd.channels)
           f == [i \in 1..n |-> [op |-> "offenabled", ch |-> cmd.channels[i], key |-> "", val |-> 0]]
<1>1. n \in Nat /\ DOMAIN cmd.channels = 1..n /\ \A i \in 1..n : cmd.channels[i] \in Nat
  BY CommandFacts
<1>2. f \in [1..n -> Calls(cmd)]
  BY <1>1 DEF Calls, Ops, Keys, Vals
<1>3. Each(cmd.channels, SwitchOffEnabled) = FlattenSeq([i \in 1..n |-> <<f[i]>>])
  BY <1>1 DEF Each, SwitchOffEnabled, On, Call
<1>4. \A i \in 1..n : f[i].op = "offenabled" /\ f[i].ch = cmd.channels[i]
  OBVIOUS
<1> DEFINE s == FlattenSeq([i \in 1..n |-> <<f[i]>>])
<1>5. s \in Seq(Calls(cmd)) /\ Len(s) = n /\ \A i \in 1..n : s[i] = f[i]
  <2> DEFINE T == Calls(cmd)
  <2>1. n \in Nat /\ f \in [1..n -> T]
    BY <1>1, <1>2
  <2> HIDE DEF f, n, T
  <2>2. s \in Seq(T) /\ Len(s) = n /\ \A i \in 1..n : s[i] = f[i]
    BY <2>1, FlatSingles
  <2> QED
    BY <2>2 DEF T
<1>6. Each(cmd.channels, SwitchOffEnabled) = s
  BY <1>3
<1> HIDE DEF f, s
<1> QED
  BY <1>4, <1>5, <1>6 DEF n

\* cycle-output switches its channels on, and those off again.
LEMMA CycleInThree ==
  ASSUME NEW cmd \in Commands, cmd.name = "cycle-output"
  PROVE  InThree(CycleOutput(cmd))
<1> DEFINE T == Blocks(cmd) \cup [kind : Kinds, calls : Seq(Calls(cmd))]
           R == QuietBlocks(cmd)
           n == Len(cmd.channels)
           reads == Each(cmd.channels, Read)
           ons == Each(cmd.channels, LAMBDA d : Poll \o SwitchOn(cmd, d))
           offs == Each(cmd.channels, SwitchOffEnabled)
           x == [kind |-> "plain", calls |-> Poll \o reads]
           y == [kind |-> "try", calls |-> ons \o Poll]
           z == [kind |-> "cleanup", calls |-> offs]
           K == OnFor(cmd, n, cmd.channels)
<1>1. /\ n \in Nat \ {0} /\ cmd.channels \in [1..n -> Nat]
      /\ \A i, j \in 1..n : i < j => cmd.channels[i] < cmd.channels[j]
      /\ ToSet(cmd.channels) = {cmd.channels[j] : j \in 1..n}
  <2>1. n \in Nat \ {0} /\ DOMAIN cmd.channels = 1..n /\ Admitted(cmd)
        /\ cmd.channels \in Seq(ChannelsOf(cmd.model)) /\ ChannelsOf(cmd.model) \subseteq Nat
    BY CommandFacts DEF Admitted
  <2>2. cmd.channels \in [1..n -> ChannelsOf(cmd.model)]
    BY <2>1, LenProperties
  <2> QED
    BY <2>1, <2>2 DEF Admitted, ToSet
<1>2. Poll \o reads \in Quiet(cmd)
  <2> DEFINE f == [i \in DOMAIN cmd.channels |-> Read(cmd.channels[i])]
  <2>1. f \in [1..n -> Quiet(cmd)] /\ Poll \in Quiet(cmd)
    BY <1>1, FirstChannel, QuietPieces
  <2>2. FlattenSeq(f) \in Quiet(cmd)
    <3> HIDE DEF f
    <3> QED
      BY <1>1, <2>1, FlatList DEF Quiet
  <2> QED
    BY <2>1, <2>2, JoinLists DEF Quiet, Each
<1>3. ons \o Poll \in Seq(K)
  <2>1. ons \o Poll \in Lists(cmd)
    <3>1. ons \in Lists(cmd) /\ Poll \in Lists(cmd)
      BY ChannelLists, FirstChannel, TriggerPieces, MildLists
    <3> HIDE DEF ons
    <3> QED
      BY <3>1, JoinLists DEF Lists
  <2>2. OwnCalls(cmd) \subseteq K
    BY <1>1 DEF OwnCalls, Addresses, Switches, OnFor
  <2> HIDE DEF K, ons
  <2> QED
    BY <2>1, <2>2 DEF Lists
<1>4. offs \in Seq(Calls(cmd)) /\ Len(offs) = n
      /\ \A i \in 1..n : offs[i].op = "offenabled" /\ offs[i].ch = cmd.channels[i]
  BY SwitchedOffInOrder
<1>5. CycleOutput(cmd) = <<x>> \o <<y>> \o <<z>> \o Finish(cmd)
  BY DEF CycleOutput, Plain, Try, Cleanup, Block
<1>6. R \subseteq T
  BY QuietLists DEF QuietBlocks, Blocks
<1>7. Quiet(cmd) \subseteq Seq(Calls(cmd)) /\ Seq(K) \subseteq Seq(Calls(cmd))
  BY DEF Quiet, HarmlessCalls, OnFor
<1> HIDE DEF reads, ons, offs, K
<1>8. x \in T /\ y \in T /\ z \in T
  <2>1. {"plain", "try", "cleanup"} \subseteq Kinds
    BY DEF Kinds
  <2> QED
    BY <1>2, <1>3, <1>4, <1>7, <2>1
<1>9. GoesOnWith(x, y, z, R, CycleOutput(cmd))
  <2> HIDE DEF T, R, x, y, z
  <2>1. <<x>> \o <<y>> \o <<z>> \in Seq(T) /\ GoesOnWith(x, y, z, R, <<x>> \o <<y>> \o <<z>>)
    BY <1>8, ThreeInARow
  <2>2. Finish(cmd) \in Seq(R)
    BY FinishQuiet DEF R
  <2> DEFINE s == <<x>> \o <<y>> \o <<z>>
  <2>3. CycleOutput(cmd) = s \o Finish(cmd) /\ s \in Seq(T) /\ GoesOnWith(x, y, z, R, s)
    BY <1>5, <2>1
  <2> HIDE DEF s
  <2> QED
    BY <1>6, <2>2, <2>3, MoreOfIt
<1>10. x.kind = "plain" /\ y.kind = "try" /\ z.kind = "cleanup" /\ x.calls = Poll \o reads
       /\ y.calls = ons \o Poll /\ z.calls = offs
  OBVIOUS
<1> HIDE DEF T, x, y, z, n
<1>11. OnAndOff(cmd, n, cmd.channels, x, y, z)
  BY <1>1, <1>2, <1>3, <1>4, <1>10 DEF OnAndOff, K
<1>12. GoesOnWith(x, y, z, QuietBlocks(cmd), CycleOutput(cmd))
  BY <1>9 DEF R
<1> QED
  BY <1>11, <1>12, ThreeBlocks


\* smoke-output switches its first channel on, and off again.
LEMMA SmokeInThree ==
  ASSUME NEW cmd \in Commands, cmd.name = "smoke-output"
  PROVE  InThree(SmokeOutput(cmd))
<1> DEFINE T == Blocks(cmd) \cup [kind : Kinds, calls : Seq(Calls(cmd))]
           R == QuietBlocks(cmd)
           c == cmd.channels[1]
           chs == [i \in 1..1 |-> c]
           ons == WritePair(cmd, c) \o SwitchOn(cmd, c) \o Poll \o Read(c)
           offs == SwitchOffEnabled(c)
           x == [kind |-> "plain", calls |-> Poll]
           y == [kind |-> "try", calls |-> ons]
           z == [kind |-> "cleanup", calls |-> offs]
           w == [kind |-> "plain", calls |-> Read(c)]
           K == OnFor(cmd, 1, chs)
<1>1. c \in ToSet(cmd.channels) /\ c \in Nat
  BY FirstChannel
<1>2. Poll \in Quiet(cmd) /\ Read(c) \in Quiet(cmd)
  BY <1>1, QuietPieces
<1>3. ons \in Seq(K)
  <2>1. \A op \in {"set", "prepare", "on", "poll", "read"}, key \in Keys, v \in Vals(cmd) : Call(op, c, key, v) \in Seq(K)
    <3> SUFFICES ASSUME NEW op \in {"set", "prepare", "on", "poll", "read"}, NEW key \in Keys, NEW v \in Vals(cmd)
                 PROVE  Call(op, c, key, v) \in Seq(K)
      OBVIOUS
    <3>1. [op |-> op, ch |-> c, key |-> key, val |-> v] \in Calls(cmd)
      BY <1>1 DEF Calls, Ops
    <3>2. [op |-> op, ch |-> c, key |-> key, val |-> v] \in K
      BY <3>1 DEF OnFor
    <3>3. \A e \in K : <<e>> \in Seq(K)
      <4> HIDE DEF K
      <4> QED
        OBVIOUS
    <3>4. <<[op |-> op, ch |-> c, key |-> key, val |-> v]>> \in Seq(K)
      BY <3>2, <3>3, Zenon
    <3> QED
      BY <3>4 DEF Call
  <2>2. Poll \in Seq(K)
    <3>1. HarmlessCalls(cmd) \subseteq K
      BY DEF HarmlessCalls, Harmless, Switches, OnFor
    <3> HIDE DEF K
    <3> QED
      BY <1>2, <3>1 DEF Quiet
  <2>3. {"voltage", "current", "given", ""} \subseteq Keys /\ 0 \in Vals(cmd)
    BY DEF Keys, Settings, Vals
  <2>4. None \in Given(cmd) /\ cmd.values["voltage"] \in Given(cmd) /\ cmd.values["current"] \in Given(cmd)
        /\ Given(cmd) \subseteq Vals(cmd) /\ \A v, i \in Given(cmd) : <<v, i>> \in Vals(cmd)
    <3>1. "voltage" \in Settings /\ "current" \in Settings
      BY DEF Settings
    <3> QED
      BY <3>1, CommandFacts
  <2> HIDE DEF K, c
  <2>5. \A v, i \in Given(cmd) : Prepare(c, v, i) \in Seq(K)
    BY <2>1, <2>3, <2>4 DEF Prepare
  <2>6. /\ Write(c, "voltage", cmd.values["voltage"]) \in Seq(K)
        /\ Write(c, "current", cmd.values["current"]) \in Seq(K)
        /\ On("on", c) \in Seq(K) /\ Read(c) \in Seq(K)
    BY <2>1, <2>3, <2>4 DEF Write, On, Read
  <2>7. Prepare(c, cmd.values["voltage"], cmd.values["current"]) \in Seq(K) /\ Prepare(c, None, None) \in Seq(K)
    BY <2>4, <2>5
  <2>8. WritePair(cmd, c) \in Seq(K)
    BY <2>6, <2>7, JoinLists, WhenList DEF WritePair
  <2>9. SwitchOn(cmd, c) \in Seq(K)
    BY <2>6, <2>7, JoinLists, WhenList DEF SwitchOn
  <2> QED
    BY <2>2, <2>6, <2>8, <2>9, JoinLists
<1>4. offs \in Seq(Calls(cmd)) /\ Len(offs) = 1
      /\ \A i \in 1..1 : offs[i].op = "offenabled" /\ offs[i].ch = chs[i]
  <2> DEFINE k == [op |-> "offenabled", ch |-> c, key |-> "", val |-> 0]
  <2>1. k \in Calls(cmd)
    BY <1>1 DEF Calls, Ops, Keys, Vals
  <2>2. \A e \in Calls(cmd) : <<e>> \in Seq(Calls(cmd)) /\ Len(<<e>>) = 1 /\ <<e>>[1] = e
    OBVIOUS
  <2>3. offs = <<k>>
    BY DEF SwitchOffEnabled, On, Call
  <2>4. k.op = "offenabled" /\ k.ch = c /\ \A i \in 1..1 : i = 1 /\ chs[i] = c
    OBVIOUS
  <2> HIDE DEF k, chs, offs
  <2> QED
    BY <2>1, <2>2, <2>3, <2>4
<1>5. SmokeOutput(cmd) = <<x>> \o <<y>> \o <<z>> \o <<w>> \o Finish(cmd)
  BY DEF SmokeOutput, Plain, Try, Cleanup, Block
<1>6. R \subseteq T
  BY QuietLists DEF QuietBlocks, Blocks
<1>7. Quiet(cmd) \subseteq Seq(Calls(cmd)) /\ Seq(K) \subseteq Seq(Calls(cmd))
  BY DEF Quiet, HarmlessCalls, OnFor
<1>8. 1 \in Nat \ {0} /\ chs \in [1..1 -> Nat] /\ \A i, j \in 1..1 : i < j => chs[i] < chs[j]
  BY <1>1
<1> HIDE DEF ons, offs, K, chs
<1>9. x \in T /\ y \in T /\ z \in T /\ w \in R
  <2>1. {"plain", "try", "cleanup"} \subseteq Kinds
    BY DEF Kinds
  <2> QED
    BY <1>2, <1>3, <1>4, <1>7, <2>1 DEF QuietBlocks
<1>10. GoesOnWith(x, y, z, R, SmokeOutput(cmd))
  <2> HIDE DEF T, R, x, y, z, w
  <2>1. <<x>> \o <<y>> \o <<z>> \in Seq(T) /\ GoesOnWith(x, y, z, R, <<x>> \o <<y>> \o <<z>>)
    BY <1>9, ThreeInARow
  <2>2. Finish(cmd) \in Seq(R) /\ <<w>> \in Seq(R)
    BY <1>9, FinishQuiet DEF R
  <2> DEFINE s == <<x>> \o <<y>> \o <<z>>
             more == <<w>>
  <2>3. SmokeOutput(cmd) = s \o more \o Finish(cmd) /\ s \in Seq(T) /\ GoesOnWith(x, y, z, R, s) /\ more \in Seq(R)
    BY <1>5, <2>1, <2>2
  <2> HIDE DEF s, more
  <2>4. s \o more \in Seq(T) /\ GoesOnWith(x, y, z, R, s \o more)
    BY <1>6, <2>3, MoreOfIt
  <2> DEFINE r == s \o more
  <2>5. SmokeOutput(cmd) = r \o Finish(cmd) /\ r \in Seq(T) /\ GoesOnWith(x, y, z, R, r)
    BY <2>3, <2>4
  <2> HIDE DEF r
  <2> QED
    BY <1>6, <2>2, <2>5, MoreOfIt
<1>11. x.kind = "plain" /\ y.kind = "try" /\ z.kind = "cleanup" /\ x.calls = Poll /\ y.calls = ons /\ z.calls = offs
  OBVIOUS
<1> HIDE DEF T, x, y, z
<1>12. OnAndOff(cmd, 1, chs, x, y, z)
  BY <1>2, <1>3, <1>4, <1>8, <1>11 DEF OnAndOff, K
<1>13. GoesOnWith(x, y, z, QuietBlocks(cmd), SmokeOutput(cmd))
  BY <1>10 DEF R
<1> QED
  BY <1>12, <1>13, ThreeBlocks

\* Both.
LEMMA TemporaryInThree ==
  ASSUME NEW cmd \in Commands, cmd.name \in Temporary
  PROVE  InThree(BlocksOf(cmd))
BY CycleInThree, SmokeInThree DEF Temporary, BlocksOf

\* Where the switching is in the script of such a command: up to one the plain
\* block, up to two the try, up to three the cleanup.
SwitchesWithin(cmd, one, two, three, n, chs) ==
  /\ one \in Nat /\ two \in Nat /\ three \in Nat /\ n \in Nat \ {0} /\ one <= two /\ three = two + n
  /\ three <= Len(ScriptOf[cmd])
  /\ \A i, j \in 1..n : chs[i] \in Nat /\ (i < j => chs[i] < chs[j])
  /\ \A p \in 1..one : ScriptOf[cmd][p].kind = "plain"
  /\ \A p \in one + 1..two : ScriptOf[cmd][p].kind = "try" /\ ScriptOf[cmd][p].block = 2
  /\ \A p \in two + 1..three : /\ ScriptOf[cmd][p].kind = "cleanup" /\ ScriptOf[cmd][p].block = 3
                               /\ ScriptOf[cmd][p].call.op = "offenabled" /\ ScriptOf[cmd][p].call.ch = chs[p - two]
  /\ \A p \in 1..Len(ScriptOf[cmd]) :
       ScriptOf[cmd][p].call.op \in {"on", "onifwas"} =>
         /\ ScriptOf[cmd][p].call.op = "on" /\ p \in one + 1..two
         /\ \E j \in 1..n : chs[j] = ScriptOf[cmd][p].call.ch

\* A place within a part, from the place within the whole.
LEMMA Offset ==
  ASSUME NEW a \in Nat, NEW m \in Nat
  PROVE  \A p \in a + 1..a + m : p - a \in 1..m /\ a + (p - a) = p
OBVIOUS

\* Where the calls of a command are in its script.
LEMMA CommandPlaces ==
  ASSUME NEW cmd \in Commands
  PROVE  LET B == BlocksOf(cmd)
             e == Ends(B)
             s == ScriptOf[cmd]
         IN  /\ Len(B) \in Nat /\ \A b \in 1..Len(B) : B[b].calls \in Seq(Calls(cmd)) /\ Len(B[b].calls) \in Nat
             /\ e \in [0..Len(B) -> Nat] /\ e[0] = 0 /\ \A b \in 1..Len(B) : e[b] = e[b - 1] + Len(B[b].calls)
             /\ Len(s) \in Nat /\ \A b \in 0..Len(B) : e[b] <= Len(s)
             /\ \A b \in 1..Len(B) : \A i \in 1..Len(B[b].calls) :
                    /\ e[b - 1] + i \in 1..Len(s) /\ s[e[b - 1] + i].call = B[b].calls[i]
                    /\ s[e[b - 1] + i].kind = B[b].kind /\ s[e[b - 1] + i].block = b
             /\ \A p \in 1..Len(s) : \E b \in 1..Len(B) : \E i \in 1..Len(B[b].calls) : p = e[b - 1] + i
<1> DEFINE B == BlocksOf(cmd)
           e == Ends(B)
           s == ScriptOf[cmd]
<1>1. B \in Seq([kind : Kinds, calls : Seq(Calls(cmd))]) /\ s = Script(B) /\ e = Ends(B) /\ s \in Seq(Entries(cmd))
  BY CommandScript
<1> HIDE DEF B, e, s
<1>2. Len(B) \in Nat /\ \A b \in 1..Len(B) : B[b].calls \in Seq(Calls(cmd)) /\ Len(B[b].calls) \in Nat
  <2>1. Len(B) \in Nat /\ \A b \in 1..Len(B) : B[b] \in [kind : Kinds, calls : Seq(Calls(cmd))]
    BY <1>1, ItsElements
  <2>2. \A b \in 1..Len(B) : B[b].calls \in Seq(Calls(cmd))
    BY <2>1
  <2>3. \A b \in 1..Len(B) : Len(B[b].calls) \in Nat
    BY <2>2, LenProperties
  <2> QED
    BY <2>1, <2>2, <2>3
<1>3. IsEnds(e, B) /\ \A b \in 0..Len(B) : e[b] <= e[Len(B)]
  BY <1>1, EndsExist
<1>4. Len(s) \in Nat
  BY <1>1, LenProperties
<1>5. /\ Len(s) = e[Len(B)]
      /\ \A b \in 1..Len(B) : \A i \in 1..Len(B[b].calls) :
              /\ e[b - 1] + i \in 1..Len(s)
              /\ s[e[b - 1] + i] = [call |-> B[b].calls[i], kind |-> B[b].kind, block |-> b]
      /\ \A p \in 1..Len(s) : s[p].block \in 1..Len(B) /\ p - e[s[p].block - 1] \in 1..Len(B[s[p].block].calls)
  <2>1. B \in Seq([kind : Kinds, calls : Seq(Calls(cmd))])
    BY <1>1
  <2>2. Located(B)
    BY <2>1, ScriptPlaces
  <2> QED
    BY <1>1, <2>2 DEF Located
<1>6. ASSUME NEW p \in 1..Len(s) PROVE \E b \in 1..Len(B) : \E i \in 1..Len(B[b].calls) : p = e[b - 1] + i
  <2> DEFINE b == s[p].block
             i == p - e[b - 1]
  <2>1. b \in 1..Len(B) /\ i \in 1..Len(B[b].calls)
    BY <1>5
  <2>2. e[b - 1] \in Nat
    <3>1. b - 1 \in 0..Len(B) /\ e \in [0..Len(B) -> Nat]
      BY <1>2, <1>3, <2>1 DEF IsEnds
    <3> QED
      BY <3>1
  <2>3. p = e[b - 1] + i
    BY <1>4, <2>2
  <2> QED
    BY <2>1, <2>3
<1>7. /\ e \in [0..Len(B) -> Nat] /\ e[0] = 0 /\ \A b \in 1..Len(B) : e[b] = e[b - 1] + Len(B[b].calls)
      /\ \A b \in 0..Len(B) : e[b] <= Len(s)
  BY <1>3, <1>5 DEF IsEnds
<1>8. \A b \in 1..Len(B) : \A i \in 1..Len(B[b].calls) :
        /\ e[b - 1] + i \in 1..Len(s) /\ s[e[b - 1] + i].call = B[b].calls[i]
        /\ s[e[b - 1] + i].kind = B[b].kind /\ s[e[b - 1] + i].block = b
  <2> SUFFICES ASSUME NEW b \in 1..Len(B), NEW i \in 1..Len(B[b].calls)
               PROVE  /\ e[b - 1] + i \in 1..Len(s) /\ s[e[b - 1] + i].call = B[b].calls[i]
                      /\ s[e[b - 1] + i].kind = B[b].kind /\ s[e[b - 1] + i].block = b
    OBVIOUS
  <2>1. e[b - 1] + i \in 1..Len(s)
        /\ s[e[b - 1] + i] = [call |-> B[b].calls[i], kind |-> B[b].kind, block |-> b]
    BY <1>5
  <2> QED
    BY <2>1
<1> QED
  BY <1>2, <1>4, <1>6, <1>7, <1>8 DEF B, e, s

\* The places of a command that switches on for a while.
LEMMA TemporaryScript ==
  ASSUME NEW cmd \in Commands, cmd.name \in Temporary
  PROVE  \E one, two, three, n, chs : SwitchesWithin(cmd, one, two, three, n, chs)
<1> DEFINE B == BlocksOf(cmd)
           e == Ends(B)
           s == ScriptOf[cmd]
           n == Len(B[3].calls)
           chs == [i \in 1..n |-> B[3].calls[i].ch]
<1>1. InThree(B)
  BY TemporaryInThree
<1>2. /\ Len(B) \in Nat /\ \A b \in 1..Len(B) : B[b].calls \in Seq(Calls(cmd)) /\ Len(B[b].calls) \in Nat
      /\ e \in [0..Len(B) -> Nat] /\ e[0] = 0 /\ \A b \in 1..Len(B) : e[b] = e[b - 1] + Len(B[b].calls)
      /\ Len(s) \in Nat /\ \A b \in 0..Len(B) : e[b] <= Len(s)
      /\ \A b \in 1..Len(B) : \A i \in 1..Len(B[b].calls) :
             /\ e[b - 1] + i \in 1..Len(s) /\ s[e[b - 1] + i].call = B[b].calls[i]
             /\ s[e[b - 1] + i].kind = B[b].kind /\ s[e[b - 1] + i].block = b
      /\ \A p \in 1..Len(s) : \E b \in 1..Len(B) : \E i \in 1..Len(B[b].calls) : p = e[b - 1] + i
  BY CommandPlaces
<1> HIDE DEF B, e, s
<1>5. 1 \in 1..Len(B) /\ 2 \in 1..Len(B) /\ 3 \in 1..Len(B) /\ 3 \in 0..Len(B) /\ Len(B) \in Nat
  BY <1>1 DEF InThree
<1>6. /\ Len(B[1].calls) \in Nat /\ Len(B[2].calls) \in Nat /\ n \in Nat \ {0}
      /\ \A i \in 1..n : B[3].calls[i].ch \in Nat
  <2>1. B[3].calls \in Seq(Calls(cmd))
    BY <1>2, <1>5
  <2>2. \A i \in 1..n : B[3].calls[i] \in Calls(cmd)
    BY <2>1, ItsElements
  <2> QED
    BY <1>1, <1>2, <1>5, <2>2 DEF InThree, Calls
<1> DEFINE one == e[1]
           two == e[2]
           three == e[3]
           l == Len(B[2].calls)
<1>7. /\ one = Len(B[1].calls) /\ two = one + l /\ three = two + n /\ three <= Len(s)
      /\ one \in Nat /\ two \in Nat /\ three \in Nat /\ l \in Nat /\ e[0] = 0 /\ n \in Nat
  <2>1. \A b \in 1..Len(B) : e[b] = e[b - 1] + Len(B[b].calls)
    BY <1>2
  <2>2. e[0] = 0 /\ 1 - 1 = 0 /\ 2 - 1 = 1 /\ 3 - 1 = 2
    BY <1>2
  <2>3. one = e[1 - 1] + Len(B[1].calls) /\ two = e[2 - 1] + Len(B[2].calls) /\ three = e[3 - 1] + n
    BY <1>5, <2>1
  <2>4. one = 0 + Len(B[1].calls) /\ two = one + l /\ three = two + n
    BY <2>2, <2>3
  <2>5. three <= Len(s)
    BY <1>2, <1>5
  <2> HIDE DEF one, two, three, l, n
  <2>6. Len(B[1].calls) \in Nat /\ l \in Nat /\ n \in Nat
    BY <1>6 DEF l
  <2> QED
    BY <2>2, <2>4, <2>5, <2>6
<1>8. e[1 - 1] = 0 /\ e[2 - 1] = one /\ e[3 - 1] = two
  <2>1. 1 - 1 = 0 /\ 2 - 1 = 1 /\ 3 - 1 = 2
    OBVIOUS
  <2>2. e[0] = 0
    BY <1>2
  <2> QED
    BY <2>1, <2>2
<1>9. ASSUME NEW p \in 1..one PROVE s[p].kind = "plain"
  <2>1. p \in 1..Len(B[1].calls) /\ 0 + p = p
    BY <1>7
  <2>2. s[e[1 - 1] + p].kind = B[1].kind
    BY <1>2, <1>5, <2>1
  <2> QED
    BY <1>1, <1>8, <2>1, <2>2 DEF InThree
<1> HIDE DEF one, two, three
<1>10. ASSUME NEW p \in one + 1..two PROVE s[p].kind = "try" /\ s[p].block = 2
  <2>1. p - one \in 1..l /\ one + (p - one) = p
    BY <1>7, Offset
  <2>2. \A i \in 1..l : s[e[2 - 1] + i].kind = B[2].kind /\ s[e[2 - 1] + i].block = 2
    BY <1>2, <1>5
  <2>3. s[one + (p - one)].kind = B[2].kind /\ s[one + (p - one)].block = 2
    BY <1>8, <2>1, <2>2
  <2> QED
    BY <1>1, <2>1, <2>3 DEF InThree
<1>11. ASSUME NEW p \in two + 1..three
       PROVE  s[p].kind = "cleanup" /\ s[p].block = 3 /\ s[p].call.op = "offenabled" /\ s[p].call.ch = chs[p - two]
  <2>0. p - two \in 1..n /\ two + (p - two) = p
    <3>1. two \in Nat /\ n \in Nat /\ three = two + n
      BY <1>7
    <3> HIDE DEF n
    <3> QED
      BY <3>1, Offset
  <2> DEFINE i == p - two
  <2>1. i \in 1..n /\ two + i = p
    BY <2>0
  <2> HIDE DEF i
  <2>2. \A j \in 1..n : /\ s[e[3 - 1] + j].kind = B[3].kind /\ s[e[3 - 1] + j].block = 3
                         /\ s[e[3 - 1] + j].call = B[3].calls[j]
    BY <1>2, <1>5
  <2>3. s[two + i].kind = B[3].kind /\ s[two + i].block = 3 /\ s[two + i].call = B[3].calls[i]
    BY <1>8, <2>1, <2>2
  <2>4. B[3].kind = "cleanup" /\ B[3].calls[i].op = "offenabled" /\ B[3].calls[i].ch = chs[i]
    BY <1>1, <2>1 DEF InThree
  <2> QED
    BY <2>1, <2>3, <2>4 DEF i
<1>14. ASSUME NEW p \in 1..Len(s), s[p].call.op \in {"on", "onifwas"}
       PROVE  s[p].call.op = "on" /\ p \in one + 1..two /\ \E j \in 1..n : chs[j] = s[p].call.ch
  <2>1. PICK b \in 1..Len(B) : \E i \in 1..Len(B[b].calls) : p = e[b - 1] + i
    BY <1>2
  <2>2. PICK i \in 1..Len(B[b].calls) : p = e[b - 1] + i
    BY <2>1
  <2>3. s[p].call = B[b].calls[i]
    BY <1>2, <2>2
  <2>4. b = 2 /\ s[p].call.op = "on" /\ \E j \in 1..Len(B[3].calls) : B[3].calls[j].ch = s[p].call.ch
    <3>1. B[b].calls[i].op \in {"on", "onifwas"}
      BY <1>14, <2>3
    <3> HIDE DEF n, chs
    <3>2. /\ B[b].calls[i].op = "on" /\ b = 2
          /\ \E j \in 1..Len(B[3].calls) : B[3].calls[j].ch = B[b].calls[i].ch
      BY <1>1, <3>1 DEF InThree
    <3> QED
      BY <2>3, <3>2
  <2>5. i \in 1..l /\ p = one + i
    BY <1>8, <2>2, <2>4
  <2>6. p \in one + 1..two
    <3>1. one \in Nat /\ l \in Nat /\ two = one + l
      BY <1>7
    <3> HIDE DEF l
    <3> QED
      BY <2>5, <3>1
  <2> QED
    BY <2>4, <2>6
<1>12. \A i, j \in 1..n : chs[i] \in Nat /\ (i < j => chs[i] < chs[j])
  BY <1>1, <1>6 DEF InThree
<1> HIDE DEF l, n, chs
<1>13. SwitchesWithin(cmd, one, two, three, n, chs)
  <2>1. one <= two
    BY <1>7
  <2> QED
    BY <1>6, <1>7, <1>9, <1>10, <1>11, <1>12, <1>14, <2>1 DEF SwitchesWithin, s
<1> QED
  BY <1>13


\* Where a step within a script ends.
LEMMA ItsPlace ==
  ASSUME Sound, script' = script, NEW m \in 0..Len(script), rest' = Onward(script, m)
  PROVE  at' = m
<1>1. script \in Seq(Entries(command)) /\ Len(script) \in Nat
  BY TheCommand DEF Sound
<1>2. Len(Onward(script, m)) = Len(script) - m
  BY <1>1, Remainder
<1>3. at' = Len(script) - Len(rest')
  BY DEF at
<1> QED
  BY <1>1, <1>2, <1>3

\* What output_on returned for.
LEMMA EnabledGrows ==
  ASSUME Sound, [Next]_vars, index' = index
  PROVE  \/ enabled' = enabled
         \/ Running /\ Proceed /\ call.op = "on" /\ enabled' = enabled \cup {call.ch}
<1>1. ~NextCommand
  <2>1. index \in Nat
    BY TheCommand DEF Sound
  <2> QED
    BY <2>1 DEF NextCommand
<1>2. Perform \/ Reject \/ Astray => Running /\ Proceed /\ Remember
  BY DEF Perform, Reject, Astray
<1>3. Remember => enabled' = enabled \/ (call.op = "on" /\ enabled' = enabled \cup {call.ch})
  BY DEF Remember
<1>4. Open \/ Identified \/ NotOpened \/ Refuse \/ Completed \/ WaitFails \/ Raise \/ Return \/ RequestStop
        \/ UNCHANGED vars => enabled' = enabled
  BY DEF Open, Identified, NotOpened, Refuse, Completed, WaitFails, Raise, Return, RequestStop, vars, data
<1>5. (\E c \in DOMAIN inst.on : Trip(c) \/ Settle(c)) => enabled' = enabled
  BY DEF Trip, Settle, data
<1> QED
  BY <1>1, <1>2, <1>3, <1>4, <1>5 DEF Next

\* What switches on.
LEMMA OnlyOnSwitches ==
  ASSUME Sound, [Next]_vars, index' = index, NEW c \in DOMAIN inst.on, ~inst.on[c], inst'.on[c]
  PROVE  /\ Running /\ call.op \in {"on", "onifwas"} /\ c \in Switched(inst, call.ch)
         /\ call.op = "onifwas" => doc[call.ch].on
         /\ Perform \/ Raise
<1>1. Shape(inst)
  BY DEF Sound
<1>2. ~NextCommand
  <2>1. index \in Nat
    BY TheCommand DEF Sound
  <2> QED
    BY <2>1 DEF NextCommand
<1>3. inst'.on # inst.on
  OBVIOUS
<1>4. ~(Open \/ Identified \/ NotOpened \/ Completed \/ WaitFails \/ Return \/ RequestStop \/ UNCHANGED vars)
  BY <1>3 DEF Open, Identified, NotOpened, Completed, WaitFails, Return, RequestStop, vars
<1>5. ~Refuse
  <2>1. ReadErrorQueue(inst).on = inst.on
    BY <1>1, BusAlters DEF Alters
  <2> QED
    BY <1>3, <2>1 DEF Refuse
<1>6. ~Reject
  <2>1. [inst EXCEPT !.queued = TRUE].on = inst.on
    BY <1>1 DEF Shape, Parts
  <2> QED
    BY <1>3, <2>1 DEF Reject
<1>7. ~Astray
  <2> SUFFICES ASSUME Astray PROVE FALSE
    OBVIOUS
  <2>1. PICK d : inst' = [WriteSetting(inst, d, call.key, call.val) EXCEPT !.queued = TRUE]
    BY DEF Astray
  <2>2. Shape(WriteSetting(inst, d, call.key, call.val)) /\ WriteSetting(inst, d, call.key, call.val).on = inst.on
    BY <1>1, SettingAlters DEF Alters
  <2> HIDE DEF WriteSetting
  <2> QED
    BY <1>3, <2>1, <2>2 DEF Shape, Parts
<1>8. ~\E d \in DOMAIN inst.on : Trip(d) \/ Settle(d)
  <2> SUFFICES ASSUME NEW d \in DOMAIN inst.on, Trip(d) \/ Settle(d) PROVE FALSE
    OBVIOUS
  <2>1. inst' = [inst EXCEPT !.on[d] = FALSE, !.tripped[d] = TRUE] \/ inst' = [inst EXCEPT !.init[d] = "idle"]
    BY DEF Trip, Settle
  <2>2. inst'.on = [inst.on EXCEPT ![d] = FALSE] \/ inst'.on = inst.on
    BY <1>1, <2>1 DEF Shape, Parts
  <2> QED
    BY <2>2
<1>9. Perform \/ Raise
  BY <1>2, <1>4, <1>5, <1>6, <1>7, <1>8 DEF Next
<1>10. Running /\ inst' = After
  BY <1>3, <1>9 DEF Perform, Raise
<1>11. After.on[c] /\ ~inst.on[c] =>
         /\ call.op \in {"on", "onifwas"} /\ c \in Switched(inst, call.ch)
         /\ call.op = "onifwas" => doc[call.ch].on
  BY <1>1, AfterOn
<1> QED
  BY <1>9, <1>10, <1>11

\* What leaves an output on does so for good: a supply keeps its switches.
LEMMA LeftOnForGood ==
  ASSUME Sound, [Next]_vars, NEW c, NEW h
  PROVE  LeftOn(c, h)' <=> LeftOn(c, h)
<1>1. inst'.model = inst.model /\ DOMAIN inst'.on = DOMAIN inst.on
  BY SupplyKept DEF Sound, Shape
<1>2. Switched(inst, h.ch)' = Switched(inst, h.ch)
  BY <1>1 DEF Switched
<1> QED
  BY <1>1, <1>2 DEF LeftOn

\* An output that is on was on before, was left on by one of the failures, or
\* output_on has returned for it and its turn in the cleanup is yet to come.
Watched(one, two, n, chs) ==
  /\ phase = "run" /\ at < one => enabled = {}
  /\ \A c \in Own : inst.on[c] =>
       \/ before.on[c]
       \/ \E h \in hits : LeftOn(c, h)
       \/ phase = "run" /\ \E i \in 1..n : chs[i] \in enabled /\ c \in Switched(inst, chs[i]) /\ at < two + i

TemporaryWatched ==
  command.name \in Temporary =>
    \A one, two, three, n, chs : SwitchesWithin(command, one, two, three, n, chs) => Watched(one, two, n, chs)

\* Up to the end of the cleanup a call that returned is followed by the next.
LEMMA NextInThree ==
  ASSUME Sound, Running, NEW one, NEW two, NEW three, NEW n, NEW chs,
         SwitchesWithin(command, one, two, three, n, chs), at + 1 < three
  PROVE  Runs(script[at + 2].kind, pending, failed) /\ at + 1 < Len(script)
<1>1. /\ one \in Nat /\ two \in Nat /\ three \in Nat /\ one <= two /\ two <= three /\ three <= Len(script)
      /\ \A p \in 1..one : script[p].kind = "plain"
      /\ \A p \in one + 1..two : script[p].kind = "try"
      /\ \A p \in two + 1..three : script[p].kind = "cleanup"
  BY DEF SwitchesWithin, script
<1>2. at \in Nat /\ Len(script) \in Nat /\ block = script[at + 1].kind
  <2>1. at \in 0..Len(script) /\ Len(script) \in Nat /\ block = script[at + 1].kind
    BY Whereabouts DEF Running
  <2> QED
    BY <2>1
<1>3. Runs(block, pending, failed) \/ (pending = "none" /\ failed = FALSE)
  BY DEF Sound, Running
<1> HIDE DEF at, block
<1>4. CASE at + 2 <= one
  <2>1. at + 1 \in 1..one /\ at + 2 \in 1..one
    BY <1>1, <1>2, <1>4
  <2>2. block = "plain" /\ script[at + 2].kind = "plain"
    BY <1>1, <1>2, <2>1
  <2> QED
    BY <1>1, <1>2, <1>3, <2>2 DEF Runs
<1>5. CASE one < at + 2 /\ at + 2 <= two
  <2>1. at + 2 \in one + 1..two /\ (at + 1 \in 1..one \/ at + 1 \in one + 1..two)
    BY <1>1, <1>2, <1>5
  <2>2. block \in {"plain", "try"} /\ script[at + 2].kind = "try"
    BY <1>1, <1>2, <2>1
  <2> QED
    BY <1>1, <1>2, <1>3, <2>2 DEF Runs
<1>6. CASE two < at + 2
  <2>1. at + 2 \in two + 1..three
    BY <1>1, <1>2, <1>6
  <2>2. script[at + 2].kind = "cleanup"
    BY <1>1, <2>1
  <2> QED
    BY <1>1, <1>2, <2>2 DEF Runs
<1> QED
  BY <1>1, <1>2, <1>4, <1>5, <1>6

\* A call that returned there.
LEMMA ProceedInThree ==
  ASSUME Sound, Running, Proceed, script' = script, NEW one, NEW two, NEW three, NEW n, NEW chs,
         SwitchesWithin(command, one, two, three, n, chs)
  PROVE  at' \in Nat /\ at < at' /\ (at + 1 < three => at' = at + 1)
<1>1. PICK m \in at + 1..Len(script) :
        /\ rest' = Onward(script, m)
        /\ at + 1 < Len(script) /\ Runs(script[at + 2].kind, pending', failed') => m = at + 1
  BY OnProceed
<1>2. at \in 0..Len(script) /\ Len(script) \in Nat
  BY Whereabouts
<1>3. m \in 0..Len(script)
  BY <1>2
<1>4. at' = m
  BY <1>1, <1>3, ItsPlace
<1>5. at + 1 < three => m = at + 1
  <2>1. pending' = pending /\ failed' = failed
    BY DEF Proceed
  <2> QED
    BY <1>1, <2>1, NextInThree
<1> QED
  BY <1>2, <1>4, <1>5

\* An exception there: before the try nothing is switched on yet, under it the
\* cleanup follows, and in the cleanup it ends the command.
LEMMA ThrowInThree ==
  ASSUME Sound, Running, NEW kind, Throw(kind), script' = script, NEW one, NEW two, NEW three, NEW n, NEW chs,
         SwitchesWithin(command, one, two, three, n, chs)
  PROVE  at' \in Nat /\ at < at' /\ (one <= at /\ at < two => at' = two)
<1>1. PICK m \in at + 1..Len(script) :
        /\ rest' = Onward(script, m)
        /\ block \notin {"plain", "cleanup"} =>
             \A j \in at + 1..Len(script) - 1 :
               (Boundary(j) /\ Runs(script[j + 1].kind, pending', failed') /\ \A i \in at + 1..j - 1 : ~Boundary(i))
                 => m = j
  BY OnThrow
<1>2. at \in 0..Len(script) /\ Len(script) \in Nat /\ block = script[at + 1].kind
  BY Whereabouts DEF Running
<1>3. m \in 0..Len(script)
  BY <1>2
<1>4. at' = m
  BY <1>1, <1>3, ItsPlace
<1>5. /\ one \in Nat /\ two \in Nat /\ three \in Nat /\ one <= two /\ two < three /\ three <= Len(script)
      /\ \A p \in one + 1..two : script[p].kind = "try" /\ script[p].block = 2
      /\ \A p \in two + 1..three : script[p].kind = "cleanup" /\ script[p].block = 3
  BY DEF SwitchesWithin, script
<1> HIDE DEF at, block
<1>6. ASSUME one <= at, at < two PROVE m = two
  <2>1. at + 1 \in one + 1..two /\ two \in at + 1..Len(script) - 1 /\ two \in one + 1..two
        /\ two + 1 \in two + 1..three
    BY <1>2, <1>5, <1>6
  <2>2. block = "try" /\ script[two].block = 2 /\ script[two + 1].block = 3 /\ script[two + 1].kind = "cleanup"
    BY <1>2, <1>5, <2>1
  <2>3. Boundary(two) /\ Runs(script[two + 1].kind, pending', failed')
    BY <2>2 DEF Boundary, Runs
  <2>4. \A i \in at + 1..two - 1 : ~Boundary(i)
    <3> SUFFICES ASSUME NEW i \in at + 1..two - 1 PROVE ~Boundary(i)
      OBVIOUS
    <3>1. i \in one + 1..two /\ i + 1 \in one + 1..two
      BY <1>2, <1>5, <1>6
    <3> QED
      BY <1>5, <3>1 DEF Boundary
  <2> QED
    BY <1>1, <2>1, <2>2, <2>3, <2>4
<1> QED
  BY <1>2, <1>4, <1>6


\* The call of the cleanup that switches a channel off does so, or its failure
\* is remembered.
LEMMA ItsTurn ==
  ASSUME Sound, [Next]_vars, index' = index, Running, NEW one, NEW two, NEW three, NEW n, NEW chs,
         SwitchesWithin(command, one, two, three, n, chs),
         NEW i \in 1..n, chs[i] \in enabled, two <= at, at < two + i,
         NEW c \in DOMAIN inst.on, c \in Switched(inst, chs[i]), inst'.on[c],
         Proceed => at + 1 = two + i, Proceed \/ \E kind : Throw(kind)
  PROVE  \E h \in hits' : LeftOn(c, h)
<1> DEFINE k == at + 1 - two
<1>1. /\ one \in Nat /\ two \in Nat /\ three = two + n /\ n \in Nat \ {0} /\ at \in Nat
      /\ \A p \in two + 1..three : script[p].call.op = "offenabled" /\ script[p].call.ch = chs[p - two]
      /\ \A j, m \in 1..n : chs[j] \in Nat /\ (j < m => chs[j] < chs[m])
  <2>1. at \in 0..Len(script) /\ Len(script) \in Nat
    BY Whereabouts
  <2> QED
    BY <2>1 DEF SwitchesWithin, script
<1>2. call = script[at + 1].call
  BY Whereabouts DEF Running
<1> HIDE DEF at, call
<1>3. k \in 1..n /\ k <= i /\ two + k = at + 1 /\ at + 1 \in two + 1..three
  BY <1>1
<1>4. call.op = "offenabled" /\ call.ch = chs[k] /\ call.ch <= chs[i]
  <2>1. call.op = "offenabled" /\ call.ch = chs[k]
    BY <1>1, <1>2, <1>3
  <2>2. k = i \/ k < i
    BY <1>1, <1>3
  <2>3. chs[k] <= chs[i]
    <3>1. chs[k] \in Nat /\ chs[i] \in Nat /\ (k < i => chs[k] < chs[i])
      BY <1>1, <1>3
    <3> HIDE DEF k
    <3> QED
      BY <2>2, <3>1
  <2> QED
    BY <2>1, <2>3
<1>5. Shape(inst)
  BY DEF Sound
<1>6. ~NextCommand /\ ~(Open \/ Identified \/ NotOpened \/ Completed \/ WaitFails \/ Return \/ Astray)
  <2>1. index \in Nat
    BY TheCommand DEF Sound
  <2>2. ~NextCommand
    BY <2>1 DEF NextCommand
  <2> QED
    BY <1>4, <2>2 DEF Running, Open, Identified, NotOpened, Completed, WaitFails, Return, Astray
<1>7. ~(RequestStop \/ UNCHANGED vars \/ \E d \in DOMAIN inst.on : Trip(d) \/ Settle(d))
  <2> SUFFICES ASSUME RequestStop \/ UNCHANGED vars \/ \E d \in DOMAIN inst.on : Trip(d) \/ Settle(d) PROVE FALSE
    OBVIOUS
  <2>1. rest' = rest
    BY DEF RequestStop, Trip, Settle, vars, control
  <2>2. PICK m \in at + 1..Len(script) : rest' = Onward(script, m)
    BY OnProceed, OnThrow DEF at
  <2>3. at \in 0..Len(script) /\ Len(script) \in Nat
    BY Whereabouts
  <2>4. m \in 0..Len(script) /\ m # at
    BY <2>2, <2>3
  <2> QED
    BY <2>1, <2>2, <2>4, Whereabouts
<1>8. ~Refused
  BY <1>4 DEF Refused
<1>9. CASE Perform
  <2>1. inst' = After /\ k = i
    BY <1>1, <1>9 DEF Perform
  <2>2. call.ch = chs[i] /\ call.ch \in enabled
    BY <1>4, <2>1
  <2>3. ~After.on[c]
    BY <1>4, <1>5, <2>2, AfterOn
  <2> QED
    BY <2>1, <2>3
<1>10. CASE Reject
  <2>1. k = i /\ hits' = hits \cup {Hit("reject")}
    BY <1>1, <1>10 DEF Reject, Disturb
  <2>2. Hit("reject").op = "offenabled" /\ Hit("reject").what = "reject" /\ Hit("reject").ch = chs[i]
    BY <1>4, <2>1 DEF Hit
  <2>3. LeftOn(c, Hit("reject"))
    BY <2>2 DEF LeftOn
  <2> QED
    BY <2>1, <2>3
<1>11. CASE Raise
  <2>1. hits' = hits \cup {Hit("raise")}
    BY <1>11 DEF Raise, Disturb
  <2>2. Hit("raise").op = "offenabled" /\ Hit("raise").what = "raise" /\ Hit("raise").ch = call.ch
    BY <1>4 DEF Hit
  <2>3. call.ch <= c \/ inst.model = "global"
    BY <1>4 DEF Switched
  <2>4. LeftOn(c, Hit("raise"))
    BY <2>2, <2>3 DEF LeftOn
  <2> QED
    BY <2>1, <2>4
<1> QED
  BY <1>6, <1>7, <1>8, <1>9, <1>10, <1>11 DEF Next, Refuse

\* A step of the command.
LEMMA StaysWatched ==
  ASSUME Sound, [Next]_vars, index' = index, NEW one, NEW two, NEW three, NEW n, NEW chs,
         SwitchesWithin(command, one, two, three, n, chs), Watched(one, two, n, chs)
  PROVE  Watched(one, two, n, chs)'
<1>1. /\ before' = before /\ command' = command /\ script' = script /\ hits \subseteq hits'
  BY SameCommand
<1>2. /\ one \in Nat /\ two \in Nat /\ three = two + n /\ n \in Nat \ {0} /\ one <= two /\ three <= Len(script)
      /\ at \in Nat /\ Len(script) \in Nat /\ at <= Len(script) /\ (rest = << >> <=> at = Len(script))
      /\ rest # << >> => at + 1 \in 1..Len(script) /\ call = script[at + 1].call
      /\ \A p \in 1..Len(script) : script[p].call.op \in {"on", "onifwas"} =>
           /\ script[p].call.op = "on" /\ p \in one + 1..two
           /\ \E j \in 1..n : chs[j] = script[p].call.ch
  <2>1. /\ at \in 0..Len(script) /\ Len(script) \in Nat /\ (rest = << >> <=> at = Len(script))
        /\ rest # << >> => at + 1 \in 1..Len(script) /\ call = script[at + 1].call
    BY Whereabouts
  <2>2. /\ one \in Nat /\ two \in Nat /\ three = two + n /\ n \in Nat \ {0} /\ one <= two /\ three <= Len(script)
        /\ \A p \in 1..Len(script) : script[p].call.op \in {"on", "onifwas"} =>
             /\ script[p].call.op = "on" /\ p \in one + 1..two
             /\ \E j \in 1..n : chs[j] = script[p].call.ch
    BY DEF SwitchesWithin, script
  <2> HIDE DEF at
  <2> QED
    BY <2>1, <2>2
<1>3. \/ Running /\ Proceed
      \/ Running /\ \E kind : Throw(kind)
      \/ UNCHANGED <<program, index, phase, rest, pending, failed>>
      \/ /\ UNCHANGED <<program, index, pending, failed, enabled, inst, before>> /\ phase \in {"opening", "identify"}
         /\ \/ phase' = "run" /\ rest' = script
            \/ phase' \in {"identify", "ended"} /\ rest' = rest
      \/ Return
  BY HowItMoves
<1>4. rest' = rest => at' = at
  BY <1>1 DEF at
<1>5. enabled \subseteq enabled'
  BY EnabledGrows
<1>6. Running /\ call.op \in {"on", "onifwas"} => /\ call.op = "on" /\ at + 1 \in one + 1..two
                                                  /\ \E j \in 1..n : chs[j] = call.ch
  BY <1>2 DEF Running
<1>7. Running /\ Proceed => at' \in Nat /\ at < at' /\ (at + 1 < three => at' = at + 1)
  BY <1>1, ProceedInThree
<1>8. Running /\ (\E kind : Throw(kind)) => at' \in Nat /\ at < at' /\ (one <= at /\ at < two => at' = two)
  BY <1>1, ThrowInThree
<1> HIDE DEF at
<1>9. phase' = "run" /\ at' < one => enabled' = {}
  <2> SUFFICES ASSUME phase' = "run", at' < one PROVE enabled' = {}
    OBVIOUS
  <2>1. CASE Running /\ (Proceed \/ \E kind : Throw(kind))
    <3>1. at < one /\ phase = "run"
      BY <1>2, <1>7, <1>8, <2>1 DEF Running
    <3>2. enabled = {}
      BY <3>1 DEF Watched
    <3>3. call.op # "on"
      BY <1>2, <1>6, <2>1, <3>1
    <3> QED
      BY <3>2, <3>3, EnabledGrows
  <2>2. CASE UNCHANGED <<program, index, phase, rest, pending, failed>>
    <3>1. at' = at /\ phase = "run"
      BY <1>4, <2>2
    <3>2. enabled = {}
      BY <3>1 DEF Watched
    <3>3. enabled' = enabled
      <4> SUFFICES ASSUME Running, call.op = "on" PROVE FALSE
        BY EnabledGrows
      <4> QED
        BY <1>2, <1>6, <3>1
    <3> QED
      BY <3>2, <3>3
  <2>3. CASE UNCHANGED enabled /\ phase \in {"opening", "identify"}
    BY <2>3 DEF Sound
  <2>4. ~Return
    BY DEF Return, End
  <2> QED
    BY <1>3, <2>1, <2>2, <2>3, <2>4
<1>10. ASSUME NEW c \in Own, inst'.on[c]
       PROVE  \/ before'.on[c]
              \/ \E h \in hits' : LeftOn(c, h)'
              \/ phase' = "run" /\ \E i \in 1..n :
                   chs[i] \in enabled' /\ c \in Switched(inst', chs[i]) /\ at' < two + i
  <2>1. Shape(inst) /\ Shape(inst') /\ inst'.model = inst.model /\ c \in DOMAIN inst.on
    <3>1. Own \subseteq ChannelsOf(command.model)
      <4>1. command \in Commands
        BY TheCommand DEF Sound
      <4> QED
        BY <4>1, CommandFacts DEF Own
    <3> QED
      BY <3>1, SupplyKept DEF Sound, Shape
  <2>2. \A d : Switched(inst', d) = Switched(inst, d)
    BY <2>1 DEF Switched, Shape
  <2>3. \A h : LeftOn(c, h)' <=> LeftOn(c, h)
    BY LeftOnForGood
  <2>4. CASE ~inst.on[c]
    <3>1. /\ Running /\ call.op \in {"on", "onifwas"} /\ c \in Switched(inst, call.ch) /\ (Perform \/ Raise)
      BY <1>10, <2>1, <2>4, OnlyOnSwitches
    <3>2. call.op = "on" /\ at + 1 \in one + 1..two /\ \E j \in 1..n : chs[j] = call.ch
      BY <1>6, <3>1
    <3>3. PICK j \in 1..n : chs[j] = call.ch
      BY <3>2
    <3>4. CASE Perform
      <4>1. Proceed /\ enabled' = enabled \cup {call.ch} /\ phase' = "run"
        BY <3>1, <3>2, <3>4 DEF Perform, Remember, Proceed, Running
      <4>2. at' = at + 1 /\ at + 1 < two + j
        BY <1>2, <1>7, <3>1, <3>2, <4>1
      <4> QED
        BY <2>2, <3>1, <3>3, <4>1, <4>2
    <3>5. CASE Raise
      <4>1. Hit("raise") \in hits'
        BY <3>5 DEF Raise, Disturb
      <4>2. LeftOn(c, Hit("raise"))
        BY <3>1, <3>2 DEF LeftOn, Hit
      <4> QED
        BY <2>3, <4>1, <4>2
    <3> QED
      BY <3>1, <3>4, <3>5
  <2>5. CASE inst.on[c]
    <3>1. \/ before.on[c]
          \/ \E h \in hits : LeftOn(c, h)
          \/ phase = "run" /\ \E i \in 1..n : chs[i] \in enabled /\ c \in Switched(inst, chs[i]) /\ at < two + i
      BY <2>5 DEF Watched
    <3>2. CASE before.on[c] \/ \E h \in hits : LeftOn(c, h)
      BY <1>1, <2>3, <3>2
    <3>3. ASSUME phase = "run", NEW i \in 1..n, chs[i] \in enabled, c \in Switched(inst, chs[i]), at < two + i
          PROVE  \/ \E h \in hits' : LeftOn(c, h)'
                 \/ phase' = "run" /\ \E j \in 1..n :
                      chs[j] \in enabled' /\ c \in Switched(inst', chs[j]) /\ at' < two + j
      <4>1. chs[i] \in enabled' /\ c \in Switched(inst', chs[i])
        BY <1>5, <2>2, <3>3
      <4>2. one <= at
        BY <1>2, <3>3 DEF Watched
      <4>3. at < Len(script) /\ rest # << >>
        BY <1>2, <3>3
      <4>4. CASE UNCHANGED <<program, index, phase, rest, pending, failed>>
        BY <1>4, <3>3, <4>1, <4>4
      <4>5. CASE Running /\ Proceed /\ at + 1 # two + i
        <5>1. at + 1 < two + i /\ at + 1 < three
          BY <1>2, <3>3, <4>5
        <5>2. at' = at + 1 /\ phase' = "run"
          BY <1>7, <4>5, <5>1 DEF Running, Proceed
        <5> QED
          BY <4>1, <5>1, <5>2
      <4>6. CASE Running /\ Proceed /\ at + 1 = two + i
        <5>1. two <= at
          BY <1>2, <4>6
        <5> QED
          BY <1>10, <2>1, <2>3, <3>3, <4>6, <5>1, ItsTurn
      <4>7. CASE Running /\ (\E kind : Throw(kind)) /\ at < two
        <5>1. at' = two /\ phase' = "run"
          BY <1>8, <3>3, <4>2, <4>7 DEF Throw
        <5>2. at' < two + i
          BY <1>2, <5>1
        <5> QED
          BY <4>1, <5>1, <5>2
      <4>8. CASE Running /\ (\E kind : Throw(kind)) /\ ~(at < two) /\ ~Proceed
        <5>1. two <= at
          BY <1>2, <4>8
        <5> QED
          BY <1>10, <2>1, <2>3, <3>3, <4>8, <5>1, ItsTurn
      <4>9. ~Return
        BY <4>3 DEF Return
      <4> QED
        BY <1>3, <3>3, <4>4, <4>5, <4>6, <4>7, <4>8, <4>9
    <3> QED
      BY <1>1, <3>1, <3>2, <3>3
  <2>6. inst.on[c] \in BOOLEAN
    BY <2>1 DEF Shape
  <2> QED
    BY <2>4, <2>5, <2>6
<1>11. Own' = Own
  BY <1>1 DEF Own
<1> QED
  BY <1>9, <1>10, <1>11 DEF Watched

\* It holds when a command starts.
LEMMA StartsWatched ==
  ASSUME phase # "run", inst = before
  PROVE  TemporaryWatched
BY DEF TemporaryWatched, Watched

\* Every step keeps it.
LEMMA StepWatched == Sound /\ TemporaryWatched /\ [Next]_vars => TemporaryWatched'
<1> SUFFICES ASSUME Sound, TemporaryWatched, [Next]_vars PROVE TemporaryWatched'
  OBVIOUS
<1>1. CASE index' = index
  <2>1. command' = command
    BY <1>1, SameCommand
  <2>2. ASSUME command.name \in Temporary, NEW one, NEW two, NEW three, NEW n, NEW chs,
               SwitchesWithin(command, one, two, three, n, chs)
        PROVE  Watched(one, two, n, chs)'
    <3>1. Watched(one, two, n, chs)
      BY <2>2 DEF TemporaryWatched
    <3> QED
      BY <1>1, <2>2, <3>1, StaysWatched
  <2> QED
    BY <2>1, <2>2 DEF TemporaryWatched
<1>2. CASE index' # index
  <2>1. NextCommand
    BY <1>2 DEF Next, Open, Identified, NotOpened, Perform, Refuse, Completed, WaitFails, Raise, Reject,
                Astray, Return, RequestStop, Trip, Settle, Proceed, Throw, control, vars
  <2>2. phase' # "run" /\ inst' = before'
    BY <2>1 DEF NextCommand
  <2> QED
    BY <2>2 DEF TemporaryWatched, Watched
<1> QED
  BY <1>1, <1>2

\* cycle-output and smoke-output leave no output on that they switched on,
\* unless one of the failures that LeftOn names happened: for every program,
\* every number of channels and any disturbances (Commands!TemporaryOutputsOff).
THEOREM OutputsLeftOff == Spec => []TemporaryOutputsOff
<1>1. Init => TemporaryWatched
  BY StartsWatched DEF Init
<1>2. Sound /\ TemporaryWatched => TemporaryOutputsOff
  <2> SUFFICES ASSUME Sound, TemporaryWatched, phase = "ended", command.name \in {"cycle-output", "smoke-output"},
                      NEW c \in Own, inst.on[c]
               PROVE  before.on[c] \/ \E h \in hits : LeftOn(c, h)
    BY DEF TemporaryOutputsOff
  <2>1. command \in Commands
    BY TheCommand DEF Sound
  <2>2. PICK one, two, three, n, chs : SwitchesWithin(command, one, two, three, n, chs)
    BY <2>1, TemporaryScript DEF Temporary
  <2>3. Watched(one, two, n, chs)
    BY <2>2 DEF TemporaryWatched, Temporary
  <2> QED
    BY <2>3 DEF Watched
<1> QED
  BY <1>1, <1>2, InitSound, StepSound, StepWatched, PTL DEF Spec


-----------------------------------------------------------------------------
(* The channels of others                                                  *)

\* The parts of a channel have their fields.
Fields(s) ==
  \A c \in DOMAIN s.on : s.trig[c] = [k \in TriggerKeys |-> s.trig[c][k]] /\ s.set[c] = [k \in Settings |-> s.set[c][k]]

\* A write keeps them.
LEMMA WriteKeepsFields ==
  ASSUME NEW s, Shape(s), Fields(s), NEW c, NEW key, NEW v
  PROVE  Fields(WriteSetting(s, c, key, v)) /\ Fields(WriteTrigger(s, c, key, v))
<1>0. \A d \in DOMAIN s.on : s.trig[d] = [k \in TriggerKeys |-> s.trig[d][k]]
  BY DEF Fields
<1>1. Fields(WriteTrigger(s, c, key, v))
  <2>1. /\ WriteTrigger(s, c, key, v).trig = [s.trig EXCEPT ![c] = [s.trig[c] EXCEPT ![key] = v]]
        /\ WriteTrigger(s, c, key, v).on = s.on /\ WriteTrigger(s, c, key, v).set = s.set
    BY DEF WriteTrigger, Shape, Parts
  <2>2. DOMAIN s.trig = DOMAIN s.on
    BY DEF Shape
  <2> HIDE DEF WriteTrigger
  <2>3. ASSUME NEW d \in DOMAIN s.on
        PROVE  WriteTrigger(s, c, key, v).trig[d] = [k \in TriggerKeys |-> WriteTrigger(s, c, key, v).trig[d][k]]
    <3> DEFINE old == s.trig[d]
    <3>1. old = [k \in TriggerKeys |-> old[k]]
      BY <1>0
    <3>2. WriteTrigger(s, c, key, v).trig[d] = IF d = c THEN [old EXCEPT ![key] = v] ELSE old
      BY <2>1, <2>2
    <3> DEFINE new == [old EXCEPT ![key] = v]
    <3> HIDE DEF old
    <3>3. new = [k \in TriggerKeys |-> new[k]]
      <4>1. DOMAIN old = TriggerKeys
        BY <3>1
      <4> QED
        BY <4>1
    <3> QED
      BY <3>1, <3>2, <3>3
  <2>4. \A d \in DOMAIN s.on : s.set[d] = [k \in Settings |-> s.set[d][k]]
    BY DEF Fields
  <2>5. \A d \in DOMAIN s.on :
          WriteTrigger(s, c, key, v).set[d] = [k \in Settings |-> WriteTrigger(s, c, key, v).set[d][k]]
    BY <2>1, <2>4
  <2> QED
    BY <2>1, <2>3, <2>5, Zenon DEF Fields
<1>2. CASE s.model = "pair" /\ Beyond(s.set[c]["range"], key, v)
  <2>1. WriteSetting(s, c, key, v) = [s EXCEPT !.queued = TRUE]
    BY <1>2 DEF WriteSetting
  <2> QED
    BY <1>1, <2>1 DEF Fields, Shape, Parts
<1>3. CASE ~(s.model = "pair" /\ Beyond(s.set[c]["range"], key, v))
  <2>1. PICK f : WriteSetting(s, c, key, v) = [s EXCEPT !.set[c] = [k \in Settings |-> f[k]]]
    <3> DEFINE g == [k \in Settings |->
            IF k = key THEN v
            ELSE IF s.model = "pair" /\ key = "range" /\ Beyond(v, k, s.set[c][k]) THEN 1
            ELSE s.set[c][k]]
    <3>1. WriteSetting(s, c, key, v) = [s EXCEPT !.set[c] = g]
      BY <1>3 DEF WriteSetting
    <3>2. g = [k \in Settings |-> g[k]]
      OBVIOUS
    <3> HIDE DEF g
    <3> QED
      BY <3>1, <3>2
  <2>2. WriteSetting(s, c, key, v).set = [s.set EXCEPT ![c] = [k \in Settings |-> f[k]]]
        /\ WriteSetting(s, c, key, v).on = s.on /\ WriteSetting(s, c, key, v).trig = s.trig
    BY <2>1 DEF Shape, Parts
  <2> HIDE DEF WriteSetting
  <2>3. \A d \in DOMAIN s.on : s.set[d] = [k \in Settings |-> s.set[d][k]]
    BY DEF Fields
  <2>4. DOMAIN s.set = DOMAIN s.on
    BY DEF Shape
  <2>5. \A d \in DOMAIN s.on :
          WriteSetting(s, c, key, v).set[d] = [k \in Settings |-> WriteSetting(s, c, key, v).set[d][k]]
    BY <2>2, <2>3, <2>4
  <2>6. \A d \in DOMAIN s.on :
          WriteSetting(s, c, key, v).trig[d] = [k \in TriggerKeys |-> WriteSetting(s, c, key, v).trig[d][k]]
    BY <1>0, <2>2, Zenon
  <2>7. Fields(WriteSetting(s, c, key, v))
    BY <2>2, <2>5, <2>6, Zenon DEF Fields
  <2> QED
    BY <1>1, <2>7
<1> QED
  BY <1>1, <1>2, <1>3

\* So does a transient that starts.
LEMMA StartKeepsFields ==
  ASSUME NEW s, Shape(s), Fields(s), NEW S
  PROVE  Fields(Start(s, S))
<1>1. /\ Start(s, S).on = s.on /\ Start(s, S).trig = s.trig
      /\ Start(s, S).set = [d \in DOMAIN s.set |->
            IF d \notin S THEN s.set[d]
            ELSE CASE s.trig[d].mode = "step" -> [s.set[d] EXCEPT !.voltage = s.trig[d].level]
                   [] s.trig[d].mode = "list" -> [s.set[d] EXCEPT !.voltage = s.trig[d].list]
                   [] OTHER -> s.set[d]]
  BY DEF Start, Shape, Parts
<1> HIDE DEF Start
<1>0. \A d \in DOMAIN s.on : Start(s, S).trig[d] = [k \in TriggerKeys |-> Start(s, S).trig[d][k]]
  BY <1>1 DEF Fields
<1> SUFFICES ASSUME NEW d \in DOMAIN s.on
             PROVE  Start(s, S).set[d] = [k \in Settings |-> Start(s, S).set[d][k]]
  BY <1>0, <1>1 DEF Fields
<1>2. s.set[d] = [k \in Settings |-> s.set[d][k]] /\ d \in DOMAIN s.set
  BY DEF Fields, Shape
<1>3. \/ Start(s, S).set[d] = s.set[d]
      \/ \E v : Start(s, S).set[d] = [s.set[d] EXCEPT !.voltage = v]
  <2>1. \/ Start(s, S).set[d] = s.set[d]
        \/ Start(s, S).set[d] = [s.set[d] EXCEPT !.voltage = s.trig[d].level]
        \/ Start(s, S).set[d] = [s.set[d] EXCEPT !.voltage = s.trig[d].list]
    BY <1>1, <1>2
  <2> QED
    BY <2>1
<1>4. ASSUME NEW v PROVE [s.set[d] EXCEPT !.voltage = v] = [k \in Settings |-> [s.set[d] EXCEPT !.voltage = v][k]]
  BY <1>2
<1> QED
  BY <1>2, <1>3, <1>4

\* And every call.
LEMMA AfterKeepsFields ==
  ASSUME Shape(inst), Fields(inst)
  PROVE  Fields(After)
<1> DEFINE c == call.ch
<1>1. After.on = inst.on \/ call.op \in Switches
  BY AfterAlters
<1>2. DOMAIN After.on = DOMAIN inst.on
  <2>1. Shape(After) /\ After.model = inst.model
    BY AfterAlters
  <2> QED
    BY <2>1 DEF Shape
<1>3. CASE call.op \in Writers
  <2>1. PICK key, v : After \in {inst, WriteSetting(inst, c, key, v)}
    BY <1>3 DEF After, Writers, PrepareOutputPair
  <2> QED
    BY <2>1, WriteKeepsFields
<1>4. CASE call.op \in {"init", "trg"}
  <2>1. After = InitiateOutputTrigger(inst, c) \/ After = FireBusTrigger(inst)
    BY <1>4 DEF After
  <2>2. \/ \E S : After = Start(inst, S)
        \/ \E d : After = [inst EXCEPT !.init[d] = "armed"]
        \/ After = [inst EXCEPT !.queued = TRUE]
    BY <2>1 DEF InitiateOutputTrigger, FireBusTrigger
  <2>3. ASSUME \/ \E d : After = [inst EXCEPT !.init[d] = "armed"]
               \/ After = [inst EXCEPT !.queued = TRUE]
        PROVE  Fields(After)
    <3>1. After.on = inst.on /\ After.set = inst.set /\ After.trig = inst.trig
      BY <2>3 DEF Shape, Parts
    <3> QED
      BY <3>1 DEF Fields
  <2> QED
    BY <2>2, <2>3, StartKeepsFields
<1>5. CASE call.op \in {"trigger", "hold", "restore"}
  <2>1. PICK key, v : After = WriteTrigger(inst, c, key, v)
    BY <1>5 DEF After, Restored
  <2> QED
    BY <2>1, WriteKeepsFields
<1>6. CASE call.op \notin Writers \cup {"init", "trg", "trigger", "hold", "restore"}
  <2>1. After.set = inst.set /\ After.trig = inst.trig
    BY <1>6, AfterAlters
  <2> QED
    BY <1>2, <2>1 DEF Fields
<1> QED
  BY <1>3, <1>4, <1>5, <1>6

\* What a step other than a call does to settings, triggers and transients.
LEMMA OtherwiseQuiet ==
  ASSUME Sound, [Next]_vars, index' = index
  PROVE  \/ Running /\ inst' = After /\ (Perform \/ Raise)
         \/ Running /\ Astray /\ \E d, key, v : inst' = [WriteSetting(inst, d, key, v) EXCEPT !.queued = TRUE]
         \/ /\ inst'.set = inst.set /\ inst'.trig = inst.trig
            /\ \A c \in DOMAIN inst.on : /\ inst'.init[c] \in {inst.init[c], "idle"}
                                         /\ inst'.on[c] = inst.on[c] \/ inst'.tripped[c]
<1>1. Shape(inst)
  BY DEF Sound
<1>2. ~NextCommand
  <2>1. index \in Nat
    BY TheCommand DEF Sound
  <2> QED
    BY <2>1 DEF NextCommand
<1>3. Perform \/ Raise => inst' = inst \/ (Running /\ inst' = After /\ (Perform \/ Raise))
  BY DEF Perform, Raise
<1>4. Astray => Running /\ \E d, key, v : inst' = [WriteSetting(inst, d, key, v) EXCEPT !.queued = TRUE]
  BY DEF Astray
<1>5. Open \/ Identified \/ NotOpened \/ Completed \/ WaitFails \/ Return \/ RequestStop \/ UNCHANGED vars
        => inst' = inst
  BY DEF Open, Identified, NotOpened, Completed, WaitFails, Return, RequestStop, vars
<1>6. Refuse \/ Reject => inst' \in {inst, ReadErrorQueue(inst), [inst EXCEPT !.queued = TRUE]}
  BY DEF Refuse, Reject
<1>7. ASSUME inst' \in {inst, ReadErrorQueue(inst), [inst EXCEPT !.queued = TRUE]}
      PROVE  inst'.set = inst.set /\ inst'.trig = inst.trig /\ inst'.init = inst.init /\ inst'.on = inst.on
  BY <1>1, <1>7 DEF ReadErrorQueue, Shape, Parts
<1>8. ASSUME NEW d \in DOMAIN inst.on, Trip(d) \/ Settle(d)
      PROVE  /\ inst'.set = inst.set /\ inst'.trig = inst.trig
             /\ \A c \in DOMAIN inst.on : /\ inst'.init[c] \in {inst.init[c], "idle"}
                                          /\ inst'.on[c] = inst.on[c] \/ inst'.tripped[c]
  <2>1. CASE Trip(d)
    <3>1. inst' = [inst EXCEPT !.on[d] = FALSE, !.tripped[d] = TRUE]
      BY <2>1 DEF Trip
    <3>2. /\ inst'.set = inst.set /\ inst'.trig = inst.trig /\ inst'.init = inst.init
          /\ inst'.on = [inst.on EXCEPT ![d] = FALSE] /\ inst'.tripped = [inst.tripped EXCEPT ![d] = TRUE]
      BY <1>1, <3>1 DEF Shape, Parts
    <3>3. \A c \in DOMAIN inst.on : inst'.on[c] = inst.on[c] \/ inst'.tripped[c]
      BY <1>1, <3>2 DEF Shape
    <3> QED
      BY <3>2, <3>3
  <2>2. CASE Settle(d)
    <3>1. inst' = [inst EXCEPT !.init[d] = "idle"]
      BY <2>2 DEF Settle
    <3> QED
      BY <1>1, <3>1 DEF Shape, Parts
  <2> QED
    BY <1>8, <2>1, <2>2
<1> QED
  BY <1>2, <1>3, <1>4, <1>5, <1>6, <1>7, <1>8 DEF Next

\* At the start they are there.
LEMMA InitFields == Init => Fields(inst)
<1> SUFFICES ASSUME Init PROVE Fields(inst)
  OBVIOUS
<1>1. inst = Supply(command.model)
  BY DEF Init
<1>2. \A c \in DOMAIN inst.on : c \in ChannelsOf(command.model)
  BY <1>1 DEF Supply
<1> QED
  BY <1>1, <1>2 DEF Fields, Supply, TriggerKeys

\* Every step keeps the fields.
LEMMA StepKeepsFields ==
  ASSUME Sound, Fields(inst), [Next]_vars
  PROVE  Fields(inst')
<1>1. Shape(inst) /\ Shape(inst') /\ inst'.model = inst.model
  BY SupplyKept DEF Sound
<1>2. DOMAIN inst'.on = DOMAIN inst.on
  BY <1>1 DEF Shape
<1>3. CASE index' = index
  <2>1. CASE inst' = After
    BY <1>1, <2>1, AfterKeepsFields
  <2>2. ASSUME NEW d, NEW key, NEW v, inst' = [WriteSetting(inst, d, key, v) EXCEPT !.queued = TRUE]
        PROVE  Fields(inst')
    <3>1. Fields(WriteSetting(inst, d, key, v)) /\ Shape(WriteSetting(inst, d, key, v))
      BY <1>1, WriteKeepsFields, SettingAlters DEF Alters
    <3> HIDE DEF WriteSetting
    <3> QED
      BY <2>2, <3>1 DEF Fields, Shape, Parts
  <2>3. CASE inst'.set = inst.set /\ inst'.trig = inst.trig
    BY <1>2, <2>3 DEF Fields
  <2> QED
    BY <1>3, <2>1, <2>2, <2>3, OtherwiseQuiet
<1>4. CASE index' # index
  <2>1. inst' = inst
    BY <1>4 DEF Next, Open, Identified, NotOpened, NextCommand, Perform, Refuse, Completed, WaitFails, Raise, Reject,
                Astray, Return, RequestStop, Trip, Settle, Proceed, Throw, control, vars
  <2> QED
    BY <2>1
<1> QED
  BY <1>3, <1>4


\* The n-th element of a list after another one.
LEMMA JoinedAt ==
  ASSUME NEW T, NEW s \in Seq(T), NEW t \in Seq(T)
  PROVE  /\ s \o t \in Seq(T) /\ Len(s) \in Nat /\ Len(t) \in Nat /\ Len(s \o t) = Len(s) + Len(t)
         /\ \A i \in 1..Len(s) : (s \o t)[i] = s[i]
         /\ \A i \in 1..Len(t) : (s \o t)[Len(s) + i] = t[i]
<1>1. s \o t \in Seq(T) /\ Len(s) \in Nat /\ Len(t) \in Nat /\ Len(s \o t) = Len(s) + Len(t)
      /\ \A i \in 1..Len(s \o t) : (s \o t)[i] = IF i <= Len(s) THEN s[i] ELSE t[i - Len(s)]
  BY ConcatProperties, LenProperties
<1>2. ASSUME NEW i \in 1..Len(s) PROVE (s \o t)[i] = s[i]
  <2>1. i \in 1..Len(s \o t) /\ i <= Len(s)
    BY <1>1
  <2> QED
    BY <1>1, <2>1
<1>3. ASSUME NEW i \in 1..Len(t) PROVE (s \o t)[Len(s) + i] = t[i]
  <2>1. Len(s) + i \in 1..Len(s \o t) /\ ~(Len(s) + i <= Len(s)) /\ (Len(s) + i) - Len(s) = i
    BY <1>1
  <2> QED
    BY <1>1, <2>1
<1> QED
  BY <1>1, <1>2, <1>3

\* A list and one more call.
LEMMA OneMore ==
  ASSUME NEW T, NEW s \in Seq(T), NEW x \in T
  PROVE  /\ s \o <<x>> \in Seq(T) /\ Len(s) \in Nat /\ Len(s \o <<x>>) = Len(s) + 1
         /\ (s \o <<x>>)[Len(s) + 1] = x /\ \A i \in 1..Len(s) : (s \o <<x>>)[i] = s[i]
<1>1. \A y \in T : <<y>> \in Seq(T) /\ Len(<<y>>) = 1 /\ <<y>>[1] = y
  OBVIOUS
<1>2. <<x>> \in Seq(T) /\ Len(<<x>>) = 1 /\ <<x>>[1] = x
  BY <1>1
<1>3. 1 \in 1..1
  OBVIOUS
<1> QED
  BY <1>2, <1>3, JoinedAt

\* A call, written out.
Rec(op, c, key, v) == [op |-> op, ch |-> c, key |-> key, val |-> v]

\* What it consists of.
LEMMA ItsParts ==
  ASSUME NEW op, NEW c, NEW key, NEW v
  PROVE  /\ Rec(op, c, key, v).op = op /\ Rec(op, c, key, v).ch = c
         /\ Rec(op, c, key, v).key = key /\ Rec(op, c, key, v).val = v
BY DEF Rec

\* A call without a value.
Bare(op, c) == Rec(op, c, "", 0)

\* What it consists of.
LEMMA BareParts ==
  ASSUME NEW op, NEW c
  PROVE  Bare(op, c).op = op /\ Bare(op, c).ch = c
<1>1. [op |-> op, ch |-> c, key |-> "", val |-> 0].op = op
  BY Zenon
<1>2. [op |-> op, ch |-> c, key |-> "", val |-> 0].ch = c
  BY Zenon
<1> QED
  BY <1>1, <1>2, Zenon DEF Bare, Rec

\* The pulse ends with six calls: the level is held, the mode passes through
\* FIX, the source is the bus, and the transient is armed and started.
EndsInPulse(list, c) ==
  /\ Len(list) \in Nat /\ 6 <= Len(list)
  /\ list[Len(list) - 5] = Bare("hold", c)
  /\ list[Len(list) - 4] = Rec("trigger", c, "mode", "fix")
  /\ list[Len(list) - 3] = Rec("trigger", c, "mode", "step")
  /\ list[Len(list) - 2] = Rec("trigger", c, "source", "bus")
  /\ list[Len(list) - 1] = Bare("init", c)
  /\ list[Len(list)] = Bare("trg", 0)

\* Every pulse does.
LEMMA PulseShape ==
  ASSUME NEW cmd
  PROVE  /\ EndsInPulse(PulseList(cmd), cmd.pulse)
         /\ \A i \in 1..Len(PulseList(cmd)) - 6 : PulseList(cmd)[i].op \in {"abort", "pins", "bus"}
<1> DEFINE c == cmd.pulse
           y1 == Bare("abort", c)
           y2 == Rec("pins", 0, "", cmd.pins)
           y3 == Bare("bus", 0)
           A == {y1, y2, y3}
           pre == On("abort", c) \o ConfigurePins(cmd.pins, FALSE)
           x1 == Bare("hold", c)
           x2 == Rec("trigger", c, "mode", "fix")
           x3 == Rec("trigger", c, "mode", "step")
           x4 == Rec("trigger", c, "source", "bus")
           x5 == Bare("init", c)
           x6 == Bare("trg", 0)
           R == A \cup {x1, x2, x3, x4, x5, x6}
<1>1. x1 \in R /\ x2 \in R /\ x3 \in R /\ x4 \in R /\ x5 \in R /\ x6 \in R
  OBVIOUS
<1>2. PulseList(cmd) = pre \o <<x1>> \o (<<x2>> \o <<x3>>) \o <<x4>> \o <<x5>> \o <<x6>>
  BY DEF PulseList, On, Call, Mode, Trigger, Rec, Bare
<1>3. pre \in Seq(A)
  <2>1. y1 \in A /\ y2 \in A /\ y3 \in A
    OBVIOUS
  <2> HIDE DEF A
  <2>2. \A y \in A : <<y>> \in Seq(A)
    OBVIOUS
  <2>3. <<y1>> \in Seq(A) /\ <<y2>> \in Seq(A) /\ <<y3>> \in Seq(A)
    BY <2>1, <2>2, Zenon
  <2>4. On("abort", c) \in Seq(A) /\ Call("pins", 0, "", cmd.pins) \in Seq(A) /\ On("bus", 0) \in Seq(A)
    BY <2>3 DEF On, Call, Rec, Bare
  <2>5. ConfigurePins(cmd.pins, FALSE) \in Seq(A)
    BY <2>4, JoinLists, WhenList DEF ConfigurePins
  <2> QED
    BY <2>4, <2>5, JoinLists
<1>17. \A y \in A : y.op \in {"abort", "pins", "bus"}
  <2>1. y1.op = "abort" /\ y3.op = "bus"
    BY BareParts
  <2>2. y2.op = "pins"
    <3>1. [op |-> "pins", ch |-> 0, key |-> "", val |-> cmd.pins].op = "pins"
      BY Zenon
    <3> QED
      BY <3>1, Zenon DEF Rec
  <2> HIDE DEF y1, y2, y3
  <2> QED
    BY <2>1, <2>2
<1>4. pre \in Seq(R) /\ Len(pre) \in Nat /\ \A i \in 1..Len(pre) : pre[i] \in A
  <2>1. A \subseteq R
    OBVIOUS
  <2> HIDE DEF A, R, pre
  <2> QED
    BY <1>3, <2>1, ItsElements
<1> HIDE DEF A, R, pre, x1, x2, x3, x4, x5, x6
<1> DEFINE l == Len(pre)
           s1 == pre \o <<x1>>
           s3 == s1 \o (<<x2>> \o <<x3>>)
           s4 == s3 \o <<x4>>
           s5 == s4 \o <<x5>>
           s6 == s5 \o <<x6>>
<1>5. s1 \in Seq(R) /\ Len(s1) = l + 1 /\ s1[l + 1] = x1 /\ \A i \in 1..l : s1[i] = pre[i]
  BY <1>1, <1>4, OneMore
<1>6. s3 = (s1 \o <<x2>>) \o <<x3>>
  <2>1. \A y \in R : <<y>> \in Seq(R)
    OBVIOUS
  <2>2. <<x2>> \in Seq(R) /\ <<x3>> \in Seq(R)
    BY <1>1, <2>1, Zenon
  <2> HIDE DEF s1
  <2> QED
    BY <1>5, <2>2, ConcatAssociative
<1> HIDE DEF s1
<1>7. /\ s3 \in Seq(R) /\ Len(s3) = l + 3 /\ s3[l + 1] = x1 /\ s3[l + 2] = x2 /\ s3[l + 3] = x3
      /\ \A i \in 1..l : s3[i] = pre[i]
  <2> DEFINE s2 == s1 \o <<x2>>
  <2>1. s2 \in Seq(R) /\ Len(s2) = l + 2 /\ s2[l + 2] = x2 /\ \A i \in 1..l + 1 : s2[i] = s1[i]
    <3>1. l \in Nat
      BY <1>4
    <3>2. s2 \in Seq(R) /\ Len(s2) = Len(s1) + 1 /\ s2[Len(s1) + 1] = x2 /\ \A i \in 1..Len(s1) : s2[i] = s1[i]
      BY <1>1, <1>5, OneMore
    <3>3. (l + 1) + 1 = l + 2
      BY <3>1
    <3> QED
      BY <1>5, <3>2, <3>3
  <2> HIDE DEF s2
  <2>2. s2 \o <<x3>> \in Seq(R) /\ Len(s2 \o <<x3>>) = Len(s2) + 1 /\ (s2 \o <<x3>>)[Len(s2) + 1] = x3
        /\ \A i \in 1..Len(s2) : (s2 \o <<x3>>)[i] = s2[i]
    BY <1>1, <2>1, OneMore
  <2>3. s3 = s2 \o <<x3>>
    BY <1>6 DEF s2
  <2>4. l \in Nat
    BY <1>4
  <2>5. (l + 2) + 1 = l + 3 /\ l + 2 \in 1..l + 2 /\ l + 1 \in 1..l + 2 /\ l + 1 \in 1..l + 1
        /\ \A i \in 1..l : i \in 1..l + 2 /\ i \in 1..l + 1
    BY <2>4
  <2> HIDE DEF s3
  <2> QED
    BY <1>5, <2>1, <2>2, <2>3, <2>5
<1> HIDE DEF s3
<1>8. /\ s4 \in Seq(R) /\ Len(s4) = l + 4 /\ s4[l + 4] = x4 /\ \A i \in 1..l + 3 : s4[i] = s3[i]
  <2>1. s4 \in Seq(R) /\ Len(s4) = Len(s3) + 1 /\ s4[Len(s3) + 1] = x4 /\ \A i \in 1..Len(s3) : s4[i] = s3[i]
    BY <1>1, <1>7, OneMore
  <2>2. (l + 3) + 1 = l + 4
    BY <1>4
  <2> QED
    BY <1>7, <2>1, <2>2
<1> HIDE DEF s4
<1>9. /\ s5 \in Seq(R) /\ Len(s5) = l + 5 /\ s5[l + 5] = x5 /\ \A i \in 1..l + 4 : s5[i] = s4[i]
  <2>1. s5 \in Seq(R) /\ Len(s5) = Len(s4) + 1 /\ s5[Len(s4) + 1] = x5 /\ \A i \in 1..Len(s4) : s5[i] = s4[i]
    BY <1>1, <1>8, OneMore
  <2>2. (l + 4) + 1 = l + 5
    BY <1>4
  <2> QED
    BY <1>8, <2>1, <2>2
<1> HIDE DEF s5
<1>10. /\ s6 \in Seq(R) /\ Len(s6) = l + 6 /\ s6[l + 6] = x6 /\ \A i \in 1..l + 5 : s6[i] = s5[i]
  <2>1. s6 \in Seq(R) /\ Len(s6) = Len(s5) + 1 /\ s6[Len(s5) + 1] = x6 /\ \A i \in 1..Len(s5) : s6[i] = s5[i]
    BY <1>1, <1>9, OneMore
  <2>2. (l + 5) + 1 = l + 6
    BY <1>4
  <2> QED
    BY <1>9, <2>1, <2>2
<1>11. PulseList(cmd) = s6
  BY <1>2 DEF s1, s3, s4, s5
<1> HIDE DEF s6, l
<1>12. l \in Nat
  BY <1>4 DEF l
<1>13. /\ s6[l + 1] = x1 /\ s6[l + 2] = x2 /\ s6[l + 3] = x3 /\ s6[l + 4] = x4 /\ s6[l + 5] = x5 /\ s6[l + 6] = x6
       /\ \A i \in 1..l : s6[i] = pre[i]
  <2>1. l + 1 \in 1..l + 3 /\ l + 2 \in 1..l + 3 /\ l + 3 \in 1..l + 3 /\ l + 4 \in 1..l + 4
        /\ l + 5 \in 1..l + 5 /\ 1..l + 3 \subseteq 1..l + 4 /\ 1..l + 4 \subseteq 1..l + 5 /\ 1..l \subseteq 1..l + 3
    BY <1>12
  <2>2. \A i \in 1..l + 4 : s6[i] = s4[i]
    BY <1>9, <1>10, <2>1
  <2>3. \A i \in 1..l + 3 : s6[i] = s3[i]
    BY <1>8, <2>1, <2>2
  <2> QED
    BY <1>7, <1>8, <1>9, <1>10, <2>1, <2>2, <2>3
<1>14. /\ (l + 6) - 5 = l + 1 /\ (l + 6) - 4 = l + 2 /\ (l + 6) - 3 = l + 3 /\ (l + 6) - 2 = l + 4
       /\ (l + 6) - 1 = l + 5 /\ (l + 6) - 6 = l /\ 6 <= l + 6 /\ l + 6 \in Nat
  BY <1>12
<1>15. EndsInPulse(PulseList(cmd), c)
  BY <1>10, <1>11, <1>13, <1>14 DEF EndsInPulse, x1, x2, x3, x4, x5, x6
<1>16. \A i \in 1..Len(PulseList(cmd)) - 6 : PulseList(cmd)[i].op \in {"abort", "pins", "bus"}
  BY <1>4, <1>10, <1>11, <1>13, <1>14, <1>17 DEF l
<1> QED
  BY <1>15, <1>16

\* A pulse of the script: after its first a calls, in one block.
PulseAt(cmd, a) ==
  /\ a \in Nat
  /\ \A i \in 1..Len(PulseList(cmd)) :
       /\ a + i \in 1..Len(ScriptOf[cmd]) /\ ScriptOf[cmd][a + i].call = PulseList(cmd)[i]
       /\ ScriptOf[cmd][a + i].block = ScriptOf[cmd][a + 1].block

\* Who is addressed at a place of the script.
LEMMA Addressed ==
  ASSUME NEW cmd \in Commands, NEW p \in 1..Len(ScriptOf[cmd])
  PROVE  LET k == ScriptOf[cmd][p].call
         IN  /\ k.op \in Switches \cup Writers => k.ch \in ToSet(cmd.channels)
             /\ k.op = "init" => k.ch \in ToSet(cmd.channels) \/ k.ch = cmd.pulse
             /\ k.op \in {"onifwas", "put"} => cmd.name = "restore-from-snapshot"
             /\ k.op \in Drafting => cmd.name = "snapshot"
             /\ k.op = "set" => k.key # "range"
             /\ k.op \in {"init", "trg"} => cmd.model = "independent"
             /\ k.op \in {"init", "trg"} /\ cmd.pulse # 0 =>
                  \E a : \E i \in 1..Len(PulseList(cmd)) : PulseAt(cmd, a) /\ p = a + i
<1> DEFINE B == BlocksOf(cmd)
           e == Ends(B)
           s == ScriptOf[cmd]
           k == s[p].call
<1>1. /\ Len(B) \in Nat /\ e \in [0..Len(B) -> Nat]
      /\ \A b \in 1..Len(B) : \A i \in 1..Len(B[b].calls) :
            /\ e[b - 1] + i \in 1..Len(s) /\ s[e[b - 1] + i].call = B[b].calls[i]
            /\ s[e[b - 1] + i].kind = B[b].kind /\ s[e[b - 1] + i].block = b
      /\ \A q \in 1..Len(s) : \E b \in 1..Len(B) : \E i \in 1..Len(B[b].calls) : q = e[b - 1] + i
  BY CommandPlaces
<1>2. \A b \in 1..Len(B) : B[b] \in PulseBlocks(cmd) \/ B[b].calls \in Lists(cmd)
  BY CommandScript
<1>3. PulseList(cmd) \in Seq(PulseCalls(cmd))
  BY CommandScript
<1>6. /\ cmd.pulse # 0 => cmd.name \notin TriggerNames
      /\ cmd.name \in TriggerNames \/ cmd.pulse # 0 => cmd.model = "independent"
  BY CommandFacts DEF Admitted, PulseNames, TriggerNames
<1> HIDE DEF B, e, s
<1>9. PICK b \in 1..Len(B) : \E i \in 1..Len(B[b].calls) : p = e[b - 1] + i
  BY <1>1 DEF s
<1>4. PICK i \in 1..Len(B[b].calls) : p = e[b - 1] + i
  BY <1>9
<1>5. k = B[b].calls[i]
  BY <1>1, <1>4
<1>7. CASE B[b].calls \in Lists(cmd)
  <2>1. k \in OwnCalls(cmd)
    BY <1>5, <1>7, ItsElements DEF Lists
  <2>2. Addresses(cmd, k.op, k.ch, k.key)
    BY <2>1 DEF OwnCalls
  <2> QED
    BY <1>6, <2>2 DEF Addresses, s
<1>8. CASE B[b] \in PulseBlocks(cmd)
  <2>1. B[b].calls = PulseList(cmd) /\ cmd.pulse # 0
    BY <1>8 DEF PulseBlocks, PulseBlock
  <2>2. k \in PulseCalls(cmd)
    BY <1>3, <1>5, <2>1, ItsElements
  <2>3. /\ k.op \notin Switches \cup Writers \cup Drafting \cup {"set", "put", "onifwas"}
        /\ k.op = "init" => k.ch = cmd.pulse
        /\ cmd.model = "independent"
    BY <1>6, <2>1, <2>2 DEF PulseCalls, Switches, Writers, Drafting
  <2>4. PulseAt(cmd, e[b - 1])
    <3>1. e[b - 1] \in Nat
      <4>1. b - 1 \in 0..Len(B)
        BY <1>1
      <4> QED
        BY <1>1, <4>1
    <3>2. 1 \in 1..Len(PulseList(cmd))
      <4>1. Len(PulseList(cmd)) \in Nat /\ 6 <= Len(PulseList(cmd))
        BY PulseShape DEF EndsInPulse
      <4> HIDE DEF PulseList
      <4> QED
        BY <4>1
    <3>3. ASSUME NEW j \in 1..Len(PulseList(cmd))
          PROVE  /\ e[b - 1] + j \in 1..Len(s) /\ s[e[b - 1] + j].call = PulseList(cmd)[j]
                 /\ s[e[b - 1] + j].block = b
      <4>1. j \in 1..Len(B[b].calls) /\ b \in 1..Len(B) /\ B[b].calls[j] = PulseList(cmd)[j]
        BY <1>1, <2>1
      <4> HIDE DEF PulseList
      <4> QED
        BY <1>1, <4>1
    <3> QED
      BY <3>1, <3>2, <3>3 DEF PulseAt, s
  <2> QED
    BY <1>4, <2>1, <2>3, <2>4 DEF s
<1> QED
  BY <1>2, <1>7, <1>8


\* How far a pulse of l calls on channel p has prepared the supply s before
\* its i-th call, when no write was rejected.
Prepared(s, p, l, i) ==
  /\ i > l - 5 => s.trig[p].level = s.set[p].voltage
  /\ i > l - 3 => s.trig[p].mode = "step"
  /\ i > l - 2 => s.trig[p].source = "bus"

\* A trigger setting that is written.
LEMMA TriggerWritten ==
  ASSUME NEW s, Shape(s), Fields(s), NEW p \in DOMAIN s.on, NEW key \in TriggerKeys, NEW v
  PROVE  LET t == WriteTrigger(s, p, key, v)
         IN  /\ t.trig[p][key] = v /\ \A k \in TriggerKeys \ {key} : t.trig[p][k] = s.trig[p][k]
             /\ t.set = s.set
BY DEF Shape, Fields, Parts, WriteTrigger

\* Each of its calls prepares one thing more.
LEMMA PreparedNext ==
  ASSUME Shape(inst), Fields(inst), NEW p \in DOMAIN inst.on, NEW list, EndsInPulse(list, p),
         NEW i \in 1..Len(list) - 1, call = list[i], Prepared(inst, p, Len(list), i)
  PROVE  Prepared(After, p, Len(list), i + 1)
<1> DEFINE l == Len(list)
<1>1. l \in Nat /\ 6 <= l /\ i \in Nat /\ 1 <= i /\ i <= l - 1
  <2>1. l \in Nat /\ 6 <= l /\ i \in 1..l - 1
    BY DEF EndsInPulse
  <2> HIDE DEF l
  <2> QED
    BY <2>1
<1>2. "level" \in TriggerKeys /\ "mode" \in TriggerKeys /\ "source" \in TriggerKeys
  BY DEF TriggerKeys
<1>3. /\ list[l - 5] = Bare("hold", p) /\ list[l - 4] = Rec("trigger", p, "mode", "fix")
      /\ list[l - 3] = Rec("trigger", p, "mode", "step") /\ list[l - 2] = Rec("trigger", p, "source", "bus")
      /\ list[l - 1] = Bare("init", p)
  BY DEF EndsInPulse
<1>4. Prepared(inst, p, l, i)
  OBVIOUS
<1> HIDE DEF l
<1>5. CASE i < l - 5
  <2>1. ~(i + 1 > l - 5) /\ ~(i + 1 > l - 3) /\ ~(i + 1 > l - 2)
    BY <1>1, <1>5
  <2> QED
    BY <2>1 DEF Prepared, l
<1>6. CASE i = l - 5
  <2>1. After = WriteTrigger(inst, p, "level", inst.set[p].voltage)
    <3>1. call = Bare("hold", p)
      BY <1>3, <1>6
    <3>2. call.op = "hold" /\ call.ch = p
      BY <3>1, BareParts
    <3> QED
      BY <3>2 DEF After
  <2>2. After.trig[p].level = After.set[p].voltage
    BY <1>2, <2>1, TriggerWritten
  <2>3. ~(i + 1 > l - 3) /\ ~(i + 1 > l - 2)
    BY <1>1, <1>6
  <2> QED
    BY <2>2, <2>3 DEF Prepared, l
<1>7. CASE i = l - 4
  <2>1. After = WriteTrigger(inst, p, "mode", "fix")
    <3>1. call = Rec("trigger", p, "mode", "fix")
      BY <1>3, <1>7
    <3>2. call.op = "trigger" /\ call.ch = p /\ call.key = "mode" /\ call.val = "fix"
      BY <3>1, ItsParts
    <3> QED
      BY <3>2 DEF After
  <2>2. After.trig[p].level = inst.trig[p].level /\ After.set = inst.set
    BY <1>2, <2>1, TriggerWritten
  <2>3. ~(i + 1 > l - 3) /\ ~(i + 1 > l - 2) /\ i > l - 5
    BY <1>1, <1>7
  <2> QED
    BY <1>4, <2>2, <2>3 DEF Prepared, l
<1>8. CASE i = l - 3
  <2>1. After = WriteTrigger(inst, p, "mode", "step")
    <3>1. call = Rec("trigger", p, "mode", "step")
      BY <1>3, <1>8
    <3>2. call.op = "trigger" /\ call.ch = p /\ call.key = "mode" /\ call.val = "step"
      BY <3>1, ItsParts
    <3> QED
      BY <3>2 DEF After
  <2>2. After.trig[p].level = inst.trig[p].level /\ After.trig[p].mode = "step" /\ After.set = inst.set
    BY <1>2, <2>1, TriggerWritten
  <2>3. ~(i + 1 > l - 2) /\ i > l - 5
    BY <1>1, <1>8
  <2> QED
    BY <1>4, <2>2, <2>3 DEF Prepared, l
<1>9. CASE i = l - 2
  <2>1. After = WriteTrigger(inst, p, "source", "bus")
    <3>1. call = Rec("trigger", p, "source", "bus")
      BY <1>3, <1>9
    <3>2. call.op = "trigger" /\ call.ch = p /\ call.key = "source" /\ call.val = "bus"
      BY <3>1, ItsParts
    <3> QED
      BY <3>2 DEF After
  <2>2. /\ After.trig[p].level = inst.trig[p].level /\ After.trig[p].mode = inst.trig[p].mode
        /\ After.trig[p].source = "bus" /\ After.set = inst.set
    BY <1>2, <2>1, TriggerWritten
  <2>3. i > l - 3 /\ i > l - 5
    BY <1>1, <1>9
  <2> QED
    BY <1>4, <2>2, <2>3 DEF Prepared, l
<1>10. CASE i = l - 1
  <2>1. After = InitiateOutputTrigger(inst, p) /\ call.op = "init"
    <3>1. call = Bare("init", p)
      BY <1>3, <1>10
    <3>2. call.op = "init" /\ call.ch = p
      BY <3>1, BareParts
    <3> QED
      BY <3>2 DEF After
  <2>2. i > l - 2 /\ i > l - 3 /\ i > l - 5
    BY <1>1, <1>10
  <2>3. inst.trig[p].source = "bus"
    BY <1>4, <2>2 DEF Prepared
  <2>4. After.set = inst.set
    <3>1. inst.trig[p].source # "imm"
      BY <2>3
    <3> QED
      BY <2>1, <3>1, TransientAlters
  <2>5. After.trig = inst.trig
    BY <2>1, AfterAlters
  <2> QED
    BY <1>4, <2>2, <2>4, <2>5 DEF Prepared, l
<1> QED
  BY <1>1, <1>5, <1>6, <1>7, <1>8, <1>9, <1>10

\* Within a pulse the supply is prepared as far as it has got.
PulseReady ==
  \A a : \A i \in 1..Len(PulseList(command)) :
    command.pulse # 0 /\ PulseAt(command, a) /\ phase = "run" /\ at + 1 = a + i /\ Hits("reject") = {} =>
      Prepared(inst, command.pulse, Len(PulseList(command)), i)

\* What waits on a channel of others was waiting before, or is the pulse's.
Armed ==
  \A c \in DOMAIN inst.on : c \notin Own /\ inst.init[c] = "armed" => before.init[c] = "armed" \/ c = command.pulse

\* The pulse's channel is one of the supply.
LEMMA PulseChannel ==
  ASSUME Sound, command.pulse # 0
  PROVE  command.pulse \in DOMAIN inst.on
<1>1. command \in Commands
  BY TheCommand DEF Sound
<1>2. command.pulse \in ChannelsOf(command.model)
  BY <1>1, CommandFacts DEF Admitted
<1> QED
  BY <1>2 DEF Sound, Shape

\* Zero is no channel.
LEMMA NoChannelZero ==
  ASSUME Sound
  PROVE  0 \notin DOMAIN inst.on
<1>1. command \in Commands
  BY TheCommand DEF Sound
<1>2. 0 \notin ChannelsOf(command.model)
  BY <1>1, CommandFacts
<1> QED
  BY <1>2 DEF Sound, Shape

\* Only a pulse of the command arms a channel that is not its own.
LEMMA StepArmed ==
  ASSUME Sound, Armed, [Next]_vars, index' = index
  PROVE  Armed'
<1>1. Shape(inst) /\ command \in Commands
  BY TheCommand DEF Sound
<1>2. before' = before /\ command' = command /\ DOMAIN inst'.on = DOMAIN inst.on
  BY SameCommand, SupplyKept DEF Sound, Shape
<1>3. Own' = Own
  BY <1>2 DEF Own
<1> SUFFICES ASSUME NEW c \in DOMAIN inst.on, c \notin Own, inst'.init[c] = "armed"
             PROVE  before.init[c] = "armed" \/ c = command.pulse
  BY <1>2, <1>3 DEF Armed
<1>4. inst.init[c] = "armed" => before.init[c] = "armed" \/ c = command.pulse
  BY DEF Armed
<1>5. CASE Running /\ inst' = After
  <2>1. inst.init[c] = "armed" \/ (call.op = "init" /\ call.ch = c)
    BY <1>1, <1>5, AfterInit
  <2>2. at + 1 \in 1..Len(script) /\ call = script[at + 1].call
    BY <1>5, Whereabouts DEF Running
  <2>3. call.op = "init" => call.ch \in Own \/ call.ch = command.pulse
    BY <1>1, <2>2, Addressed DEF Own, script
  <2> QED
    BY <1>4, <2>1, <2>3
<1>6. ASSUME NEW d, NEW key, NEW v, inst' = [WriteSetting(inst, d, key, v) EXCEPT !.queued = TRUE]
      PROVE  inst'.init = inst.init
  <2>1. Shape(WriteSetting(inst, d, key, v)) /\ WriteSetting(inst, d, key, v).init = inst.init
    BY <1>1, SettingAlters DEF Alters
  <2> HIDE DEF WriteSetting
  <2> QED
    BY <1>6, <2>1 DEF Shape, Parts
<1>7. inst'.init[c] \in {inst.init[c], "idle"} => inst.init[c] = "armed"
  OBVIOUS
<1> QED
  BY <1>4, <1>5, <1>6, <1>7, OtherwiseQuiet

\* Within a pulse every call follows the one before it.
LEMMA WithinPulse ==
  ASSUME NEW a, PulseAt(command, a), NEW i \in 2..Len(PulseList(command))
  PROVE  ~Boundary(a + i - 1)
<1>1. Len(PulseList(command)) \in Nat /\ a \in Nat
  BY PulseShape DEF EndsInPulse, PulseAt
<1>2. i \in 1..Len(PulseList(command)) /\ i - 1 \in 1..Len(PulseList(command))
      /\ a + (i - 1) = a + i - 1 /\ (a + i - 1) + 1 = a + i
  BY <1>1
<1>3. script[a + i].block = script[a + 1].block /\ script[a + (i - 1)].block = script[a + 1].block
  BY <1>2 DEF PulseAt, script
<1> QED
  BY <1>2, <1>3 DEF Boundary


\* What the actions of a step within a command have in common.
LEMMA ThreeWays ==
  ASSUME Sound, [Next]_vars, index' = index
  PROVE  \/ Running /\ Proceed /\ (Perform \/ Completed \/ Reject \/ Astray)
         \/ Running /\ \E kind : Throw(kind)
         \/ UNCHANGED <<phase, rest>> /\ inst'.set = inst.set /\ inst'.trig = inst.trig
         \/ phase' # "run"
         \/ rest' = script
<1>1. Shape(inst)
  BY DEF Sound
<1>2. ~NextCommand
  <2>1. index \in Nat
    BY TheCommand DEF Sound
  <2> QED
    BY <2>1 DEF NextCommand
<1>3. Perform \/ Completed \/ Reject \/ Astray => Running /\ Proceed
  BY DEF Perform, Completed, Reject, Astray
<1>4. Refuse \/ WaitFails \/ Raise => Running /\ \E kind : Throw(kind)
  BY DEF Refuse, WaitFails, Raise
<1>5. Open \/ Identified \/ NotOpened \/ Return => phase' # "run" \/ rest' = script
  BY DEF Open, Identified, NotOpened, Return, Begin, End, script
<1>6. RequestStop \/ UNCHANGED vars => UNCHANGED <<phase, rest>> /\ inst' = inst
  BY DEF RequestStop, vars, control
<1>7. ASSUME NEW d \in DOMAIN inst.on, Trip(d) \/ Settle(d)
      PROVE  UNCHANGED <<phase, rest>> /\ inst'.set = inst.set /\ inst'.trig = inst.trig
  <2>1. \/ inst' = [inst EXCEPT !.on[d] = FALSE, !.tripped[d] = TRUE]
        \/ inst' = [inst EXCEPT !.init[d] = "idle"]
    BY <1>7 DEF Trip, Settle
  <2>2. UNCHANGED <<phase, rest>>
    BY <1>7 DEF Trip, Settle, control
  <2> QED
    BY <1>1, <2>1, <2>2 DEF Shape, Parts
<1> QED
  BY <1>2, <1>3, <1>4, <1>5, <1>6, <1>7 DEF Next

\* A step keeps a pulse's preparation.
LEMMA StepReady ==
  ASSUME Sound, Fields(inst), PulseReady, [Next]_vars, index' = index
  PROVE  PulseReady'
<1> DEFINE list == PulseList(command)
           p == command.pulse
<1>1. Shape(inst) /\ command \in Commands /\ Len(script) \in Nat
  BY TheCommand DEF Sound
<1>2. command' = command /\ script' = script /\ hits \subseteq hits'
  BY SameCommand
<1>3. EndsInPulse(list, p)
  BY PulseShape
<1>4. Len(list) \in Nat /\ 6 <= Len(list)
  BY <1>3 DEF EndsInPulse
<1>5. \A i \in 1..Len(list) : list[i].op \notin {"wait", "set"}
  <2>1. list \in Seq(PulseCalls(command))
    BY <1>1, CommandScript
  <2>2. \A i \in 1..Len(list) : list[i] \in PulseCalls(command)
    BY <2>1, ItsElements
  <2> QED
    BY <2>2 DEF PulseCalls
<1> HIDE DEF list
<1> SUFFICES ASSUME NEW a, NEW i \in 1..Len(list), p # 0, PulseAt(command, a), phase' = "run", at' + 1 = a + i,
                    Hits("reject")' = {}
             PROVE  Prepared(inst', p, Len(list), i)
  BY <1>2 DEF PulseReady, list
<1>6. Hits("reject") = {}
  BY <1>2 DEF Hits
<1>7. p \in DOMAIN inst.on /\ a \in Nat
  BY PulseChannel DEF PulseAt
<1>8. CASE i = 1
  <2>1. ~(i > Len(list) - 5) /\ ~(i > Len(list) - 3) /\ ~(i > Len(list) - 2)
    BY <1>4, <1>8
  <2> QED
    BY <2>1 DEF Prepared
<1>9. CASE i # 1
  <2>1. i \in 2..Len(list) /\ i - 1 \in 1..Len(list) - 1 /\ i - 1 \in 1..Len(list) /\ (i - 1) + 1 = i
    BY <1>4, <1>9
  <2>2. ~Boundary(a + i - 1)
    BY <2>1, WithinPulse DEF list
  <2>3. CASE Running /\ Proceed /\ (Perform \/ Completed \/ Reject \/ Astray)
    <3>1. PICK m \in at + 1..Len(script) :
            rest' = Onward(script, m) /\ (m < Len(script) => m = at + 1 \/ Boundary(m))
      BY <2>3, OnProceed
    <3>2. at \in 0..Len(script)
      BY Whereabouts
    <3>3. m \in 0..Len(script)
      BY <1>1, <3>1, <3>2
    <3>4. at' = m
      BY <1>2, <3>1, <3>3, ItsPlace
    <3>5. m + 1 = a + i
      BY <3>4
    <3>6. a + i \in 1..Len(script)
      BY DEF PulseAt, script, list
    <3>7. m = a + i - 1 /\ m < Len(script)
      BY <1>1, <1>4, <1>7, <3>3, <3>5, <3>6
    <3>8. m = at + 1
      BY <2>2, <3>1, <3>7
    <3>9. at + 1 = a + (i - 1)
      BY <1>4, <1>7, <3>7, <3>8
    <3>10. phase = "run" /\ call = script[at + 1].call
      BY <2>3, Whereabouts DEF Running
    <3>11. call = list[i - 1]
      BY <2>1, <3>9, <3>10 DEF PulseAt, script, list
    <3>12. Prepared(inst, p, Len(list), i - 1)
      BY <1>6, <2>1, <3>9, <3>10 DEF PulseReady, list
    <3>13. Prepared(After, p, Len(list), (i - 1) + 1)
      BY <1>1, <1>3, <1>7, <2>1, <3>11, <3>12, PreparedNext
    <3>14. ~Completed /\ ~Astray
      BY <1>5, <2>1, <3>11 DEF Completed, Astray
    <3>15. ~Reject
      <4> SUFFICES ASSUME Reject PROVE FALSE
        OBVIOUS
      <4>1. Hit("reject") \in hits' /\ Hit("reject").what = "reject"
        BY DEF Reject, Disturb, Hit
      <4> QED
        BY <4>1 DEF Hits
    <3>16. inst' = After
      BY <2>3, <3>14, <3>15 DEF Perform
    <3> QED
      BY <2>1, <3>13, <3>16
  <2>4. CASE Running /\ \E kind : Throw(kind)
    <3>1. PICK m \in at + 1..Len(script) : rest' = Onward(script, m) /\ (m < Len(script) => Boundary(m))
      BY <2>4, OnThrow
    <3>2. at \in 0..Len(script)
      BY Whereabouts
    <3>3. m \in 0..Len(script)
      BY <1>1, <3>1, <3>2
    <3>4. at' = m
      BY <1>2, <3>1, <3>3, ItsPlace
    <3>5. m + 1 = a + i
      BY <3>4
    <3>6. a + i \in 1..Len(script)
      BY DEF PulseAt, script, list
    <3>7. m = a + i - 1 /\ m < Len(script)
      BY <1>1, <1>4, <1>7, <3>3, <3>5, <3>6
    <3> QED
      BY <2>2, <3>1, <3>7
  <2>5. CASE UNCHANGED <<phase, rest>> /\ inst'.set = inst.set /\ inst'.trig = inst.trig
    <3>1. at' = at
      BY <1>2, <2>5 DEF at
    <3>2. at + 1 = a + i /\ phase = "run"
      BY <2>5, <3>1
    <3>3. Prepared(inst, p, Len(list), i)
      BY <1>6, <3>2 DEF PulseReady, list
    <3> QED
      BY <2>5, <3>3 DEF Prepared
  <2>6. CASE rest' = script
    <3>1. at' = 0
      BY <1>1, <1>2, <2>6 DEF at
    <3>2. a + i = 1
      BY <3>1
    <3> QED
      BY <1>7, <2>1, <3>2
  <2> QED
    BY <2>3, <2>4, <2>5, <2>6, ThreeWays
<1> QED
  BY <1>8, <1>9

\* At the end of a pulse *TRG leaves the setpoints of its channel as they are.
LEMMA PulseKeepsLevel ==
  ASSUME Shape(inst), Fields(inst), NEW p \in DOMAIN inst.on,
         inst.trig[p].level = inst.set[p].voltage, inst.trig[p].mode = "step"
  PROVE  FireBusTrigger(inst).set[p] = inst.set[p]
<1>1. CASE Waiting(inst) = {}
  BY <1>1 DEF FireBusTrigger, Shape, Parts
<1>2. CASE Waiting(inst) # {}
  <2>1. FireBusTrigger(inst) = Start(inst, Waiting(inst))
    BY <1>2 DEF FireBusTrigger
  <2>2. /\ p \in DOMAIN inst.set
        /\ Start(inst, Waiting(inst)).set = [d \in DOMAIN inst.set |->
            IF d \notin Waiting(inst) THEN inst.set[d]
            ELSE CASE inst.trig[d].mode = "step" -> [inst.set[d] EXCEPT !.voltage = inst.trig[d].level]
                   [] inst.trig[d].mode = "list" -> [inst.set[d] EXCEPT !.voltage = inst.trig[d].list]
                   [] OTHER -> inst.set[d]]
    BY DEF Start, Shape, Parts
  <2>3. Start(inst, Waiting(inst)).set[p] \in {inst.set[p], [inst.set[p] EXCEPT !.voltage = inst.trig[p].level]}
    BY <2>2
  <2>4. inst.set[p] = [k \in Settings |-> inst.set[p][k]]
    BY DEF Fields
  <2>5. [inst.set[p] EXCEPT !.voltage = inst.set[p].voltage] = inst.set[p]
    BY <2>4
  <2> QED
    BY <2>1, <2>3, <2>5
<1> QED
  BY <1>1, <1>2


\* The place within a pulse that an INIT or *TRG of a command with a pulse has.
LEMMA PulseTurn ==
  ASSUME Sound, PulseReady, Running, command.pulse # 0, call.op \in {"init", "trg"}, Hits("reject") = {}
  PROVE  /\ call.op = "init" => inst.trig[command.pulse].source = "bus"
         /\ call.op = "trg" => /\ inst.trig[command.pulse].level = inst.set[command.pulse].voltage
                               /\ inst.trig[command.pulse].mode = "step"
<1> DEFINE list == PulseList(command)
           l == Len(list)
           p == command.pulse
<1>1. command \in Commands
  BY TheCommand DEF Sound
<1>2. at + 1 \in 1..Len(script) /\ call = script[at + 1].call /\ phase = "run"
  BY Whereabouts DEF Running
<1>3. PICK a : \E i \in 1..l : PulseAt(command, a) /\ at + 1 = a + i
  BY <1>1, <1>2, Addressed DEF script
<1>4. PICK i \in 1..l : PulseAt(command, a) /\ at + 1 = a + i
  BY <1>3
<1>5. call = list[i]
  BY <1>2, <1>4 DEF PulseAt, script
<1>6. Prepared(inst, p, l, i)
  BY <1>2, <1>4 DEF PulseReady
<1>7. EndsInPulse(list, p) /\ \A j \in 1..l - 6 : list[j].op \in {"abort", "pins", "bus"}
  BY PulseShape
<1>8. l \in Nat /\ 6 <= l /\ i \in Nat /\ 1 <= i /\ i <= l
  <2>1. l \in Nat /\ 6 <= l /\ i \in 1..l
    BY <1>4, <1>7 DEF EndsInPulse
  <2> HIDE DEF l
  <2> QED
    BY <2>1
<1>9. /\ list[l - 5].op = "hold" /\ list[l - 4].op = "trigger" /\ list[l - 3].op = "trigger"
      /\ list[l - 2].op = "trigger" /\ list[l - 1].op = "init" /\ list[l].op = "trg"
  <2>1. /\ list[l - 5] = Bare("hold", p) /\ list[l - 4] = Rec("trigger", p, "mode", "fix")
        /\ list[l - 3] = Rec("trigger", p, "mode", "step") /\ list[l - 2] = Rec("trigger", p, "source", "bus")
        /\ list[l - 1] = Bare("init", p) /\ list[l] = Bare("trg", 0)
    BY <1>7 DEF EndsInPulse
  <2> HIDE DEF l, list
  <2> QED
    BY <2>1, ItsParts, BareParts
<1> HIDE DEF list, l
<1>10. i \in 1..l - 6 \/ i = l - 5 \/ i = l - 4 \/ i = l - 3 \/ i = l - 2 \/ i = l - 1 \/ i = l
  BY <1>8
<1>11. i = l - 1 \/ i = l
  <2>1. i \notin 1..l - 6
    BY <1>5, <1>7
  <2> QED
    BY <1>5, <1>9, <1>10, <2>1
<1>12. CASE i = l - 1
  <2>1. call.op = "init" /\ i > l - 2
    BY <1>5, <1>8, <1>9, <1>12
  <2> QED
    BY <1>6, <2>1 DEF Prepared
<1>13. CASE i = l
  <2>1. call.op = "trg" /\ i > l - 3 /\ i > l - 5
    BY <1>5, <1>8, <1>9, <1>13
  <2> QED
    BY <1>6, <2>1 DEF Prepared
<1> QED
  BY <1>11, <1>12, <1>13

\* What a call does to the setpoints of a channel that is not the command's.
LEMMA ForeignSet ==
  ASSUME Sound, Fields(inst), Armed, PulseReady, Running,
         NEW c \in DOMAIN inst.on, c \notin Own, After.set[c] # inst.set[c]
  PROVE  \/ c \in Waiting(inst) /\ before.init[c] = "armed"
         \/ c = command.pulse /\ Hits("reject") # {}
<1>1. Shape(inst) /\ command \in Commands
  BY TheCommand DEF Sound
<1>2. at + 1 \in 1..Len(script) /\ call = script[at + 1].call
  BY Whereabouts DEF Running
<1>3. /\ call.op \in Writers => call.ch \in Own
      /\ call.op = "init" => call.ch \in Own \/ call.ch = command.pulse
  BY <1>1, <1>2, Addressed DEF Own, script
<1>4. \/ call.op = "init" /\ call.ch = c /\ inst.trig[c].source = "imm"
      \/ call.op = "trg" /\ c \in Waiting(inst)
  BY <1>1, <1>3, AfterSet
<1>5. c # 0
  BY NoChannelZero
<1>6. CASE call.op = "init" /\ call.ch = c /\ inst.trig[c].source = "imm"
  <2>1. c = command.pulse /\ command.pulse # 0
    BY <1>3, <1>5, <1>6
  <2>2. Hits("reject") # {}
    BY <1>6, <2>1, PulseTurn
  <2> QED
    BY <2>1, <2>2
<1>7. CASE call.op = "trg" /\ c \in Waiting(inst)
  <2>1. before.init[c] = "armed" \/ c = command.pulse
    BY <1>7 DEF Armed, Waiting
  <2>2. ASSUME c = command.pulse, Hits("reject") = {} PROVE FALSE
    <3>1. inst.trig[c].level = inst.set[c].voltage /\ inst.trig[c].mode = "step"
      BY <1>5, <1>7, <2>2, PulseTurn
    <3>2. FireBusTrigger(inst).set[c] = inst.set[c]
      BY <1>1, <3>1, PulseKeepsLevel
    <3>3. After = FireBusTrigger(inst)
      BY <1>7 DEF After
    <3> QED
      BY <3>2, <3>3
  <2> QED
    BY <1>7, <2>1, <2>2
<1> QED
  BY <1>4, <1>6, <1>7

\* And what it does to its switch.
LEMMA ForeignSwitch ==
  ASSUME Sound, Running, NEW c \in DOMAIN inst.on, c \notin Own, After.on[c] # inst.on[c]
  PROVE  inst.model = "global"
<1>1. Shape(inst) /\ command \in Commands
  BY TheCommand DEF Sound
<1>2. at + 1 \in 1..Len(script) /\ call = script[at + 1].call
  BY Whereabouts DEF Running
<1>3. call.op \in Switches => call.ch \in Own
  BY <1>1, <1>2, Addressed DEF Own, script
<1>4. Shape(After) /\ After.model = inst.model
  BY <1>1, AfterAlters
<1>5. inst.on[c] \in BOOLEAN /\ After.on[c] \in BOOLEAN
  BY <1>1, <1>4 DEF Shape
<1>6. call.op \in Switches /\ c \in Switched(inst, call.ch)
  <2>1. CASE After.on[c] /\ ~inst.on[c]
    BY <1>1, <2>1, AfterOn DEF Switches
  <2>2. CASE ~After.on[c] /\ inst.on[c]
    BY <1>1, <2>2, AfterOn DEF Switches
  <2> QED
    BY <1>5, <2>1, <2>2
<1> QED
  BY <1>3, <1>6 DEF Switched

\* A command changes the setpoints and the switch of its own channels only,
\* but for what others had armed, a pulse after a rejected write, a lost
\* selection, a tripping protection and the one switch of an E3646A: for every
\* program, number of channels and disturbance (Commands!OnlyOwnChannelsChange).
THEOREM OthersLeftAlone == Spec => OnlyOwnChannelsChange
<1> DEFINE Inv == Sound /\ Fields(inst) /\ Armed /\ PulseReady
<1>1. Init => Inv
  <2> SUFFICES ASSUME Init PROVE Inv
    OBVIOUS
  <2>1. Sound
    BY InitSound
  <2>2. Fields(inst)
    BY InitFields
  <2>3. Armed
    BY DEF Init, Armed
  <2>4. PulseReady
    BY DEF Init, PulseReady
  <2> QED
    BY <2>1, <2>2, <2>3, <2>4
<1>2. Inv /\ [Next]_vars => Inv'
  <2> SUFFICES ASSUME Inv, [Next]_vars PROVE Inv'
    OBVIOUS
  <2>1. Sound' /\ Fields(inst')
    BY StepSound, StepKeepsFields
  <2>2. CASE index' = index
    BY <2>1, <2>2, StepArmed, StepReady
  <2>3. CASE index' # index
    <3>1. NextCommand
      BY <2>3 DEF Next, Open, Identified, NotOpened, Perform, Refuse, Completed, WaitFails, Raise, Reject,
                  Astray, Return, RequestStop, Trip, Settle, Proceed, Throw, control, vars
    <3>2. phase' # "run" /\ inst' = before'
      BY <3>1 DEF NextCommand
    <3>3. Armed' /\ PulseReady'
      BY <3>2 DEF Armed, PulseReady
    <3> QED
      BY <2>1, <3>3
  <2> QED
    BY <2>2, <2>3
<1>3. ASSUME Inv, [Next]_vars, index' = index, NEW c \in DOMAIN inst.on, c \notin Own
      PROVE  /\ inst'.set[c] # inst.set[c] =>
                  \/ c \in Waiting(inst) /\ before.init[c] = "armed"
                  \/ c = command.pulse /\ Hits("reject") # {}
                  \/ Astray
             /\ inst'.on[c] # inst.on[c] => (inst'.tripped[c] \/ inst.model = "global")
  <2>1. CASE Running /\ inst' = After
    BY <1>3, <2>1, ForeignSet, ForeignSwitch
  <2>2. ASSUME Astray, NEW d, NEW key, NEW v, inst' = [WriteSetting(inst, d, key, v) EXCEPT !.queued = TRUE]
        PROVE  inst'.on[c] = inst.on[c]
    <3>1. Shape(WriteSetting(inst, d, key, v)) /\ WriteSetting(inst, d, key, v).on = inst.on
      BY <1>3, SettingAlters DEF Alters, Sound
    <3> HIDE DEF WriteSetting
    <3>2. inst'.on = inst.on
      BY <2>2, <3>1 DEF Shape, Parts
    <3> QED
      BY <3>2
  <2>3. CASE inst'.set = inst.set /\ (inst'.on[c] = inst.on[c] \/ inst'.tripped[c])
    BY <2>3
  <2> QED
    BY <1>3, <2>1, <2>2, <2>3, OtherwiseQuiet
<1>4. Inv /\ [Next]_vars =>
        [\A c \in DOMAIN inst.on :
          index' = index /\ c \notin Own =>
            /\ inst'.set[c] # inst.set[c] =>
                \/ c \in Waiting(inst) /\ before.init[c] = "armed"
                \/ c = command.pulse /\ Hits("reject") # {}
                \/ Astray
            /\ inst'.on[c] # inst.on[c] => (inst'.tripped[c] \/ inst.model = "global")]_vars
  BY <1>3
<1> HIDE DEF Inv
<1> QED
  BY <1>1, <1>2, <1>4, PTL DEF Spec, OnlyOwnChannelsChange

\* A block has one kind.
LEMMA SameKind ==
  ASSUME NEW cmd \in Commands
  PROVE  \A p, q \in 1..Len(ScriptOf[cmd]) :
           ScriptOf[cmd][p].block = ScriptOf[cmd][q].block => ScriptOf[cmd][p].kind = ScriptOf[cmd][q].kind
<1> DEFINE B == BlocksOf(cmd)
           e == Ends(B)
           s == ScriptOf[cmd]
<1>1. /\ \A b \in 1..Len(B) : \A i \in 1..Len(B[b].calls) :
            /\ e[b - 1] + i \in 1..Len(s) /\ s[e[b - 1] + i].call = B[b].calls[i]
            /\ s[e[b - 1] + i].kind = B[b].kind /\ s[e[b - 1] + i].block = b
      /\ \A p \in 1..Len(s) : \E b \in 1..Len(B) : \E i \in 1..Len(B[b].calls) : p = e[b - 1] + i
  BY CommandPlaces
<1> HIDE DEF B, e, s
<1>2. \A p \in 1..Len(s) : s[p].kind = B[s[p].block].kind
  <2> SUFFICES ASSUME NEW p \in 1..Len(s) PROVE s[p].kind = B[s[p].block].kind
    OBVIOUS
  <2>1. PICK b \in 1..Len(B) : \E i \in 1..Len(B[b].calls) : p = e[b - 1] + i
    BY <1>1
  <2>2. s[p].kind = B[b].kind /\ s[p].block = b
    BY <1>1, <2>1
  <2> QED
    BY <2>2
<1> QED
  BY <1>2 DEF s

\* Where a block starts.
LEMMA BlockStart ==
  ASSUME NEW s, NEW j \in Nat \ {0}
  PROVE  \E i \in 1..j : /\ \A p \in i..j : s[p].block = s[j].block
                         /\ i = 1 \/ s[i].block # s[i - 1].block
<1> DEFINE S == {i \in 1..j : \A p \in i..j : s[p].block = s[j].block}
<1>1. j \in S
  OBVIOUS
<1>2. S \subseteq Nat
  OBVIOUS
<1> HIDE DEF S
<1>3. PICK i \in S : \A x \in S : i <= x
  BY <1>1, <1>2, LeastExists
<1>4. i \in 1..j /\ \A p \in i..j : s[p].block = s[j].block
  BY <1>3 DEF S
<1>5. ASSUME i # 1, s[i].block = s[i - 1].block PROVE FALSE
  <2>1. i - 1 \in 1..j /\ i \in i..j /\ \A p \in i - 1..j : p = i - 1 \/ p \in i..j
    BY <1>4, <1>5
  <2>2. i - 1 \in S
    BY <1>4, <1>5, <2>1 DEF S
  <2>3. i <= i - 1
    BY <1>3, <2>2
  <2> QED
    BY <1>4, <2>3
<1> QED
  BY <1>4, <1>5

\* The calls a command may go on with: the next one, unless one raised, and the
\* first of every later block.
LaterCalls(thrown) == IF thrown THEN LaterBlocks ELSE LaterBlocks \cup ({2} \cap DOMAIN rest)

\* The blocks that run whatever happened before them.
Always == {"cleanup", "effort"}

\* The blocks that run only when something was raised.
Skipped == {"waitfail", "failure"}

\* The call that ends in a place can be reached from the one that runs.
Reached(thrown, j) == thrown => script[j].block # script[at + 1].block

\* A command goes on at a call that always runs at the latest, and passes over
\* a plain call only to end.
LEMMA CallsMove ==
  ASSUME Sound, Running, NEW thrown \in BOOLEAN, NEW pend, NEW fld
  PROVE  \E m \in at + 1..Len(script) :
           /\ From(LaterCalls(thrown), pend, fld) = Onward(script, m)
           /\ \A j \in at + 2..Len(script) :
                /\ Reached(thrown, j) /\ script[j].kind \in Always /\ (\A i \in at + 2..j : script[i].kind # "plain")
                     => m < j
                /\ Reached(thrown, j) /\ j <= m /\ m < Len(script) => script[j].kind # "plain"
                /\ Reached(thrown, j) /\ j <= m /\ pend = "none" /\ fld = FALSE => script[j].kind \in Skipped
<1> DEFINE l == Len(script)
           n == at
           calls == LaterCalls(thrown)
<1>1. /\ script \in Seq(Entries(command)) /\ l \in Nat /\ n \in 0..l /\ rest = Onward(script, n) /\ n < l
      /\ DOMAIN rest = 1..l - n /\ \A p \in 1..l - n : rest[p] = script[n + p]
  <2>1. script \in Seq(Entries(command))
    BY TheCommand DEF Sound
  <2>2. /\ l \in Nat /\ n \in 0..l /\ rest = Onward(script, n) /\ n # l
        /\ DOMAIN rest = 1..l - n /\ \A p \in 1..l - n : rest[p] = script[n + p]
    BY Whereabouts DEF Running
  <2> QED
    BY <2>1, <2>2
<1>2. \A p, q \in 1..l : script[p].block = script[q].block => script[p].kind = script[q].kind
  <2>1. command \in Commands
    BY TheCommand DEF Sound
  <2> QED
    BY <2>1, SameKind DEF script
<1> HIDE DEF n, l
<1>3. Len(rest) = l - n
  BY <1>1, Remainder DEF l
<1>4. calls \subseteq 2..l - n /\ (~thrown /\ 2 <= l - n => 2 \in calls)
      /\ \A p \in 2..l - n : rest[p].block # rest[p - 1].block => p \in calls
  BY <1>1, <1>3 DEF LaterBlocks, LaterCalls
<1> HIDE DEF calls
<1>5. PICK m \in n..l :
        /\ n < l => n < m
        /\ From(calls, pend, fld) = Onward(script, m)
        /\ m = l \/ (m - n + 1 \in calls /\ Runs(script[m + 1].kind, pend, fld))
        /\ \A p \in calls :
             (Runs(script[n + p].kind, pend, fld) /\ \A q \in calls : q < p => script[n + q].kind # "plain")
               => m < l /\ m + 1 <= n + p
        /\ Passed(script, n, m, calls, pend, fld)
  <2>1. /\ script \in Seq(Entries(command)) /\ n \in 0..Len(script) /\ calls \subseteq 2..Len(script) - n
        /\ rest = Onward(script, n) /\ l = Len(script)
    BY <1>1, <1>4 DEF l
  <2>2. \E m \in n..Len(script) :
          GoesTo(script, n, m, calls, pend, fld) /\ Passed(script, n, m, calls, pend, fld)
    BY <2>1, GoesOn
  <2> QED
    BY <2>1, <2>2 DEF GoesTo
<1>6. m \in n + 1..l
  BY <1>1, <1>5
<1>7. ASSUME NEW j \in n + 2..l, Reached(thrown, j)
      PROVE  \E p \in calls : n + p <= j /\ script[n + p].kind = script[j].kind
  <2>1. j \in Nat \ {0} /\ j \in 1..l
    BY <1>1
  <2>2. PICK i \in 1..j : /\ \A p \in i..j : script[p].block = script[j].block
                          /\ i = 1 \/ script[i].block # script[i - 1].block
    BY <2>1, BlockStart
  <2>3. CASE i <= n + 1
    <3>1. n + 1 \in i..j /\ n + 2 \in i..j /\ n + 2 \in 1..l /\ 2 <= l - n
      BY <1>1, <2>3
    <3>2. script[n + 1].block = script[j].block /\ script[n + 2].block = script[j].block
      BY <2>2, <3>1
    <3>3. ~thrown
      BY <1>7, <3>2 DEF Reached, n
    <3>4. 2 \in calls /\ script[n + 2].kind = script[j].kind
      BY <1>2, <1>4, <2>1, <3>1, <3>2, <3>3
    <3>5. n + 2 <= j
      BY <3>1
    <3> QED
      BY <3>4, <3>5
  <2>4. CASE ~(i <= n + 1)
    <3> DEFINE p == i - n
    <3>1. p \in 2..l - n /\ p \in 1..l - n /\ p - 1 \in 1..l - n /\ n + p = i /\ n + (p - 1) = i - 1 /\ i # 1
          /\ i \in i..j /\ i \in 1..l
      BY <1>1, <2>4
    <3>2. rest[p] = script[i] /\ rest[p - 1] = script[i - 1]
      BY <1>1, <3>1
    <3>3. p \in calls
      BY <1>4, <2>2, <3>1, <3>2
    <3>4. script[i].kind = script[j].kind
      BY <1>2, <2>1, <2>2, <3>1
    <3> QED
      BY <3>1, <3>3, <3>4
  <2> QED
    BY <2>3, <2>4
<1>8. ASSUME NEW j \in n + 2..l, Reached(thrown, j), script[j].kind \in Always,
             \A i \in n + 2..j : script[i].kind # "plain"
      PROVE  m < j
  <2>1. PICK p \in calls : n + p <= j /\ script[n + p].kind = script[j].kind
    BY <1>7, <1>8
  <2>2. Runs(script[n + p].kind, pend, fld)
    BY <1>8, <2>1 DEF Runs, Always
  <2>3. \A q \in calls : q < p => script[n + q].kind # "plain"
    <3> SUFFICES ASSUME NEW q \in calls, q < p PROVE n + q \in n + 2..j
      BY <1>8
    <3>1. q \in 2..l - n /\ p \in 2..l - n
      BY <1>4
    <3> QED
      BY <1>1, <2>1, <3>1
  <2>4. m + 1 <= n + p
    BY <1>5, <2>2, <2>3
  <2>5. p \in 2..l - n
    BY <1>4
  <2> QED
    BY <1>1, <1>6, <2>1, <2>4, <2>5
<1>9. ASSUME NEW j \in n + 2..l, Reached(thrown, j), j <= m, m < l
      PROVE  script[j].kind # "plain"
  <2>1. PICK p \in calls : n + p <= j /\ script[n + p].kind = script[j].kind
    BY <1>7, <1>9
  <2>2. n + p <= m
    <3>1. p \in 2..l - n
      BY <1>4
    <3> QED
      BY <1>1, <1>6, <1>9, <2>1, <3>1
  <2> QED
    BY <1>5, <1>9, <2>1, <2>2 DEF Passed, l
<1>10. ASSUME NEW j \in n + 2..l, Reached(thrown, j), j <= m, pend = "none", fld = FALSE
       PROVE  script[j].kind \in Skipped
  <2>1. PICK p \in calls : n + p <= j /\ script[n + p].kind = script[j].kind
    BY <1>7, <1>10
  <2>2. n + p <= m
    <3>1. p \in 2..l - n
      BY <1>4
    <3> QED
      BY <1>1, <1>6, <1>10, <2>1, <3>1
  <2>3. ~Runs(script[j].kind, pend, fld)
    BY <1>5, <1>10, <2>1, <2>2 DEF Passed
  <2> QED
    BY <1>10, <2>3 DEF Runs, Skipped
<1> QED
  BY <1>5, <1>6, <1>8, <1>9, <1>10 DEF l, n, calls

\* Where a step of a command leads.
LEMMA OnMove ==
  ASSUME Sound, Running, NEW thrown \in BOOLEAN,
         ~thrown => Proceed, thrown => \E kind : Throw(kind)
  PROVE  \E m \in at + 1..Len(script) :
           /\ rest' = Onward(script, m)
           /\ \A j \in at + 2..Len(script) :
                /\ /\ script[j].kind \in Always /\ \A i \in at + 2..j : script[i].kind # "plain"
                   /\ thrown => block \notin {"plain", "cleanup"} /\ script[j].block # script[at + 1].block
                   => m < j
                /\ j <= m /\ m < Len(script) => script[j].kind # "plain"
<1>1. CASE ~thrown
  <2>1. rest' = From(LaterCalls(thrown), pending, failed)
    BY <1>1 DEF Proceed, LaterCalls
  <2>2. PICK m \in at + 1..Len(script) :
           /\ From(LaterCalls(thrown), pending, failed) = Onward(script, m)
           /\ \A j \in at + 2..Len(script) :
                /\ Reached(thrown, j) /\ script[j].kind \in Always /\ (\A i \in at + 2..j : script[i].kind # "plain")
                     => m < j
                /\ Reached(thrown, j) /\ j <= m /\ m < Len(script) => script[j].kind # "plain"
                /\ Reached(thrown, j) /\ j <= m /\ pending = "none" /\ failed = FALSE => script[j].kind \in Skipped
    BY CallsMove
  <2> HIDE DEF at
  <2> QED
    BY <1>1, <2>1, <2>2 DEF Reached
<1>2. CASE thrown /\ block \in {"plain", "cleanup"}
  <2>1. rest' = << >>
    BY <1>2 DEF Throw
  <2>2. /\ Len(script) \in Nat /\ at \in 0..Len(script) /\ at # Len(script)
        /\ script \in Seq(Entries(command))
    BY Whereabouts, TheCommand DEF Sound, Running
  <2> HIDE DEF at
  <2>3. Len(script) \in at + 1..Len(script) /\ Len(script) \in 0..Len(script)
    BY <2>2
  <2>4. Onward(script, Len(script)) = << >>
    BY <2>2, <2>3, Remainder
  <2>5. ~(Len(script) < Len(script))
    BY <2>2
  <2> QED
    BY <1>2, <2>1, <2>3, <2>4, <2>5
<1>3. CASE thrown /\ block \notin {"plain", "cleanup"}
  <2>1. rest' = From(LaterCalls(thrown), pending', failed')
    BY <1>3 DEF Throw, LaterCalls
  <2>2. PICK m \in at + 1..Len(script) :
           /\ From(LaterCalls(thrown), pending', failed') = Onward(script, m)
           /\ \A j \in at + 2..Len(script) :
                /\ Reached(thrown, j) /\ script[j].kind \in Always /\ (\A i \in at + 2..j : script[i].kind # "plain")
                     => m < j
                /\ Reached(thrown, j) /\ j <= m /\ m < Len(script) => script[j].kind # "plain"
                /\ Reached(thrown, j) /\ j <= m /\ pending' = "none" /\ failed' = FALSE => script[j].kind \in Skipped
    BY CallsMove
  <2>3. \A j \in at + 2..Len(script) : script[j].block = script[at + 1].block => script[j].kind # "plain"
    <3>1. command \in Commands
      BY TheCommand DEF Sound
    <3>2. at + 1 \in 1..Len(script) /\ block = script[at + 1].kind /\ at \in 0..Len(script) /\ Len(script) \in Nat
      BY Whereabouts DEF Running
    <3>3. \A p, q \in 1..Len(script) : script[p].block = script[q].block => script[p].kind = script[q].kind
      BY <3>1, SameKind DEF script
    <3> HIDE DEF at
    <3>4. \A j \in at + 2..Len(script) : j \in 1..Len(script)
      BY <3>2
    <3> QED
      BY <1>3, <3>2, <3>3, <3>4
  <2> HIDE DEF at
  <2> QED
    BY <1>3, <2>1, <2>2, <2>3 DEF Reached
<1> QED
  BY <1>1, <1>2, <1>3

-----------------------------------------------------------------------------
(* The scripts that put the triggers back                                  *)

\* The calls that do, and what each of them undoes.
Undoings == {"abort", "restore", "trigger", "restorepins", "restorebus"}
Undoes(s, j, op, c, key) ==
  s[j].kind \in Always /\ s[j].call.op = op /\ s[j].call.ch = c /\ (op = "restore" => s[j].call.key = key)

\* The a-th call of the script s saves the last of the triggers of the channels
\* T, nothing is touched before, and after the f-th everything is put back,
\* whatever happened, channel by channel.
Mends(s, T, a, f) ==
  /\ a \in 1..f /\ f \in 1..Len(s) /\ 0 \notin T
  /\ s[a].call.op = "save"
  /\ \A j \in 1..Len(s) : s[j].call.op = "save" =>
        j <= a /\ s[j].kind = "plain" /\ s[j].call.ch \in T /\ (j < a => s[j].call.ch # s[a].call.ch)
  /\ \A c \in T : \E j \in 1..a : s[j].call.op = "save" /\ s[j].call.ch = c
  /\ \A j \in 1..a : s[j].call.op \in Touching => s[j].call.op = "save"
  /\ \A j \in a + 1..f :
        /\ s[j].kind \in {"try", "collect", "waitfail"} /\ s[j].call.op \notin {"restore", "restorepins", "restorebus"}
        /\ s[j].call.op \in {"trigger", "hold"} => s[j].call.ch \in T
        /\ s[j].call.op = "trigger" => s[j].call.key \in TriggerKeys
  /\ \A j \in f + 1..Len(s) :
        \/ s[j].call.op = "errors" /\ s[j].call.ch = 0 /\ s[j].kind \in {"plain", "effort"}
        \/ /\ s[j].call.op \in Undoings /\ s[j].call.ch \in T /\ s[j].kind \in Always
           /\ s[j].call.op \in {"restore", "trigger"} => s[j].call.key \in TriggerKeys
  /\ \A j \in f + 1..Len(s) : s[j].call.op = "trigger" =>
        j + 1 \in f + 1..Len(s) /\ Undoes(s, j + 1, "restore", s[j].call.ch, s[j].call.key)
  /\ \A c \in T :
        /\ \E j \in f + 1..Len(s) : Undoes(s, j, "abort", c, "")
        /\ \A key \in TriggerKeys : \E j \in f + 1..Len(s) : Undoes(s, j, "restore", c, key)
  /\ \E c : \E j \in f + 1..Len(s) : Undoes(s, j, "restorepins", c, "")
  /\ \E c : \E j \in f + 1..Len(s) : Undoes(s, j, "restorebus", c, "")
  /\ \A i, j \in f + 1..Len(s) :
        /\ s[i].block = s[j].block => s[i].call.ch = s[j].call.ch
        /\ i < j /\ s[i].block = s[j].block => s[j].call.op # "abort"
        /\ i < j /\ s[i].kind \in {"plain", "cleanup"} /\ s[j].call.op \in Undoings => s[i].block = s[j].block

-----------------------------------------------------------------------------
(* What is put back                                                        *)

\* A call that is still to come undoes it, or it was disturbed.
Ahead(f, op, c, key) == \E j \in at + 1..Len(script) : f < j /\ Undoes(script, j, op, c, key)
Spoiled(op, c) == \E h \in hits : InCleanup(h) /\ h.ch = c /\ (op = "abort" => h.op = "abort")
Owing(f, op, c, key) == Ahead(f, op, c, key) \/ Spoiled(op, c)

\* The snapshots are right.
SavedRight ==
  \A c \in DOMAIN saved : saved[c] = [trig |-> before.trig[c], pins |-> before.pins, bus |-> before.bus]

\* Before the last snapshot nothing was touched.
Early(a) ==
  /\ inst.trig = before.trig /\ inst.pins = before.pins /\ inst.bus = before.bus
  /\ \A c \in DOMAIN inst.on : inst.init[c] \in {before.init[c], "idle"}
  /\ ~(TriggerChannels \subseteq DOMAIN saved)
  /\ phase \in {"opening", "identify"} => saved = Nothing
  /\ rest # << >> => at < a /\ \A c : c \in DOMAIN saved <=>
                                   \E j \in 1..at : script[j].call.op = "save" /\ script[j].call.ch = c

\* After it, what was touched is as it was, or is still put back, or the calls
\* that put it back were disturbed.
Late(a, f) ==
  /\ TriggerChannels \subseteq DOMAIN saved /\ a <= at /\ phase \in {"run", "ended"}
  /\ \A c \in DOMAIN inst.on : \A key \in TriggerKeys :
        inst.trig[c][key] = before.trig[c][key] \/ Owing(f, "restore", c, key)
  /\ \A c \in TriggerChannels : inst.init[c] = "idle" \/ Owing(f, "abort", c, "")
  /\ inst.pins = before.pins \/ \E c : Owing(f, "restorepins", c, "")
  /\ inst.bus = before.bus \/ \E c : Owing(f, "restorebus", c, "")

\* So it is for every command that puts its triggers back.
Configured == TriggerChannels # {} /\ ~Has(command, "leave")
Mending ==
  Configured => SavedRight /\ \E a, f : Mends(script, TriggerChannels, a, f) /\ (Early(a) \/ Late(a, f))

\* What calls do to the pins.
LEMMA AfterPins ==
  ASSUME Shape(inst)
  PROVE  /\ call.op \notin {"pins", "clearpins", "restorepins"} => After.pins = inst.pins
         /\ call.op \notin {"bus", "restorebus"} => After.bus = inst.bus
         /\ call.op = "restorepins" => After.pins = saved[call.ch].pins
         /\ call.op = "restorebus" => After.bus = saved[call.ch].bus
<1> DEFINE c == call.ch
<1>1. Alters(inst, inst, {})
  BY DEF Alters, Shape
<1>2. CASE call.op \in Switches
  <2>1. \/ After = inst \/ After = OutputOn(inst, c) \/ After = OutputOff(inst, c)
    BY <1>2 DEF After, Switches
  <2> QED
    BY <1>2, <2>1, SwitchAlters DEF Alters, Switches
<1>3. CASE call.op \in Writers
  <2>1. \/ After = inst \/ \E key, v : After = WriteSetting(inst, c, key, v)
        \/ \E v, i : After = PrepareOutputPair(inst, c, v, i)
    BY <1>3 DEF After, Writers
  <2>2. After.pins = inst.pins /\ After.bus = inst.bus
    BY <2>1, SettingAlters, PrepareAlters DEF Alters
  <2> QED
    BY <1>3, <2>2 DEF Writers
<1>4. CASE call.op \in Transients \cup {"clear"}
  <2>1. \/ After = InitiateOutputTrigger(inst, c) \/ After = FireBusTrigger(inst)
        \/ After = AbortOutputTrigger(inst, c) \/ After = ClearOutputProtection(inst, c)
    BY <1>4 DEF After, Transients
  <2>2. After.pins = inst.pins /\ After.bus = inst.bus
    BY <2>1, TransientAlters, BusAlters DEF Alters
  <2> QED
    BY <1>4, <2>2 DEF Transients
<1>5. CASE call.op \in {"trigger", "hold", "restore"}
  <2>1. PICK key, v : After = WriteTrigger(inst, c, key, v)
    BY <1>5 DEF After, Restored
  <2> QED
    BY <1>5, <2>1, TriggerAlters DEF Alters
<1>6. CASE call.op \in {"pins", "clearpins", "restorepins"}
  <2>1. \/ call.op # "restorepins" /\ \E v : After \in {ConfigureTriggerOutputPins(inst, v), ClearTriggerOutputPins(inst, v)}
        \/ After = RestoreDigitalPins(inst, saved[c].pins)
    BY <1>6 DEF After, Restored
  <2> QED
    BY <1>6, <2>1 DEF ConfigureTriggerOutputPins, ClearTriggerOutputPins, RestoreDigitalPins, Shape, Parts
<1>7. CASE call.op \in {"bus", "restorebus"}
  <2>1. \/ call.op = "bus" /\ After = EnableTriggerOutputBus(inst, TRUE)
        \/ call.op = "restorebus" /\ After = EnableTriggerOutputBus(inst, saved[c].bus)
    BY <1>7 DEF After, Restored
  <2> QED
    BY <1>7, <2>1 DEF EnableTriggerOutputBus, Shape, Parts
<1>8. CASE call.op \in {"cls", "errors", "drain"}
  <2>1. After = ClearStatus(inst) \/ After = ReadErrorQueue(inst)
    BY <1>8 DEF After
  <2> QED
    BY <1>8, <2>1, BusAlters DEF Alters
<1>9. CASE /\ call.op \notin Switches \cup Writers \cup Transients
           /\ call.op \notin {"clear", "trigger", "hold", "restore", "restorepins", "restorebus", "pins",
                              "clearpins", "bus", "cls", "errors", "drain"}
  <2>1. After = inst
    BY <1>9 DEF After, Switches, Writers, Transients
  <2> QED
    BY <1>9, <2>1
<1> QED
  BY <1>2, <1>3, <1>4, <1>5, <1>6, <1>7, <1>8, <1>9

\* What they do to the trigger of a channel.
LEMMA AfterTrig ==
  ASSUME Shape(inst), Fields(inst), NEW c \in DOMAIN inst.on, NEW key \in TriggerKeys
  PROVE  /\ After.trig[c][key] # inst.trig[c][key] =>
              /\ call.op \in {"trigger", "hold", "restore"} /\ call.ch = c
              /\ call.op \in {"trigger", "restore"} => call.key = key
         /\ call.op = "restore" /\ call.ch = c /\ call.key = key => After.trig[c][key] = saved[c].trig[key]
<1>1. CASE call.op \notin {"trigger", "hold", "restore"}
  <2>1. After.trig = inst.trig
    BY <1>1, AfterAlters
  <2> QED
    BY <1>1, <2>1
<1>2. CASE call.op \in {"trigger", "hold", "restore"}
  <2>1. PICK k, v : /\ After = WriteTrigger(inst, call.ch, k, v)
                    /\ call.op \in {"trigger", "restore"} => k = call.key
                    /\ call.op = "restore" => v = saved[call.ch].trig[call.key]
    BY <1>2 DEF After, Restored
  <2>2. After.trig = [inst.trig EXCEPT ![call.ch][k] = v]
    BY <2>1 DEF WriteTrigger, Shape, Parts
  <2>3. c \in DOMAIN inst.trig /\ key \in DOMAIN inst.trig[c]
    BY DEF Shape, Fields
  <2>4. c # call.ch => After.trig[c] = inst.trig[c]
    BY <2>2, <2>3
  <2>5. c = call.ch => After.trig[c] = [inst.trig[c] EXCEPT ![k] = v]
    BY <2>2, <2>3
  <2>6. /\ c = call.ch /\ key = k => After.trig[c][key] = v
        /\ c = call.ch /\ key # k => After.trig[c][key] = inst.trig[c][key]
    BY <2>3, <2>5
  <2> HIDE DEF After
  <2>7. call.op = "restore" /\ call.ch = c /\ call.key = key => After.trig[c][key] = saved[c].trig[key]
    BY <2>1, <2>6
  <2>8. After.trig[c][key] # inst.trig[c][key] => call.ch = c /\ k = key
    BY <2>4, <2>6
  <2> QED
    BY <1>2, <2>1, <2>7, <2>8
<1> QED
  BY <1>1, <1>2

\* A step that is no call leaves the triggers alone: a transient may be over.
Untouching ==
  /\ inst'.trig = inst.trig /\ inst'.pins = inst.pins /\ inst'.bus = inst.bus
  /\ \A c \in DOMAIN inst.on : inst'.init[c] \in {inst.init[c], "idle"}

\* The steps of a command, and what they do to triggers and snapshots.
LEMMA TriggerSteps ==
  ASSUME Sound, [Next]_vars, index' = index
  PROVE  \/ Running /\ Proceed /\ Perform /\ inst' = After
         \/ Running /\ Proceed /\ Reject /\ Untouching
         \/ Running /\ Proceed /\ (Completed \/ Astray) /\ call.op \in {"wait", "set"} /\ Untouching /\ saved' = saved
         \/ Running /\ (\E kind : Throw(kind)) /\ Raise /\ (inst' = After \/ Untouching) /\ saved' = saved
         \/ /\ Running /\ (\E kind : Throw(kind)) /\ Untouching /\ saved' = saved
            /\ call.op \in {"wait", "poll", "collected", "errors", "verify", "verifystate", "prepare"}
         \/ /\ Untouching /\ saved' = saved
            /\ \/ phase' = phase /\ rest' = rest
               \/ phase \in {"opening", "identify"} /\ phase' = "run" /\ rest' = script
               \/ phase \in {"opening", "identify"} /\ phase' \in {"identify", "ended"} /\ rest' = rest
               \/ phase = "run" /\ phase' = "ended" /\ rest' = rest /\ rest = << >>
<1>1. Shape(inst)
  BY DEF Sound
<1>2. ~NextCommand
  <2>1. index \in Nat
    BY TheCommand DEF Sound
  <2> QED
    BY <2>1 DEF NextCommand
<1>3. inst' = inst => Untouching
  BY DEF Untouching
<1>4. inst' = ReadErrorQueue(inst) \/ inst' = [inst EXCEPT !.queued = TRUE] => Untouching
  BY <1>1 DEF Untouching, ReadErrorQueue, Shape, Parts
<1>5. Perform => Running /\ Proceed /\ inst' = After
  BY DEF Perform
<1>6. Reject => Running /\ Proceed /\ Untouching
  BY <1>4 DEF Reject
<1>7. Completed => Running /\ Proceed /\ call.op \in {"wait", "set"} /\ Untouching /\ saved' = saved
  BY <1>3 DEF Completed, data
<1>8. ASSUME Astray PROVE Running /\ Proceed /\ call.op \in {"wait", "set"} /\ Untouching /\ saved' = saved
  <2>1. PICK d, key, v : inst' = [WriteSetting(inst, d, key, v) EXCEPT !.queued = TRUE]
    BY <1>8 DEF Astray
  <2>2. Alters(inst, WriteSetting(inst, d, key, v), {"set"})
    BY <1>1, SettingAlters
  <2> HIDE DEF WriteSetting
  <2>3. Untouching
    BY <2>1, <2>2 DEF Alters, Untouching, Shape, Parts
  <2>4. call.op = "set" /\ Running /\ Proceed /\ Remember
    BY <1>8 DEF Astray
  <2> QED
    BY <2>3, <2>4 DEF Remember
<1>9. Raise => Running /\ (\E kind : Throw(kind)) /\ (inst' = After \/ Untouching) /\ saved' = saved
  BY <1>3 DEF Raise, data
<1>10. Refuse => /\ Running /\ (\E kind : Throw(kind)) /\ Untouching /\ saved' = saved
                 /\ call.op \in {"wait", "poll", "collected", "errors", "verify", "verifystate", "prepare"}
  BY <1>3, <1>4 DEF Refuse, Refused, data
<1>11. WaitFails => /\ Running /\ (\E kind : Throw(kind)) /\ Untouching /\ saved' = saved
                    /\ call.op \in {"wait", "poll", "collected", "errors", "verify", "verifystate", "prepare"}
  BY <1>3 DEF WaitFails, data
<1>12. Open \/ Identified \/ NotOpened =>
         /\ Untouching /\ saved' = saved
         /\ \/ phase \in {"opening", "identify"} /\ phase' = "run" /\ rest' = script
            \/ phase \in {"opening", "identify"} /\ phase' \in {"identify", "ended"} /\ rest' = rest
  BY <1>3 DEF Open, Identified, NotOpened, Begin, End, script, data
<1>13. Return => /\ Untouching /\ saved' = saved
                 /\ phase = "run" /\ phase' = "ended" /\ rest' = rest /\ rest = << >>
  BY <1>3 DEF Return, End, data
<1>14. RequestStop \/ UNCHANGED vars => Untouching /\ saved' = saved /\ phase' = phase /\ rest' = rest
  BY <1>3 DEF RequestStop, vars, control, data
<1>15. ASSUME NEW c \in DOMAIN inst.on, Trip(c) \/ Settle(c)
       PROVE  Untouching /\ saved' = saved /\ phase' = phase /\ rest' = rest
  <2>1. saved' = saved /\ phase' = phase /\ rest' = rest
    BY <1>15 DEF Trip, Settle, control, data
  <2>2. inst' = [inst EXCEPT !.on[c] = FALSE, !.tripped[c] = TRUE] \/ inst' = [inst EXCEPT !.init[c] = "idle"]
    BY <1>15 DEF Trip, Settle
  <2>3. Untouching
    <3>1. inst'.trig = inst.trig /\ inst'.pins = inst.pins /\ inst'.bus = inst.bus
          /\ (inst'.init = inst.init \/ inst'.init = [inst.init EXCEPT ![c] = "idle"])
      BY <1>1, <2>2 DEF Shape, Parts
    <3>2. \A d \in DOMAIN inst.on : inst'.init[d] \in {inst.init[d], "idle"}
      BY <1>1, <3>1 DEF Shape
    <3> QED
      BY <3>1, <3>2 DEF Untouching
  <2> QED
    BY <2>1, <2>3
<1> QED
  BY <1>2, <1>5, <1>6, <1>7, <1>8, <1>9, <1>10, <1>11, <1>12, <1>13, <1>14, <1>15 DEF Next

\* A call that fails or is rejected is remembered, and a call that changes
\* nothing is not rejected.
LEMMA Remembered ==
  ASSUME Running, Raise \/ Reject
  PROVE  /\ \E h \in hits' : /\ h.what \in {"raise", "reject"} /\ h.op = call.op /\ h.ch = call.ch /\ h.kind = block
         /\ Reject => After # inst /\ saved' = saved
<1>1. Raise => hits' = hits \cup {Hit("raise")}
  BY DEF Raise, Disturb
<1>2. Reject => hits' = hits \cup {Hit("reject")}
  BY DEF Reject, Disturb
<1>3. \E h \in hits' : /\ h.what \in {"raise", "reject"} /\ h.op = call.op /\ h.ch = call.ch /\ h.kind = block
  <2>1. \A w : Hit(w).what = w /\ Hit(w).op = call.op /\ Hit(w).ch = call.ch /\ Hit(w).kind = block
    BY DEF Hit
  <2>2. Hit("raise") \in hits' \/ Hit("reject") \in hits'
    BY <1>1, <1>2
  <2> HIDE DEF Hit
  <2> QED
    BY <2>1, <2>2
<1>4. Reject => After # inst /\ Remember
  BY DEF Reject, Writes
<1>5. call.op = "save" => After = inst
  BY DEF After
<1>6. Reject => saved' = saved
  BY <1>4, <1>5 DEF Remember
<1> QED
  BY <1>3, <1>4, <1>6

\* A call that was done: what is saved by it.
LEMMA Saves ==
  ASSUME Running, Perform
  PROVE  /\ call.op # "save" => saved' = saved
         /\ call.op = "save" =>
              saved' = [d \in DOMAIN saved \cup {call.ch} |->
                          IF d = call.ch THEN [trig |-> inst.trig[call.ch], pins |-> inst.pins, bus |-> inst.bus]
                          ELSE saved[d]]
BY DEF Perform, Remember

\* What a call may be owed by.
Owed == {"abort", "restore", "restorepins", "restorebus"}

\* Where a step of the command leads, and what its script was.
LEMMA TriggerPlace ==
  ASSUME Sound, [Next]_vars, index' = index, NEW m \in 0..Len(script), rest' = Onward(script, m)
  PROVE  at' = m /\ script' = script
<1>1. script' = script
  BY SameCommand
<1> QED
  BY <1>1, ItsPlace

\* What is put back later is still put back after a step, unless the step
\* disturbs it.
LEMMA OwedStays ==
  ASSUME Sound, [Next]_vars, index' = index, NEW T, NEW a, NEW f, Mends(script, T, a, f),
         Running, a <= at + 1,
         NEW thrown \in BOOLEAN, ~thrown => Proceed,
         thrown => /\ \E kind : Throw(kind)
                   /\ a <= at
                   /\ Raise \/ call.op \in {"wait", "poll", "collected", "errors", "verify", "verifystate", "prepare"},
         NEW op \in Owed, NEW c, NEW key,
         NEW j \in at + 2..Len(script), f < j, Undoes(script, j, op, c, key)
  PROVE  Owing(f, op, c, key)'
<1> DEFINE n == at
           s == script
<1>1. n + 1 \in 1..Len(s) /\ call = s[n + 1].call /\ block = s[n + 1].kind /\ n \in 0..Len(s) /\ Len(s) \in Nat
  BY Whereabouts DEF Running
<1>2. \A p, q \in 1..Len(s) : s[p].block = s[q].block => s[p].kind = s[q].kind
  <2>1. command \in Commands
    BY TheCommand DEF Sound
  <2> QED
    BY <2>1, SameKind DEF script
<1>3. PICK m \in n + 1..Len(s) :
         /\ rest' = Onward(s, m)
         /\ \A i \in n + 2..Len(s) :
              /\ /\ s[i].kind \in Always /\ \A p \in n + 2..i : s[p].kind # "plain"
                 /\ thrown => block \notin {"plain", "cleanup"} /\ s[i].block # s[n + 1].block
                 => m < i
              /\ i <= m /\ m < Len(s) => s[i].kind # "plain"
  BY OnMove
<1>4. at' = m /\ script' = s
  <2>1. m \in 0..Len(s)
    BY <1>1
  <2> QED
    BY <1>3, <2>1, TriggerPlace
<1> HIDE DEF n, s
<1>5. a \in Nat /\ f \in Nat /\ a <= f /\ f <= Len(s) /\ 0 \notin T
  <2>1. a \in 1..f /\ f \in 1..Len(s) /\ 0 \notin T
    BY DEF Mends, s
  <2> QED
    BY <1>1, <2>1
<1>6. j \in n + 2..Len(s) /\ j \in 1..Len(s) /\ j \in f + 1..Len(s) /\ a <= n + 1
  BY <1>1, <1>5 DEF n, s
<1>7. s[j].call.op = op /\ s[j].call.ch = c /\ s[j].kind \in Always /\ op \in Undoings /\ op # "errors" /\ op \in Owed
  BY DEF Undoes, Undoings, Owed, s
<1>8. c \in T
  BY <1>6, <1>7 DEF Mends, s
<1>9. /\ \A i \in a + 1..f : s[i].kind \in {"try", "collect", "waitfail"}
      /\ \A i \in f + 1..Len(s) :
            \/ s[i].call.op = "errors" /\ s[i].call.ch = 0 /\ s[i].kind \in {"plain", "effort"}
            \/ s[i].call.op \in Undoings /\ s[i].call.ch \in T /\ s[i].kind \in Always
      /\ \A i \in f + 1..Len(s) :
            /\ s[i].block = s[j].block => s[i].call.ch = s[j].call.ch
            /\ i < j /\ s[i].block = s[j].block => s[j].call.op # "abort"
            /\ i < j /\ s[i].kind \in {"plain", "cleanup"} => s[i].block = s[j].block
  <2>1. \A i \in a + 1..f : s[i].kind \in {"try", "collect", "waitfail"}
    BY DEF Mends, s
  <2>2. \A i \in f + 1..Len(s) :
            \/ s[i].call.op = "errors" /\ s[i].call.ch = 0 /\ s[i].kind \in {"plain", "effort"}
            \/ s[i].call.op \in Undoings /\ s[i].call.ch \in T /\ s[i].kind \in Always
    BY DEF Mends, s
  <2>3. \A i, k \in f + 1..Len(s) :
            /\ s[i].block = s[k].block => s[i].call.ch = s[k].call.ch
            /\ i < k /\ s[i].block = s[k].block => s[k].call.op # "abort"
            /\ i < k /\ s[i].kind \in {"plain", "cleanup"} /\ s[k].call.op \in Undoings => s[i].block = s[k].block
    BY DEF Mends, s
  <2> QED
    BY <1>6, <1>7, <2>1, <2>2, <2>3
<1>10. \A i \in n + 2..j : s[i].kind # "plain"
  <2> SUFFICES ASSUME NEW i \in n + 2..j, s[i].kind = "plain" PROVE FALSE
    OBVIOUS
  <2>1. i \in a + 1..f \/ (i \in f + 1..Len(s) /\ i < j) \/ i = j
    BY <1>1, <1>5, <1>6
  <2>2. CASE i \in a + 1..f
    BY <1>9, <2>2
  <2>3. CASE i \in f + 1..Len(s) /\ i < j
    <3>1. s[i].call.ch = c /\ s[i].call.ch = 0
      BY <1>7, <1>9, <2>3 DEF Always
    <3> QED
      BY <1>5, <1>8, <3>1
  <2>4. CASE i = j
    BY <1>7, <2>4 DEF Always
  <2> QED
    BY <2>1, <2>2, <2>3, <2>4
<1>11. CASE m < j
  <2>1. j \in at' + 1..Len(script')
    BY <1>1, <1>3, <1>4, <1>6, <1>11
  <2>2. Undoes(script', j, op, c, key)
    BY <1>4 DEF s
  <2> QED
    BY <2>1, <2>2 DEF Owing, Ahead
<1>12. CASE thrown /\ n + 1 \in f + 1..Len(s) /\ s[n + 1].block = s[j].block
  <2>1. n + 1 < j
    BY <1>1, <1>6
  <2>2. call.ch = c /\ op # "abort" /\ call.ch # 0
    BY <1>1, <1>5, <1>7, <1>8, <1>9, <1>12, <2>1
  <2>3. call.op \in Undoings /\ block \in Always
    BY <1>1, <1>9, <1>12, <2>2
  <2>4. Raise
    BY <1>12, <2>3 DEF Undoings
  <2>5. PICK h \in hits' : h.what \in {"raise", "reject"} /\ h.op = call.op /\ h.ch = call.ch /\ h.kind = block
    BY <2>4, Remembered
  <2>6. InCleanup(h) /\ h.ch = c
    BY <2>2, <2>3, <2>5 DEF InCleanup, Always
  <2> QED
    BY <2>2, <2>5, <2>6 DEF Owing, Spoiled, InCleanup
<1>13. CASE ~(m < j)
  <2>1. thrown /\ (block \in {"plain", "cleanup"} \/ s[j].block = s[n + 1].block)
    BY <1>3, <1>6, <1>7, <1>10, <1>13
  <2>2. n + 1 \in f + 1..Len(s)
    <3> SUFFICES ASSUME n + 1 \notin f + 1..Len(s) PROVE FALSE
      OBVIOUS
    <3>1. n + 1 \in a + 1..f
      BY <1>1, <1>5, <2>1 DEF n
    <3>2. s[n + 1].kind \in {"try", "collect", "waitfail"}
      BY <1>9, <3>1
    <3>3. s[j].kind = s[n + 1].kind
      BY <1>1, <1>2, <1>6, <2>1, <3>2
    <3> QED
      BY <1>7, <3>2, <3>3 DEF Always
  <2>3. s[n + 1].block = s[j].block
    <3>1. n + 1 < j
      BY <1>1, <1>6
    <3> QED
      BY <1>1, <1>9, <2>1, <2>2, <3>1
  <2> QED
    BY <1>12, <2>1, <2>2, <2>3
<1> QED
  BY <1>11, <1>13

\* A call that puts something back does it, or is disturbed.
LEMMA PutsBack ==
  ASSUME Sound, [Next]_vars, index' = index, Running, NEW f, NEW op \in Owed, NEW c, NEW key,
         Undoes(script, at + 1, op, c, key)
  PROVE  \/ Perform /\ inst' = After /\ call.op = op /\ call.ch = c /\ (op = "restore" => call.key = key)
         \/ Owing(f, op, c, key)'
         \/ rest' = rest /\ Untouching
<1>1. call = script[at + 1].call /\ block = script[at + 1].kind /\ rest # << >>
  BY Whereabouts DEF Running
<1>2. call.op = op /\ call.ch = c /\ (op = "restore" => call.key = key) /\ block \in Always
  BY <1>1 DEF Undoes
<1>3. ASSUME Raise \/ Reject PROVE Owing(f, op, c, key)'
  <2>1. PICK h \in hits' : h.what \in {"raise", "reject"} /\ h.op = call.op /\ h.ch = call.ch /\ h.kind = block
    BY <1>3, Remembered
  <2>2. InCleanup(h) /\ h.ch = c /\ h.op = op
    BY <1>2, <2>1 DEF InCleanup, Always
  <2> QED
    BY <2>1, <2>2 DEF Owing, Spoiled, InCleanup
<1>4. call.op \notin {"wait", "set", "poll", "collected", "errors", "verify", "verifystate", "prepare"}
  BY <1>2 DEF Owed
<1> QED
  BY <1>1, <1>2, <1>3, <1>4, TriggerSteps DEF Running

\* What a step does to what is owed.
LEMMA OwingStep ==
  ASSUME Sound, [Next]_vars, index' = index, NEW T, NEW a, NEW f, Mends(script, T, a, f), a <= at,
         phase \notin {"opening", "identify"}, NEW op \in Owed, NEW c, NEW key, Owing(f, op, c, key)
  PROVE  \/ Owing(f, op, c, key)'
         \/ Running /\ Perform /\ inst' = After /\ call.op = op /\ call.ch = c /\ (op = "restore" => call.key = key)
<1>1. CASE Spoiled(op, c)
  <2>1. hits \subseteq hits'
    BY SameCommand
  <2> QED
    BY <1>1, <2>1 DEF Owing, Spoiled, InCleanup
<1>2. CASE Ahead(f, op, c, key)
  <2>1. PICK j \in at + 1..Len(script) : f < j /\ Undoes(script, j, op, c, key)
    BY <1>2 DEF Ahead
  <2>2. ASSUME rest' = rest PROVE Owing(f, op, c, key)'
    <3>1. script' = script
      BY SameCommand
    <3>2. at' = at
      BY <2>2, <3>1 DEF at
    <3> QED
      BY <2>1, <3>1, <3>2 DEF Owing, Ahead, Undoes
  <2>3. at \in Nat /\ Len(script) \in Nat
    BY Whereabouts
  <2>4. CASE rest' # rest /\ j = at + 1
    <3>1. Running
      BY <2>4, TriggerSteps
    <3> QED
      BY <2>1, <2>4, <3>1, PutsBack
  <2>5. CASE rest' # rest /\ j # at + 1
    <3>1. j \in at + 2..Len(script) /\ a <= at + 1
      <4>1. a \in Nat
        <5>1. a \in 1..f
          BY DEF Mends
        <5> QED
          BY <5>1
      <4> HIDE DEF at
      <4> QED
        BY <2>1, <2>3, <2>5, <4>1
    <3>2. \/ Running /\ Proceed
          \/ /\ Running /\ \E kind : Throw(kind)
             /\ Raise \/ call.op \in {"wait", "poll", "collected", "errors", "verify", "verifystate", "prepare"}
      BY <2>5, TriggerSteps
    <3>3. CASE Running /\ Proceed
      <4>1. FALSE \in BOOLEAN /\ ~FALSE
        OBVIOUS
      <4> HIDE DEF Running, Proceed, Owed, at
      <4> QED
        BY <2>1, <3>1, <3>3, <4>1, OwedStays
    <3>4. CASE /\ Running /\ \E kind : Throw(kind)
               /\ Raise \/ call.op \in {"wait", "poll", "collected", "errors", "verify", "verifystate", "prepare"}
      <4>1. TRUE \in BOOLEAN
        OBVIOUS
      <4> HIDE DEF Running, Raise, Owed, at
      <4> QED
        BY <2>1, <3>1, <3>4, <4>1, OwedStays
    <3> QED
      BY <3>2, <3>3, <3>4
  <2> QED
    BY <2>2, <2>4, <2>5
<1> QED
  BY <1>1, <1>2 DEF Owing

\* What a step leaves owed that its call touched.
LEMMA OwedLater ==
  ASSUME Sound, [Next]_vars, index' = index, NEW T, NEW a, NEW f, Mends(script, T, a, f), a <= at,
         Running, Perform \/ Raise, NEW op \in Owed, NEW c, NEW key,
         NEW j \in at + 2..Len(script), f < j, Undoes(script, j, op, c, key)
  PROVE  Owing(f, op, c, key)'
<1>1. a <= at + 1
  <2>1. a \in 1..f /\ f \in 1..Len(script)
    BY DEF Mends
  <2>2. at \in Nat
    BY Whereabouts
  <2> HIDE DEF at
  <2> QED
    BY <2>1, <2>2
<1>2. CASE Perform
  <2>1. Proceed
    BY <1>2 DEF Perform
  <2>2. FALSE \in BOOLEAN /\ ~FALSE
    OBVIOUS
  <2> HIDE DEF at, Owed
  <2> QED
    BY <1>1, <2>1, <2>2, OwedStays
<1>3. CASE Raise
  <2>1. \E kind : Throw(kind)
    BY <1>3 DEF Raise
  <2>2. TRUE \in BOOLEAN
    OBVIOUS
  <2> HIDE DEF at, Owed
  <2> QED
    BY <1>1, <1>3, <2>1, <2>2, OwedStays
<1> QED
  BY <1>2, <1>3

\* The calls after the last snapshot.
LEMMA AfterSaves ==
  ASSUME Sound, Running, NEW T, NEW a, NEW f, Mends(script, T, a, f), a <= at
  PROVE  /\ call.op # "save"
         /\ call.op \in {"restore", "restorepins", "restorebus"} => call.ch \in T
         /\ call.op = "hold" => at + 1 <= f /\ call.ch \in T
         /\ call.op \in {"init", "trg", "pins", "clearpins", "bus"} => at + 1 <= f
         /\ call.op = "trigger" /\ ~(at + 1 <= f) =>
              at + 2 \in f + 1..Len(script) /\ Undoes(script, at + 2, "restore", call.ch, call.key)
         /\ call.op = "trigger" => call.ch \in T /\ call.key \in TriggerKeys
<1> DEFINE n == at
           s == script
<1>1. n + 1 \in 1..Len(s) /\ call = s[n + 1].call /\ n \in 0..Len(s) /\ Len(s) \in Nat
  BY Whereabouts DEF Running
<1> HIDE DEF n, s
<1>2. a \in 1..f /\ f \in 1..Len(s)
  BY DEF Mends, s
<1>3. n + 1 \in a + 1..f \/ (n + 1 \in f + 1..Len(s) /\ ~(n + 1 <= f))
  BY <1>1, <1>2 DEF n
<1>4. call.op # "save"
  <2>1. call.op = "save" => n + 1 <= a
    BY <1>1 DEF Mends, s
  <2> QED
    BY <1>1, <1>2, <2>1 DEF n
<1>5. CASE n + 1 \in a + 1..f
  <2>1. /\ call.op \notin {"restore", "restorepins", "restorebus"}
        /\ call.op \in {"trigger", "hold"} => call.ch \in T
        /\ call.op = "trigger" => call.key \in TriggerKeys
    BY <1>1, <1>5 DEF Mends, s
  <2>2. n + 1 <= f
    BY <1>5
  <2> QED
    BY <1>4, <2>1, <2>2 DEF n, s
<1>6. CASE n + 1 \in f + 1..Len(s) /\ ~(n + 1 <= f)
  <2>1. \/ call.op = "errors" /\ call.ch = 0
        \/ call.op \in Undoings /\ call.ch \in T /\ (call.op \in {"restore", "trigger"} => call.key \in TriggerKeys)
    BY <1>1, <1>6 DEF Mends, s
  <2>2. call.op = "trigger" =>
          (n + 1) + 1 \in f + 1..Len(s) /\ Undoes(s, (n + 1) + 1, "restore", call.ch, call.key)
    BY <1>1, <1>6 DEF Mends, s
  <2>3. (n + 1) + 1 = n + 2
    BY <1>1
  <2>4. call.op = "trigger" => n + 2 \in f + 1..Len(s) /\ Undoes(s, n + 2, "restore", call.ch, call.key)
    BY <2>2, <2>3
  <2> QED
    BY <1>4, <2>1, <2>4 DEF n, s, Undoings
<1> QED
  BY <1>3, <1>5, <1>6

\* The places after the f-th are later than the next, if that is not after it.
LEMMA LaterPlaces ==
  ASSUME NEW l \in Nat, NEW n \in 0..l, NEW f \in 1..l, n + 1 <= f
  PROVE  \A j \in f + 1..l : j \in n + 2..l /\ f < j
OBVIOUS

\* The step changes what a call does.
LEMMA ByACall ==
  ASSUME Sound, [Next]_vars, index' = index, ~Untouching
  PROVE  Running /\ (Perform \/ Raise) /\ inst' = After
BY TriggerSteps

\* The trigger of a channel stays as it was, or is put back.
LEMMA LateTrig ==
  ASSUME Sound, Fields(inst), [Next]_vars, index' = index, NEW a, NEW f, Mends(script, TriggerChannels, a, f),
         Late(a, f), SavedRight, NEW c \in DOMAIN inst.on, NEW key \in TriggerKeys
  PROVE  inst'.trig[c][key] = before.trig[c][key] \/ Owing(f, "restore", c, key)'
<1> DEFINE T == TriggerChannels
<1>1. T \subseteq DOMAIN saved /\ a <= at /\ phase \notin {"opening", "identify"} /\ Mends(script, T, a, f)
      /\ (inst.trig[c][key] = before.trig[c][key] \/ Owing(f, "restore", c, key))
  BY DEF Late
<1>2. Shape(inst) /\ "restore" \in Owed
  BY DEF Sound, Owed
<1> HIDE DEF T
<1>3. ASSUME Running, inst' = After, call.op = "restore", call.ch = c, call.key = key
      PROVE  inst'.trig[c][key] = before.trig[c][key]
  <2>1. c \in DOMAIN saved
    BY <1>1, <1>3, AfterSaves
  <2>2. saved[c].trig = before.trig[c]
    BY <2>1 DEF SavedRight
  <2> QED
    BY <1>2, <1>3, <2>2, AfterTrig
<1>4. CASE inst'.trig[c][key] = inst.trig[c][key]
  <2>1. CASE Owing(f, "restore", c, key)
    <3>1. \/ Owing(f, "restore", c, key)'
          \/ Running /\ Perform /\ inst' = After /\ call.op = "restore" /\ call.ch = c /\ call.key = key
      BY <1>1, <1>2, <2>1, OwingStep
    <3> QED
      BY <1>3, <3>1
  <2> QED
    BY <1>1, <1>4, <2>1
<1>5. CASE inst'.trig[c][key] # inst.trig[c][key]
  <2>1. Running /\ (Perform \/ Raise) /\ inst' = After
    BY <1>5, ByACall DEF Untouching
  <2>2. /\ call.op \in {"trigger", "hold", "restore"} /\ call.ch = c
        /\ call.op \in {"trigger", "restore"} => call.key = key
    BY <1>2, <1>5, <2>1, AfterTrig
  <2>3. CASE call.op = "restore"
    BY <1>3, <2>1, <2>2, <2>3
  <2>4. at \in 0..Len(script) /\ Len(script) \in Nat /\ a \in 1..f /\ f \in 1..Len(script)
    BY <1>1, Whereabouts DEF Mends
  <2>5. CASE call.op # "restore" /\ at + 1 <= f
    <3>1. c \in T
      BY <1>1, <2>1, <2>2, <2>5, AfterSaves
    <3>2. PICK j \in f + 1..Len(script) : Undoes(script, j, "restore", c, key)
      BY <1>1, <3>1 DEF Mends
    <3>3. j \in at + 2..Len(script) /\ f < j
      <4> HIDE DEF at
      <4> QED
        BY <2>4, <2>5, <3>2
    <3> QED
      BY <1>1, <1>2, <2>1, <3>2, <3>3, OwedLater
  <2>6. CASE call.op # "restore" /\ ~(at + 1 <= f)
    <3>1. at + 2 \in f + 1..Len(script) /\ Undoes(script, at + 2, "restore", c, key)
      BY <1>1, <2>1, <2>2, <2>6, AfterSaves
    <3>2. at + 2 \in at + 2..Len(script) /\ f < at + 2
      <4> HIDE DEF at
      <4> QED
        BY <2>4, <3>1
    <3> QED
      BY <1>1, <1>2, <2>1, <3>1, <3>2, OwedLater
  <2> QED
    BY <2>3, <2>5, <2>6
<1> QED
  BY <1>4, <1>5

\* The transient of a channel is aborted, or will be.
LEMMA LateInit ==
  ASSUME Sound, [Next]_vars, index' = index, NEW a, NEW f, Mends(script, TriggerChannels, a, f),
         Late(a, f), NEW c \in TriggerChannels, c \in DOMAIN inst.on
  PROVE  inst'.init[c] = "idle" \/ Owing(f, "abort", c, "")'
<1> DEFINE T == TriggerChannels
<1>1. a <= at /\ phase \notin {"opening", "identify"} /\ Mends(script, T, a, f)
      /\ (inst.init[c] = "idle" \/ Owing(f, "abort", c, "")) /\ c \in T
  BY DEF Late
<1>2. Shape(inst) /\ "abort" \in Owed
  BY DEF Sound, Owed
<1> HIDE DEF T
<1>3. CASE inst'.init[c] \in {inst.init[c], "idle"}
  <2>1. CASE Owing(f, "abort", c, "")
    <3>1. \/ Owing(f, "abort", c, "")'
          \/ Running /\ Perform /\ inst' = After /\ call.op = "abort" /\ call.ch = c
      BY <1>1, <1>2, <2>1, OwingStep
    <3>2. call.op = "abort" /\ call.ch = c => After.init[c] = "idle"
      BY <1>2 DEF After, AbortOutputTrigger, Shape, Parts
    <3> QED
      BY <3>1, <3>2
  <2> QED
    BY <1>1, <1>3, <2>1
<1>4. CASE inst'.init[c] \notin {inst.init[c], "idle"}
  <2>1. Running /\ (Perform \/ Raise) /\ inst' = After
    BY <1>4, ByACall DEF Untouching
  <2>2. call.op \in {"init", "trg"}
    <3>1. call.op \in Transients
      BY <1>2, <1>4, <2>1, AfterAlters
    <3>2. call.op = "abort" => After.init[c] \in {inst.init[c], "idle"}
      BY <1>2, TransientAlters DEF After
    <3> QED
      BY <1>4, <2>1, <3>1, <3>2 DEF Transients
  <2>3. at \in 0..Len(script) /\ Len(script) \in Nat /\ a \in 1..f /\ f \in 1..Len(script) /\ at + 1 <= f
    BY <1>1, <2>1, <2>2, AfterSaves, Whereabouts DEF Mends
  <2>4. PICK j \in f + 1..Len(script) : Undoes(script, j, "abort", c, "")
    BY <1>1 DEF Mends
  <2>5. j \in at + 2..Len(script) /\ f < j
    <3> HIDE DEF at
    <3>1. \A i \in f + 1..Len(script) : i \in at + 2..Len(script) /\ f < i
      BY <2>3, LaterPlaces
    <3> QED
      BY <3>1
  <2> QED
    BY <1>1, <1>2, <2>1, <2>4, <2>5, OwedLater
<1> QED
  BY <1>3, <1>4

\* So are the pins and their pulse.
LEMMA LatePins ==
  ASSUME Sound, [Next]_vars, index' = index, NEW a, NEW f, Mends(script, TriggerChannels, a, f),
         Late(a, f), SavedRight
  PROVE  /\ inst'.pins = before.pins \/ \E c : Owing(f, "restorepins", c, "")'
         /\ inst'.bus = before.bus \/ \E c : Owing(f, "restorebus", c, "")'
<1> DEFINE T == TriggerChannels
<1>1. T \subseteq DOMAIN saved /\ a <= at /\ phase \notin {"opening", "identify"} /\ Mends(script, T, a, f)
      /\ (inst.pins = before.pins \/ \E c : Owing(f, "restorepins", c, ""))
      /\ (inst.bus = before.bus \/ \E c : Owing(f, "restorebus", c, ""))
  BY DEF Late
<1>2. Shape(inst) /\ "restorepins" \in Owed /\ "restorebus" \in Owed
  BY DEF Sound, Owed
<1> HIDE DEF T
<1>3. ASSUME Running, inst' = After
      PROVE  /\ call.op = "restorepins" => inst'.pins = before.pins
             /\ call.op = "restorebus" => inst'.bus = before.bus
  <2>1. call.op \in {"restorepins", "restorebus"} => call.ch \in DOMAIN saved
    BY <1>1, <1>3, AfterSaves
  <2>2. call.op \in {"restorepins", "restorebus"} =>
          saved[call.ch].pins = before.pins /\ saved[call.ch].bus = before.bus
    BY <2>1 DEF SavedRight
  <2> QED
    BY <1>2, <1>3, <2>2, AfterPins
<1>4. ASSUME NEW op \in {"restorepins", "restorebus"}, NEW c, Owing(f, op, c, "")
      PROVE  \/ Owing(f, op, c, "")'
             \/ Running /\ inst' = After /\ call.op = op
  BY <1>1, <1>2, <1>4, OwingStep
<1>5. ASSUME NEW op \in {"restorepins", "restorebus"}, Running, Perform \/ Raise, at + 1 <= f
      PROVE  \E c : Owing(f, op, c, "")'
  <2>1. at \in 0..Len(script) /\ Len(script) \in Nat /\ a \in 1..f /\ f \in 1..Len(script)
    BY <1>1, Whereabouts DEF Mends
  <2>2. PICK c : \E j \in f + 1..Len(script) : Undoes(script, j, op, c, "")
    <3>1. /\ \E c : \E j \in f + 1..Len(script) : Undoes(script, j, "restorepins", c, "")
          /\ \E c : \E j \in f + 1..Len(script) : Undoes(script, j, "restorebus", c, "")
      BY <1>1 DEF Mends
    <3> QED
      BY <1>5, <3>1
  <2>3. PICK j \in f + 1..Len(script) : Undoes(script, j, op, c, "")
    BY <2>2
  <2>4. j \in at + 2..Len(script) /\ f < j
    <3> HIDE DEF at
    <3>1. \A i \in f + 1..Len(script) : i \in at + 2..Len(script) /\ f < i
      BY <1>5, <2>1, LaterPlaces
    <3> QED
      BY <3>1
  <2>5. op \in Owed
    BY DEF Owed
  <2>6. Owing(f, op, c, "")'
    BY <1>1, <1>5, <2>3, <2>4, <2>5, OwedLater
  <2> QED
    BY <2>6
<1>6. inst'.pins = before.pins \/ \E c : Owing(f, "restorepins", c, "")'
  <2>1. CASE inst'.pins = inst.pins
    BY <1>1, <1>3, <1>4, <2>1
  <2>2. CASE inst'.pins # inst.pins
    <3>1. Running /\ (Perform \/ Raise) /\ inst' = After
      BY <2>2, ByACall DEF Untouching
    <3>2. call.op \in {"pins", "clearpins", "restorepins"}
      BY <1>2, <2>2, <3>1, AfterPins
    <3>3. call.op = "restorepins" \/ at + 1 <= f
      BY <1>1, <3>1, <3>2, AfterSaves
    <3> QED
      BY <1>3, <1>5, <3>1, <3>3
  <2> QED
    BY <2>1, <2>2
<1>7. inst'.bus = before.bus \/ \E c : Owing(f, "restorebus", c, "")'
  <2>1. CASE inst'.bus = inst.bus
    BY <1>1, <1>3, <1>4, <2>1
  <2>2. CASE inst'.bus # inst.bus
    <3>1. Running /\ (Perform \/ Raise) /\ inst' = After
      BY <2>2, ByACall DEF Untouching
    <3>2. call.op \in {"bus", "restorebus"}
      BY <1>2, <2>2, <3>1, AfterPins
    <3>3. call.op = "restorebus" \/ at + 1 <= f
      BY <1>1, <3>1, <3>2, AfterSaves
    <3> QED
      BY <1>3, <1>5, <3>1, <3>3
  <2> QED
    BY <2>1, <2>2
<1> QED
  BY <1>6, <1>7

\* The channels stay the same for a command.
LEMMA SameChannels ==
  ASSUME Sound, [Next]_vars, index' = index
  PROVE  TriggerChannels' = TriggerChannels /\ DOMAIN inst'.on = DOMAIN inst.on
<1>1. DOMAIN inst'.on = DOMAIN inst.on
  BY SupplyKept DEF Sound, Shape
<1>2. command' = command
  BY SameCommand
<1>3. Own' = Own
  BY <1>2 DEF Own
<1> QED
  BY <1>1, <1>2, <1>3 DEF TriggerChannels

\* Once everything is saved, it is put back.
LEMMA LateStays ==
  ASSUME Sound, Fields(inst), [Next]_vars, index' = index, NEW a, NEW f, Mends(script, TriggerChannels, a, f),
         Late(a, f), SavedRight, TriggerChannels \subseteq DOMAIN inst.on
  PROVE  Late(a, f)' /\ saved' = saved
<1>1. /\ TriggerChannels \subseteq DOMAIN saved /\ a <= at /\ phase \in {"run", "ended"}
      /\ phase \notin {"opening", "identify"}
  BY DEF Late
<1>2. saved' = saved
  <2>1. Running => call.op # "save"
    BY <1>1, AfterSaves
  <2>2. Running /\ Perform => saved' = saved
    BY <2>1, Saves
  <2>3. Running /\ Reject => saved' = saved
    BY Remembered
  <2> QED
    BY <2>2, <2>3, TriggerSteps
<1>3. phase' \in {"run", "ended"}
  BY <1>1, TriggerSteps DEF Proceed, Throw
<1>4. a <= at'
  <2>1. CASE rest' = rest
    <3>1. script' = script
      BY SameCommand
    <3>2. at' = at
      BY <2>1, <3>1 DEF at
    <3> QED
      BY <1>1, <3>2
  <2>2. CASE rest' # rest
    <3>1. Running /\ (Proceed \/ \E kind : Throw(kind))
      BY <1>1, <2>2, TriggerSteps
    <3>2. PICK m \in at + 1..Len(script) : rest' = Onward(script, m)
      <4>1. CASE Proceed
        <5>1. FALSE \in BOOLEAN /\ ~FALSE
          OBVIOUS
        <5> HIDE DEF at, Proceed, Running
        <5> QED
          BY <3>1, <4>1, <5>1, OnMove
      <4>2. CASE \E kind : Throw(kind)
        <5>1. TRUE \in BOOLEAN
          OBVIOUS
        <5> HIDE DEF at, Running
        <5> QED
          BY <3>1, <4>2, <5>1, OnMove
      <4> QED
        BY <3>1, <4>1, <4>2
    <3>3. at \in Nat /\ Len(script) \in Nat /\ a \in 1..f /\ f \in 1..Len(script)
      <4>1. at \in 0..Len(script) /\ Len(script) \in Nat
        BY Whereabouts
      <4>2. a \in 1..f /\ f \in 1..Len(script)
        BY DEF Mends
      <4> HIDE DEF at
      <4> QED
        BY <4>1, <4>2
    <3>4. m \in 0..Len(script) /\ a <= m
      <4> HIDE DEF at
      <4> QED
        BY <1>1, <3>2, <3>3
    <3>5. at' = m
      BY <3>2, <3>4, TriggerPlace
    <3> QED
      BY <3>4, <3>5
  <2> QED
    BY <2>1, <2>2
<1>5. before' = before /\ TriggerChannels' = TriggerChannels /\ DOMAIN inst'.on = DOMAIN inst.on
  BY SameCommand, SameChannels
<1>6. \A c \in DOMAIN inst.on : \A key \in TriggerKeys :
        inst'.trig[c][key] = before.trig[c][key] \/ Owing(f, "restore", c, key)'
  BY LateTrig
<1>7. \A c \in TriggerChannels : inst'.init[c] = "idle" \/ Owing(f, "abort", c, "")'
  BY LateInit
<1>8. /\ inst'.pins = before.pins \/ \E c : Owing(f, "restorepins", c, "")'
      /\ inst'.bus = before.bus \/ \E c : Owing(f, "restorebus", c, "")'
  BY LatePins
<1> HIDE DEF at, TriggerChannels, Owing
<1> QED
  BY <1>1, <1>2, <1>3, <1>4, <1>5, <1>6, <1>7, <1>8 DEF Late

\* Before that nothing is touched.
LEMMA EarlyCall ==
  ASSUME Sound, [Next]_vars, index' = index, Running, NEW T, NEW a, NEW f, Mends(script, T, a, f), at < a
  PROVE  /\ Untouching /\ at + 1 <= a
         /\ call.op = "save" => block = "plain" /\ call.ch \in T /\ (at + 1 < a => call.ch # script[a].call.ch)
         /\ at + 1 = a => call.op = "save" /\ call.ch = script[a].call.ch
<1>1. /\ at + 1 \in 1..Len(script) /\ call = script[at + 1].call /\ block = script[at + 1].kind
      /\ at \in 0..Len(script) /\ Len(script) \in Nat
  BY Whereabouts DEF Running
<1>2. a \in 1..f /\ f \in 1..Len(script)
  BY DEF Mends
<1>3. at + 1 \in 1..a /\ at + 1 <= a
  <2> HIDE DEF at
  <2> QED
    BY <1>1, <1>2
<1>4. call.op \notin Touching \/ call.op = "save"
  BY <1>1, <1>3 DEF Mends
<1>5. call.op = "save" => block = "plain" /\ call.ch \in T /\ (at + 1 < a => call.ch # script[a].call.ch)
  BY <1>1 DEF Mends
<1>6. at + 1 = a => call.op = "save" /\ call.ch = script[a].call.ch
  BY <1>1 DEF Mends
<1>7. inst' = After => Untouching
  <2>1. Shape(inst)
    BY DEF Sound
  <2>2. call.op \notin Transients \cup {"trigger", "hold", "restore", "pins", "clearpins", "restorepins", "bus", "restorebus"}
    BY <1>4 DEF Touching, Transients
  <2>3. After.trig = inst.trig /\ After.init = inst.init /\ After.pins = inst.pins /\ After.bus = inst.bus
    BY <2>1, <2>2, AfterAlters, AfterPins
  <2> QED
    BY <2>3 DEF Untouching
<1>8. Untouching
  BY <1>7, ByACall
<1> QED
  BY <1>3, <1>5, <1>6, <1>8

\* What has been saved on the way.
LEMMA EarlySaves ==
  ASSUME Sound, [Next]_vars, index' = index, Running, NEW T, NEW a, NEW f, Mends(script, T, a, f), at < a,
         SavedRight, inst.trig = before.trig, inst.pins = before.pins, inst.bus = before.bus
  PROVE  /\ SavedRight'
         /\ \/ saved' = saved /\ (rest' = << >> \/ rest' = rest \/ call.op # "save")
            \/ call.op = "save" /\ DOMAIN saved' = DOMAIN saved \cup {call.ch} /\ Proceed
<1>1. before' = before
  BY SameCommand
<1>2. call.op = "save" => block = "plain"
  BY EarlyCall
<1>3. CASE Perform /\ call.op = "save"
  <2>1. saved' = [d \in DOMAIN saved \cup {call.ch} |->
                    IF d = call.ch THEN [trig |-> inst.trig[call.ch], pins |-> inst.pins, bus |-> inst.bus]
                    ELSE saved[d]]
    BY <1>3, Saves
  <2>2. SavedRight'
    BY <1>1, <2>1 DEF SavedRight
  <2>3. Proceed
    BY <1>3 DEF Perform
  <2> QED
    BY <1>3, <2>1, <2>2, <2>3
<1>4. CASE ~(Perform /\ call.op = "save")
  <2>1. Perform => saved' = saved
    BY <1>4, Saves
  <2>2. Reject => saved' = saved /\ call.op # "save"
    <3>1. call.op = "save" => After = inst
      BY DEF After
    <3> QED
      BY <3>1, Remembered
  <2>3. saved' = saved
    BY <2>1, <2>2, TriggerSteps
  <2>4. (\E kind : Throw(kind)) /\ block = "plain" => rest' = << >>
    BY DEF Throw
  <2>5. rest' = << >> \/ rest' = rest \/ call.op # "save"
    <3> HIDE DEF Perform, Raise, Reject, Proceed
    <3> QED
      BY <1>2, <1>4, <2>2, <2>4, TriggerSteps DEF Running
  <2>6. SavedRight'
    BY <1>1, <2>3 DEF SavedRight
  <2> QED
    BY <2>3, <2>5, <2>6
<1> QED
  BY <1>3, <1>4

\* Until everything is saved nothing is touched, and the last snapshot leaves
\* everything to be put back.
LEMMA EarlyStays ==
  ASSUME Sound, [Next]_vars, index' = index, NEW a, NEW f, Mends(script, TriggerChannels, a, f),
         Early(a), SavedRight, TriggerChannels \subseteq DOMAIN inst.on
  PROVE  SavedRight' /\ (Early(a)' \/ Late(a, f)')
<1> DEFINE T == TriggerChannels
           s == script
           n == at
           Kept(c, k) == \E j \in 1..k : s[j].call.op = "save" /\ s[j].call.ch = c
<1>1. /\ before' = before /\ T' = T /\ DOMAIN inst'.on = DOMAIN inst.on /\ script' = s
  BY SameCommand, SameChannels
<1>2. /\ inst.trig = before.trig /\ inst.pins = before.pins /\ inst.bus = before.bus
      /\ \A c \in DOMAIN inst.on : inst.init[c] \in {before.init[c], "idle"}
      /\ ~(T \subseteq DOMAIN saved) /\ (phase \in {"opening", "identify"} => saved = Nothing)
      /\ rest # << >> => n < a /\ \A c : c \in DOMAIN saved <=> Kept(c, n)
  BY DEF Early
<1>3. Mends(s, T, a, f) /\ n \in 0..Len(s) /\ Len(s) \in Nat /\ a \in 1..f /\ f \in 1..Len(s)
  <2>1. n \in 0..Len(s) /\ Len(s) \in Nat
    BY Whereabouts
  <2>2. a \in 1..f /\ f \in 1..Len(s)
    BY DEF Mends
  <2> QED
    BY <2>1, <2>2
<1>4. /\ \A j \in 1..Len(s) : s[j].call.op = "save" =>
            j <= a /\ s[j].kind = "plain" /\ s[j].call.ch \in T /\ (j < a => s[j].call.ch # s[a].call.ch)
      /\ s[a].call.op = "save" /\ s[a].kind = "plain" /\ s[a].call.ch \in T
      /\ \A c \in T : Kept(c, a)
      /\ \A c \in T : \E j \in f + 1..Len(s) : Undoes(s, j, "abort", c, "")
  <2>1. a \in 1..Len(s)
    BY <1>3
  <2> QED
    BY <1>3, <2>1 DEF Mends
<1> HIDE DEF T, s, n
<1>5. ASSUME Untouching
      PROVE  /\ inst'.trig = before'.trig /\ inst'.pins = before'.pins /\ inst'.bus = before'.bus
             /\ \A c \in DOMAIN inst'.on : inst'.init[c] \in {before'.init[c], "idle"}
  BY <1>1, <1>2, <1>5 DEF Untouching
<1>6. CASE /\ Untouching /\ saved' = saved
           /\ \/ phase' = phase /\ rest' = rest
              \/ phase \in {"opening", "identify"} /\ phase' = "run" /\ rest' = script
              \/ phase \in {"opening", "identify"} /\ phase' \in {"identify", "ended"} /\ rest' = rest
              \/ phase = "run" /\ phase' = "ended" /\ rest' = rest /\ rest = << >>
  <2>1. SavedRight'
    BY <1>1, <1>6 DEF SavedRight
  <2>2. phase' \in {"opening", "identify"} => saved' = Nothing
    BY <1>2, <1>6
  <2>3. ~(T' \subseteq DOMAIN saved')
    BY <1>1, <1>2, <1>6
  <2>4. rest' # << >> => at' < a /\ \A c : c \in DOMAIN saved' <=> Kept(c, at')
    <3>1. CASE rest' = rest
      <4>1. at' = n
        BY <1>1, <3>1 DEF at, n, s
      <4> QED
        BY <1>2, <1>6, <3>1, <4>1
    <3>2. CASE phase \in {"opening", "identify"} /\ rest' = script
      <4>1. at' = 0
        BY <1>1, <1>3, <3>2 DEF at, s
      <4>2. \A c : ~(c \in DOMAIN saved') /\ ~Kept(c, 0)
        BY <1>2, <1>6, <3>2 DEF Nothing
      <4>3. 0 < a
        BY <1>3
      <4> QED
        BY <4>1, <4>2, <4>3
    <3> QED
      BY <1>6, <3>1, <3>2
  <2> QED
    BY <1>1, <1>5, <1>6, <2>1, <2>2, <2>3, <2>4 DEF Early, s, T
<1>7. CASE Running /\ n < a /\ (Proceed \/ \E kind : Throw(kind))
  <2>1. /\ Untouching /\ n + 1 <= a
        /\ call.op = "save" => block = "plain" /\ call.ch \in T /\ (n + 1 < a => call.ch # s[a].call.ch)
        /\ n + 1 = a => call.op = "save" /\ call.ch = s[a].call.ch
    BY <1>3, <1>7, EarlyCall DEF n, s
  <2>2. /\ SavedRight'
        /\ \/ saved' = saved /\ (rest' = << >> \/ rest' = rest \/ call.op # "save")
           \/ call.op = "save" /\ DOMAIN saved' = DOMAIN saved \cup {call.ch} /\ Proceed
    BY <1>2, <1>3, <1>7, EarlySaves DEF n, s
  <2>3. rest # << >> /\ n + 1 \in 1..Len(s) /\ call = s[n + 1].call /\ phase = "run"
    BY <1>7, Whereabouts DEF Running, n, s
  <2>4. \A c : c \in DOMAIN saved <=> Kept(c, n)
    BY <1>2, <2>3
  <2>5. PICK m \in n + 1..Len(s) :
          /\ rest' = Onward(s, m)
          /\ \A j \in n + 2..Len(s) : j <= m /\ m < Len(s) => s[j].kind # "plain"
    <3>1. CASE Proceed
      <4>1. FALSE \in BOOLEAN /\ ~FALSE
        OBVIOUS
      <4> HIDE DEF Proceed, Running
      <4> QED
        BY <1>7, <3>1, <4>1, OnMove DEF n, s
    <3>2. CASE \E kind : Throw(kind)
      <4>1. TRUE \in BOOLEAN
        OBVIOUS
      <4> HIDE DEF Running
      <4> QED
        BY <1>7, <3>2, <4>1, OnMove DEF n, s
    <3> QED
      BY <1>7, <3>1, <3>2
  <2>6. m \in 0..Len(s) /\ m \in Nat /\ n \in Nat /\ a \in Nat /\ a <= Len(s) /\ n < m /\ m <= Len(s)
    <3>1. f <= Len(s) /\ a <= f
      BY <1>3
    <3> QED
      BY <1>3, <2>5, <3>1
  <2>7. at' = m
    BY <2>5, <2>6, TriggerPlace DEF s
  <2>8. rest' # rest /\ (rest' # << >> => m < Len(s))
    <3>1. rest' = rest => at' = n
      BY <1>1 DEF at, n, s
    <3>2. s \in Seq(Entries(command))
      BY TheCommand DEF Sound, s
    <3>3. rest' = << >> <=> m = Len(s)
      <4>1. Onward(s, m) = << >> <=> m = Len(s)
        BY <2>6, <3>2, NothingLeft
      <4> QED
        BY <2>5, <4>1
    <3> QED
      BY <1>3, <2>6, <2>7, <3>1, <3>3
  <2>9. phase' = "run"
    BY <1>7, <2>3 DEF Proceed, Throw
  <2>10. rest' # << >> /\ n + 1 < a =>
           /\ m < a
           /\ \A c : Kept(c, m) <=> Kept(c, n) \/ (call.op = "save" /\ c = call.ch)
    <3> SUFFICES ASSUME rest' # << >>, n + 1 < a
                 PROVE  m < a /\ \A c : Kept(c, m) <=> Kept(c, n) \/ (call.op = "save" /\ c = call.ch)
      OBVIOUS
    <3>1. m < Len(s) /\ \A j \in n + 2..m : s[j].kind # "plain"
      BY <1>3, <2>5, <2>6, <2>8
    <3>2. m < a
      <4>1. ~(m < a) => a \in n + 2..m
        BY <2>6
      <4> QED
        BY <1>4, <3>1, <4>1
    <3>3. \A j \in 1..m : j \in 1..n \/ j = n + 1 \/ (j \in n + 2..m /\ j \in 1..Len(s))
      BY <1>3, <2>6
    <3>4. \A j \in n + 2..m : j \in 1..Len(s) => s[j].call.op # "save"
      BY <1>4, <3>1
    <3>5. n + 1 \in 1..m /\ 1..n \subseteq 1..m
      BY <2>6
    <3> QED
      BY <2>3, <3>2, <3>3, <3>4, <3>5
  <2>11. ~Kept(s[a].call.ch, n)
    <3> SUFFICES ASSUME NEW j \in 1..n, s[j].call.op = "save", s[j].call.ch = s[a].call.ch PROVE FALSE
      OBVIOUS
    <3>1. j \in 1..Len(s) /\ j < a
      BY <1>3, <1>7, <2>6
    <3> QED
      BY <1>4, <3>1
  <2>12. CASE saved' = saved /\ (rest' = << >> \/ call.op # "save")
    <3>1. rest' # << >> => m < a /\ \A c : c \in DOMAIN saved' <=> Kept(c, m)
      <4> SUFFICES ASSUME rest' # << >> PROVE m < a /\ \A c : c \in DOMAIN saved' <=> Kept(c, m)
        OBVIOUS
      <4>1. n + 1 < a
        BY <2>1, <2>6, <2>12
      <4> HIDE DEF Kept
      <4> QED
        BY <2>4, <2>10, <2>12, <4>1
    <3>2. ~(T' \subseteq DOMAIN saved')
      BY <1>1, <1>2, <2>12
    <3> QED
      BY <1>1, <1>5, <2>1, <2>2, <2>7, <2>9, <3>1, <3>2 DEF Early, s, T
  <2>13. CASE call.op = "save" /\ DOMAIN saved' = DOMAIN saved \cup {call.ch} /\ n + 1 < a
    <3>1. rest' # << >> => m < a /\ \A c : c \in DOMAIN saved' <=> Kept(c, m)
      <4> HIDE DEF Kept
      <4> QED
        BY <2>4, <2>10, <2>13
    <3>2. ~(T' \subseteq DOMAIN saved')
      <4>1. s[a].call.ch \in T /\ s[a].call.ch # call.ch
        BY <1>4, <2>1, <2>13
      <4> HIDE DEF Kept
      <4> QED
        BY <1>1, <2>4, <2>11, <2>13, <4>1
    <3> QED
      BY <1>1, <1>5, <2>1, <2>2, <2>7, <2>9, <3>1, <3>2 DEF Early, s, T
  <2>14. CASE call.op = "save" /\ DOMAIN saved' = DOMAIN saved \cup {call.ch} /\ Proceed /\ n + 1 = a
    <3>1. T' \subseteq DOMAIN saved'
      <4> SUFFICES ASSUME NEW c \in T PROVE c \in DOMAIN saved'
        BY <1>1
      <4>1. PICK j \in 1..a : s[j].call.op = "save" /\ s[j].call.ch = c
        BY <1>4
      <4>2. j \in 1..n \/ j = n + 1
        BY <2>6, <2>14, <4>1
      <4> QED
        BY <2>3, <2>4, <2>14, <4>1, <4>2
    <3>2. a <= at'
      BY <2>6, <2>7, <2>14
    <3>3. ASSUME NEW c \in T PROVE Owing(f, "abort", c, "")'
      <4>1. PICK j \in f + 1..Len(s) : Undoes(s, j, "abort", c, "")
        BY <1>4
      <4>2. n + 1 <= f
        BY <1>3, <2>6, <2>14
      <4>3. j \in n + 2..Len(s) /\ f < j
        <5>1. \A i \in f + 1..Len(s) : i \in n + 2..Len(s) /\ f < i
          BY <1>3, <4>2, LaterPlaces
        <5> QED
          BY <5>1
      <4>4. FALSE \in BOOLEAN /\ ~FALSE /\ "abort" \in Owed /\ a <= n + 1
        BY <2>6, <2>14 DEF Owed
      <4> HIDE DEF Running, Proceed
      <4> QED
        BY <1>3, <1>7, <2>14, <4>1, <4>3, <4>4, OwedStays DEF n, s
    <3>4. /\ \A c \in DOMAIN inst'.on : \A key \in TriggerKeys : inst'.trig[c][key] = before'.trig[c][key]
          /\ inst'.pins = before'.pins /\ inst'.bus = before'.bus
      BY <1>5, <2>1
    <3> HIDE DEF Owing
    <3>5. Late(a, f)'
      BY <1>1, <2>9, <3>1, <3>2, <3>3, <3>4 DEF Late, T
    <3> QED
      BY <2>2, <3>5
  <2> QED
    BY <2>1, <2>2, <2>6, <2>8, <2>12, <2>13, <2>14
<1> QED
  BY <1>2, <1>6, <1>7, TriggerSteps DEF Running, n

-----------------------------------------------------------------------------
(* Blocks that put the triggers back                                       *)

\* In these nothing is touched, everything is saved, the triggers of the
\* channels T are used, one channel or the pins are put back, errors are read.
LeavesAlone(blk) == \A i \in 1..Len(blk.calls) : blk.calls[i].op \notin Touching
Saving(blk, T) ==
  LET n == Len(blk.calls)
  IN  /\ blk.kind = "plain" /\ n \in Nat \ {0} /\ blk.calls[n].op = "save"
      /\ \A i \in 1..n : blk.calls[i].op \in Touching => blk.calls[i].op = "save"
      /\ \A i \in 1..n : blk.calls[i].op = "save" =>
            blk.calls[i].ch \in T /\ (i < n => blk.calls[i].ch # blk.calls[n].ch)
      /\ \A c \in T : \E i \in 1..n : blk.calls[i].op = "save" /\ blk.calls[i].ch = c
UsesTrigger(k, T) ==
  /\ k.op \notin {"save", "restore", "restorepins", "restorebus"}
  /\ k.op \in {"trigger", "hold"} => k.ch \in T
  /\ k.op = "trigger" => k.key \in TriggerKeys
Body(blk, T) ==
  blk.kind \in {"try", "collect", "waitfail"} /\ \A i \in 1..Len(blk.calls) : UsesTrigger(blk.calls[i], T)
PutsBackAt(calls, c, i) ==
  /\ calls[i].op \in Undoings /\ calls[i].ch = c
  /\ calls[i].op \in {"restore", "trigger"} => calls[i].key \in TriggerKeys
  /\ i > 1 => calls[i].op # "abort"
  /\ calls[i].op = "trigger" =>
        /\ i + 1 \in 1..Len(calls) /\ calls[i + 1].op = "restore"
        /\ calls[i + 1].ch = c /\ calls[i + 1].key = calls[i].key
Undone(blk, T) ==
  blk.kind \in Always /\ \E c \in T : \A i \in 1..Len(blk.calls) : PutsBackAt(blk.calls, c, i)
ReadsErrors(blk) ==
  /\ blk.kind \in {"plain", "effort"}
  /\ \A i \in 1..Len(blk.calls) : blk.calls[i].op = "errors" /\ blk.calls[i].ch = 0
Includes(calls, op, c, key) ==
  \E i \in 1..Len(calls) : calls[i].op = op /\ calls[i].ch = c /\ (op = "restore" => calls[i].key = key)
Within(blk, op, c, key) == blk.kind \in Always /\ Includes(blk.calls, op, c, key)

\* The blocks after the first n put everything back.
PutBack(B, T, n) ==
  LET later == n + 1..Len(B)
  IN  /\ \A b \in later : Undone(B[b], T) \/ ReadsErrors(B[b])
      /\ \A b, d \in later : b < d /\ B[b].kind \in {"plain", "cleanup"} => ReadsErrors(B[d])
      /\ \A c \in T : /\ \E b \in later : Within(B[b], "abort", c, "")
                      /\ \A key \in TriggerKeys : \E b \in later : Within(B[b], "restore", c, key)
      /\ \E c : \E b \in later : Within(B[b], "restorepins", c, "")
      /\ \E c : \E b \in later : Within(B[b], "restorebus", c, "")

\* The sb-th block saves, the blocks after the fb-th put everything back.
MendingBlocks(B, T, sb, fb) ==
  /\ sb \in 1..fb /\ fb \in 1..Len(B) /\ 0 \notin T
  /\ \A b \in 1..sb - 1 : LeavesAlone(B[b])
  /\ Saving(B[sb], T)
  /\ \A b \in sb + 1..fb : Body(B[b], T)
  /\ PutBack(B, T, fb)

\* The ends ascend.
LEMMA EndsAscend ==
  ASSUME NEW n \in Nat, NEW e \in [0..n -> Nat], NEW v, \A b \in 1..n : v[b] \in Nat /\ e[b] = e[b - 1] + v[b]
  PROVE  \A b, d \in 0..n : b <= d => e[b] <= e[d]
<1> DEFINE S == {k \in Nat : \A b \in 0..n : b + k <= n => e[b] <= e[b + k]}
<1>1. 0 \in S
  <2>1. \A b \in 0..n : b + 0 = b /\ e[b] \in Nat
    OBVIOUS
  <2> QED
    BY <2>1
<1>2. ASSUME NEW k \in Nat, k \in S PROVE k + 1 \in S
  <2>1. ASSUME NEW b \in 0..n, b + (k + 1) <= n PROVE e[b] <= e[b + (k + 1)]
    <3>1. b + k <= n /\ b + k \in 0..n /\ b + (k + 1) \in 1..n /\ (b + (k + 1)) - 1 = b + k /\ b + (k + 1) \in 0..n
      BY <2>1
    <3>2. e[b] <= e[b + k]
      BY <1>2, <3>1
    <3>3. e[b + (k + 1)] = e[b + k] + v[b + (k + 1)] /\ v[b + (k + 1)] \in Nat
      BY <3>1
    <3>4. e[b] \in Nat /\ e[b + k] \in Nat
      BY <3>1
    <3> QED
      BY <3>2, <3>3, <3>4
  <2> QED
    BY <2>1
<1>3. \A k \in Nat : k \in S
  <2> HIDE DEF S
  <2> QED
    BY <1>1, <1>2, NaturalInduction
<1> SUFFICES ASSUME NEW b \in 0..n, NEW d \in 0..n, b <= d PROVE e[b] <= e[d]
  OBVIOUS
<1>4. d - b \in Nat /\ b + (d - b) = d /\ b + (d - b) <= n
  OBVIOUS
<1>5. d - b \in S
  BY <1>3, <1>4
<1>6. e[b] <= e[b + (d - b)]
  BY <1>4, <1>5
<1> QED
  BY <1>4, <1>6

\* The place of an entry tells the block it belongs to.
LEMMA BlockOrder ==
  ASSUME NEW cmd \in Commands
  PROVE  LET B == BlocksOf(cmd)
             e == Ends(B)
             s == ScriptOf[cmd]
         IN  \A j \in 1..Len(s) :
               /\ s[j].block \in 1..Len(B) /\ \A b \in 0..Len(B) : j <= e[b] <=> s[j].block <= b
               /\ \E i \in 1..Len(B[s[j].block].calls) :
                     /\ j = e[s[j].block - 1] + i /\ s[j].call = B[s[j].block].calls[i]
                     /\ s[j].kind = B[s[j].block].kind
<1> DEFINE B == BlocksOf(cmd)
           e == Ends(B)
           s == ScriptOf[cmd]
           n == Len(B)
           v == [b \in 1..n |-> Len(B[b].calls)]
<1>1. /\ Len(B) \in Nat /\ \A b \in 1..Len(B) : Len(B[b].calls) \in Nat
      /\ e \in [0..Len(B) -> Nat] /\ \A b \in 1..Len(B) : e[b] = e[b - 1] + Len(B[b].calls)
      /\ \A b \in 1..Len(B) : \A i \in 1..Len(B[b].calls) :
            /\ e[b - 1] + i \in 1..Len(s) /\ s[e[b - 1] + i].call = B[b].calls[i]
            /\ s[e[b - 1] + i].kind = B[b].kind /\ s[e[b - 1] + i].block = b
      /\ \A p \in 1..Len(s) : \E b \in 1..Len(B) : \E i \in 1..Len(B[b].calls) : p = e[b - 1] + i
  BY CommandPlaces
<1>2. \A b, d \in 0..Len(B) : b <= d => e[b] <= e[d]
  <2>1. /\ \A b \in 1..n : v[b] \in Nat /\ e[b] = e[b - 1] + v[b]
        /\ n \in Nat /\ e \in [0..n -> Nat]
    BY <1>1
  <2> HIDE DEF v, e, n
  <2>2. \A b, d \in 0..n : b <= d => e[b] <= e[d]
    BY <2>1, EndsAscend
  <2> QED
    BY <2>2 DEF n
<1> HIDE DEF B, e, s, n, v
<1>3. ASSUME NEW j \in 1..Len(s)
      PROVE  /\ s[j].block \in 1..Len(B) /\ \A b \in 0..Len(B) : j <= e[b] <=> s[j].block <= b
             /\ \E i \in 1..Len(B[s[j].block].calls) :
                   /\ j = e[s[j].block - 1] + i /\ s[j].call = B[s[j].block].calls[i]
                   /\ s[j].kind = B[s[j].block].kind
  <2>6. PICK d \in 1..Len(B) : \E i \in 1..Len(B[d].calls) : j = e[d - 1] + i
    BY <1>1
  <2>1. PICK i \in 1..Len(B[d].calls) : j = e[d - 1] + i
    BY <2>6
  <2>2. s[j].block = d /\ s[j].call = B[d].calls[i] /\ s[j].kind = B[d].kind
    BY <1>1, <2>1
  <2>3. d - 1 \in 0..Len(B) /\ d \in 0..Len(B) /\ e[d - 1] \in Nat /\ e[d] = e[d - 1] + Len(B[d].calls)
        /\ Len(B[d].calls) \in Nat
    <3>1. Len(B) \in Nat /\ e \in [0..Len(B) -> Nat]
      BY <1>1
    <3>2. d - 1 \in 0..Len(B) /\ d \in 0..Len(B)
      BY <3>1
    <3>3. e[d] = e[d - 1] + Len(B[d].calls) /\ Len(B[d].calls) \in Nat
      BY <1>1
    <3> QED
      BY <3>1, <3>2, <3>3
  <2>4. e[d - 1] < j /\ j <= e[d]
    BY <2>1, <2>3
  <2>5. ASSUME NEW b \in 0..Len(B) PROVE j <= e[b] <=> d <= b
    <3>1. e[b] \in Nat /\ e[d] \in Nat /\ i \in Nat /\ j \in Nat
      <4>1. e[b] \in Nat /\ e[d] \in Nat
        BY <1>1, <2>3
      <4>2. i \in Nat
        BY <2>3
      <4> QED
        BY <2>1, <2>3, <4>1, <4>2
    <3>2. d <= b => e[d] <= e[b]
      BY <1>2, <2>3
    <3>3. ~(d <= b) => b <= d - 1
      BY <1>1
    <3>4. b <= d - 1 => e[b] <= e[d - 1]
      BY <1>2, <2>3
    <3> QED
      BY <2>3, <2>4, <3>1, <3>2, <3>3, <3>4
  <2> QED
    BY <2>1, <2>2, <2>5
<1> QED
  BY <1>3 DEF B, e, s

\* Such blocks make a script that puts the triggers back.
LEMMA MendingPlaces ==
  ASSUME NEW cmd \in Commands, NEW T, NEW sb, NEW fb, MendingBlocks(BlocksOf(cmd), T, sb, fb)
  PROVE  Mends(ScriptOf[cmd], T, Ends(BlocksOf(cmd))[sb], Ends(BlocksOf(cmd))[fb])
<1> DEFINE B == BlocksOf(cmd)
           e == Ends(B)
           s == ScriptOf[cmd]
           l == Len(s)
           N == Len(B)
           a == e[sb]
           f == e[fb]
<1>1. /\ N \in Nat /\ \A b \in 1..N : Len(B[b].calls) \in Nat
      /\ e \in [0..N -> Nat] /\ e[0] = 0 /\ \A b \in 1..N : e[b] = e[b - 1] + Len(B[b].calls)
      /\ l \in Nat /\ \A b \in 0..N : e[b] <= l
      /\ \A b \in 1..N : \A i \in 1..Len(B[b].calls) :
              /\ e[b - 1] + i \in 1..l /\ s[e[b - 1] + i].call = B[b].calls[i]
              /\ s[e[b - 1] + i].kind = B[b].kind /\ s[e[b - 1] + i].block = b
  BY CommandPlaces
<1>2. \A j \in 1..l :
        /\ s[j].block \in 1..N /\ \A b \in 0..N : j <= e[b] <=> s[j].block <= b
        /\ \E i \in 1..Len(B[s[j].block].calls) :
              /\ j = e[s[j].block - 1] + i /\ s[j].call = B[s[j].block].calls[i]
              /\ s[j].kind = B[s[j].block].kind
  BY BlockOrder
<1>3. /\ sb \in 1..fb /\ fb \in 1..N /\ 0 \notin T
      /\ \A b \in 1..sb - 1 : LeavesAlone(B[b])
      /\ Saving(B[sb], T)
      /\ \A b \in sb + 1..fb : Body(B[b], T)
      /\ PutBack(B, T, fb)
  BY DEF MendingBlocks
<1> HIDE DEF B, e, s, l, N
<1>4. sb \in Nat /\ fb \in Nat /\ sb \in 1..N /\ sb \in 0..N /\ fb \in 0..N /\ sb - 1 \in 0..N /\ sb <= fb
  BY <1>1, <1>3
<1>5. a \in Nat /\ f \in Nat /\ f <= l /\ e[sb - 1] \in Nat
  BY <1>1, <1>4
<1>6. \A j \in 1..l : (j <= a <=> s[j].block <= sb) /\ (j <= f <=> s[j].block <= fb)
  BY <1>2, <1>4
<1> DEFINE n == Len(B[sb].calls)
<1>7. n \in Nat \ {0} /\ a = e[sb - 1] + n /\ n \in 1..n
  <2>1. n \in Nat \ {0}
    BY <1>3 DEF Saving
  <2>2. a = e[sb - 1] + n
    BY <1>1, <1>4
  <2> QED
    BY <2>1, <2>2
<1>8. a \in 1..l /\ s[a].call = B[sb].calls[n] /\ s[a].block = sb
  <2>1. /\ e[sb - 1] + n \in 1..l /\ s[e[sb - 1] + n].call = B[sb].calls[n]
        /\ s[e[sb - 1] + n].block = sb
    BY <1>1, <1>4, <1>7
  <2> HIDE DEF n, a
  <2> QED
    BY <1>7, <2>1
<1> HIDE DEF a, f
<1>9. a \in 1..f /\ f \in 1..l
  <2>1. a <= f
    BY <1>4, <1>6, <1>8
  <2> QED
    BY <1>1, <1>5, <1>8, <2>1
<1>10. \A j \in f + 1..l : j \in 1..l /\ s[j].block \in fb + 1..N
  <2> SUFFICES ASSUME NEW j \in f + 1..l PROVE j \in 1..l /\ s[j].block \in fb + 1..N
    OBVIOUS
  <2>1. j \in 1..l /\ ~(j <= f)
    BY <1>1, <1>5
  <2>2. s[j].block \in 1..N /\ ~(s[j].block <= fb)
    BY <1>2, <1>6, <2>1
  <2>3. N \in Nat
    BY <1>1
  <2> QED
    BY <1>4, <2>1, <2>2, <2>3
<1>11. \A j \in 1..a : j \in 1..l /\ s[j].block \in 1..sb
  <2> SUFFICES ASSUME NEW j \in 1..a PROVE j \in 1..l /\ s[j].block \in 1..sb
    OBVIOUS
  <2>1. j \in 1..l /\ j <= a
    BY <1>1, <1>8
  <2>2. s[j].block \in 1..N /\ s[j].block <= sb
    BY <1>2, <1>6, <2>1
  <2>3. N \in Nat
    BY <1>1
  <2> QED
    BY <1>4, <2>1, <2>2, <2>3
<1>12. \A j \in a + 1..f : j \in 1..l /\ s[j].block \in sb + 1..fb
  <2> SUFFICES ASSUME NEW j \in a + 1..f PROVE j \in 1..l /\ s[j].block \in sb + 1..fb
    OBVIOUS
  <2>1. j \in 1..l /\ j <= f /\ ~(j <= a)
    BY <1>1, <1>5, <1>8
  <2>2. s[j].block \in 1..N /\ s[j].block <= fb /\ ~(s[j].block <= sb)
    BY <1>2, <1>6, <2>1
  <2>3. N \in Nat
    BY <1>1
  <2> QED
    BY <1>4, <2>1, <2>2, <2>3
<1>13. \A j \in 1..l : j \in 1..a \/ j \in a + 1..f \/ j \in f + 1..l
  BY <1>1, <1>5, <1>8
\* Until the last snapshot.
<1>14. \A j \in 1..a :
        /\ s[j].call.op \in Touching => s[j].call.op = "save"
        /\ s[j].call.op = "save" => s[j].kind = "plain" /\ s[j].call.ch \in T /\ (j < a => s[j].call.ch # s[a].call.ch)
  <2> SUFFICES ASSUME NEW j \in 1..a
               PROVE  /\ s[j].call.op \in Touching => s[j].call.op = "save"
                      /\ s[j].call.op = "save" =>
                            s[j].kind = "plain" /\ s[j].call.ch \in T /\ (j < a => s[j].call.ch # s[a].call.ch)
    OBVIOUS
  <2>1. j \in 1..l /\ s[j].block \in 1..sb
    BY <1>11
  <2>2. PICK i \in 1..Len(B[s[j].block].calls) :
              /\ j = e[s[j].block - 1] + i /\ s[j].call = B[s[j].block].calls[i]
              /\ s[j].kind = B[s[j].block].kind
    BY <1>2, <2>1
  <2>3. CASE s[j].block = sb
    <3>1. j < a => i < n
      BY <1>5, <1>7, <2>2, <2>3
    <3> DEFINE x == B[sb].calls[i]
               y == B[sb].calls[n]
    <3>2. /\ B[sb].kind = "plain" /\ (x.op \in Touching => x.op = "save")
          /\ x.op = "save" => x.ch \in T /\ (i < n => x.ch # y.ch)
      BY <1>3, <2>2, <2>3 DEF Saving
    <3>3. s[j].call = x /\ s[j].kind = B[sb].kind /\ s[a].call = y
      BY <1>8, <2>2, <2>3
    <3> HIDE DEF x, y, n
    <3> QED
      BY <3>1, <3>2, <3>3
  <2>4. CASE s[j].block # sb
    <3>1. s[j].block \in 1..sb - 1
      BY <1>4, <2>1, <2>4
    <3>2. s[j].call.op \notin Touching
      BY <1>3, <2>2, <3>1 DEF LeavesAlone
    <3> QED
      BY <3>2 DEF Touching
  <2> QED
    BY <2>3, <2>4
\* From there to where everything is put back.
<1>15. \A j \in a + 1..f :
        /\ s[j].kind \in {"try", "collect", "waitfail"}
        /\ s[j].call.op \notin {"save", "restore", "restorepins", "restorebus"}
        /\ s[j].call.op \in {"trigger", "hold"} => s[j].call.ch \in T
        /\ s[j].call.op = "trigger" => s[j].call.key \in TriggerKeys
  <2> SUFFICES ASSUME NEW j \in a + 1..f
               PROVE  s[j].kind \in {"try", "collect", "waitfail"} /\ UsesTrigger(s[j].call, T)
    BY DEF UsesTrigger
  <2>1. j \in 1..l /\ s[j].block \in sb + 1..fb
    BY <1>12
  <2>2. PICK i \in 1..Len(B[s[j].block].calls) :
              s[j].call = B[s[j].block].calls[i] /\ s[j].kind = B[s[j].block].kind
    BY <1>2, <2>1
  <2>3. Body(B[s[j].block], T)
    BY <1>3, <2>1
  <2> QED
    BY <2>2, <2>3 DEF Body
\* After that.
<1> DEFINE later == fb + 1..N
<1>16. /\ \A b \in later : Undone(B[b], T) \/ ReadsErrors(B[b])
       /\ \A b, d \in later : b < d /\ B[b].kind \in {"plain", "cleanup"} => ReadsErrors(B[d])
       /\ \A c \in T : /\ \E b \in later : Within(B[b], "abort", c, "")
                       /\ \A key \in TriggerKeys : \E b \in later : Within(B[b], "restore", c, key)
       /\ \E c : \E b \in later : Within(B[b], "restorepins", c, "")
       /\ \E c : \E b \in later : Within(B[b], "restorebus", c, "")
  BY <1>3 DEF PutBack, N
<1>17. \A b \in later : b \in 1..N /\ b \in Nat /\ ~(b <= fb) /\ b - 1 \in 0..N /\ e[b - 1] \in Nat
  <2>1. \A b \in later : b \in 1..N /\ b \in Nat /\ ~(b <= fb) /\ b - 1 \in 0..N
    BY <1>1, <1>4
  <2> HIDE DEF later
  <2> QED
    BY <1>1, <2>1
<1> HIDE DEF later
<1>18. ASSUME NEW b \in later, NEW op, NEW c, NEW key, Within(B[b], op, c, key)
       PROVE  \E j \in f + 1..l : Undoes(s, j, op, c, key)
  <2>1. PICK i \in 1..Len(B[b].calls) :
          B[b].calls[i].op = op /\ B[b].calls[i].ch = c /\ (op = "restore" => B[b].calls[i].key = key)
    BY <1>18 DEF Within, Includes
  <2> DEFINE j == e[b - 1] + i
  <2>2. j \in 1..l /\ s[j].call = B[b].calls[i] /\ s[j].kind = B[b].kind /\ s[j].block = b
    BY <1>1, <1>17
  <2> HIDE DEF j
  <2>3. ~(j <= f)
    BY <1>6, <1>17, <2>2
  <2>4. j \in f + 1..l
    BY <1>1, <1>5, <2>2, <2>3
  <2>5. Undoes(s, j, op, c, key)
    BY <1>18, <2>1, <2>2 DEF Undoes, Within
  <2> QED
    BY <2>4, <2>5
<1>19. ASSUME NEW j \in f + 1..l
       PROVE  /\ s[j].block \in later
              /\ \E i \in 1..Len(B[s[j].block].calls) :
                    /\ j = e[s[j].block - 1] + i /\ s[j].call = B[s[j].block].calls[i]
                    /\ s[j].kind = B[s[j].block].kind
              /\ Undone(B[s[j].block], T) \/ ReadsErrors(B[s[j].block])
  <2>1. s[j].block \in later /\ j \in 1..l
    BY <1>10 DEF later
  <2> QED
    BY <1>2, <1>16, <2>1
<1>20. ASSUME NEW j \in f + 1..l
       PROVE  \/ s[j].call.op = "errors" /\ s[j].call.ch = 0 /\ s[j].kind \in {"plain", "effort"}
              \/ /\ s[j].call.op \in Undoings /\ s[j].call.ch \in T /\ s[j].kind \in Always
                 /\ s[j].call.op \in {"restore", "trigger"} => s[j].call.key \in TriggerKeys
  <2>1. PICK i \in 1..Len(B[s[j].block].calls) :
           s[j].call = B[s[j].block].calls[i] /\ s[j].kind = B[s[j].block].kind
    BY <1>19
  <2> DEFINE b == B[s[j].block]
             k == s[j].call
  <2>2. k = b.calls[i] /\ s[j].kind = b.kind /\ (Undone(b, T) \/ ReadsErrors(b))
    BY <1>19, <2>1
  <2>3. i \in 1..Len(b.calls)
    OBVIOUS
  <2> HIDE DEF b
  <2>4. CASE ReadsErrors(b)
    BY <2>2, <2>3, <2>4 DEF ReadsErrors
  <2>5. CASE Undone(b, T)
    <3>1. PICK c \in T : PutsBackAt(b.calls, c, i)
      BY <2>3, <2>5 DEF Undone
    <3>2. s[j].kind \in Always
      BY <2>2, <2>5 DEF Undone
    <3> HIDE DEF k
    <3>3. k.op \in Undoings /\ k.ch \in T /\ (k.op \in {"restore", "trigger"} => k.key \in TriggerKeys)
      BY <2>2, <3>1 DEF PutsBackAt
    <3> QED
      BY <3>2, <3>3 DEF k
  <2> QED
    BY <2>2, <2>4, <2>5
<1>21. ASSUME NEW j \in f + 1..l, s[j].call.op = "trigger"
       PROVE  j + 1 \in f + 1..l /\ Undoes(s, j + 1, "restore", s[j].call.ch, s[j].call.key)
  <2> DEFINE b == s[j].block
  <2>1. PICK i \in 1..Len(B[b].calls) :
           j = e[b - 1] + i /\ s[j].call = B[b].calls[i] /\ s[j].kind = B[b].kind
    BY <1>19
  <2>2. b \in later /\ (Undone(B[b], T) \/ ReadsErrors(B[b]))
    BY <1>19
  <2> HIDE DEF b
  <2>3. Undone(B[b], T)
    BY <1>21, <2>1, <2>2 DEF ReadsErrors
  <2>4. PICK c \in T : \A k \in 1..Len(B[b].calls) : PutsBackAt(B[b].calls, c, k)
    BY <2>3 DEF Undone
  <2>5. /\ i + 1 \in 1..Len(B[b].calls) /\ B[b].calls[i + 1].op = "restore"
        /\ B[b].calls[i + 1].ch = B[b].calls[i].ch /\ B[b].calls[i + 1].key = B[b].calls[i].key
    BY <1>21, <2>1, <2>4 DEF PutsBackAt
  <2>6. b \in 1..N /\ e[b - 1] \in Nat /\ Len(B[b].calls) \in Nat
    BY <1>1, <1>17, <2>2
  <2>7. e[b - 1] + (i + 1) = j + 1
    <3>1. i \in Nat
      BY <2>6
    <3> DEFINE x == e[b - 1]
    <3>2. x \in Nat /\ j = x + i
      BY <2>1, <2>6
    <3> HIDE DEF x
    <3>3. x + (i + 1) = j + 1
      BY <3>1, <3>2
    <3> QED
      BY <3>3 DEF x
  <2>8. j + 1 \in 1..l /\ s[j + 1].call = B[b].calls[i + 1] /\ s[j + 1].kind = B[b].kind
    <3>1. /\ e[b - 1] + (i + 1) \in 1..l /\ s[e[b - 1] + (i + 1)].call = B[b].calls[i + 1]
          /\ s[e[b - 1] + (i + 1)].kind = B[b].kind
      BY <1>1, <2>5, <2>6
    <3> QED
      BY <2>7, <3>1
  <2>9. j + 1 \in f + 1..l
    BY <1>1, <1>5, <2>8
  <2>10. B[b].kind \in Always
    BY <2>3 DEF Undone
  <2> QED
    BY <2>1, <2>5, <2>8, <2>9, <2>10 DEF Undoes
<1>22. ASSUME NEW i \in f + 1..l, NEW j \in f + 1..l
       PROVE  /\ s[i].block = s[j].block => s[i].call.ch = s[j].call.ch
              /\ i < j /\ s[i].block = s[j].block => s[j].call.op # "abort"
              /\ i < j /\ s[i].kind \in {"plain", "cleanup"} /\ s[j].call.op \in Undoings => s[i].block = s[j].block
  <2> DEFINE b == s[i].block
             d == s[j].block
  <2>1. PICK x \in 1..Len(B[b].calls) : i = e[b - 1] + x /\ s[i].call = B[b].calls[x] /\ s[i].kind = B[b].kind
    BY <1>19
  <2>2. PICK y \in 1..Len(B[d].calls) : j = e[d - 1] + y /\ s[j].call = B[d].calls[y] /\ s[j].kind = B[d].kind
    BY <1>19
  <2>3. b \in later /\ d \in later /\ (Undone(B[b], T) \/ ReadsErrors(B[b])) /\ (Undone(B[d], T) \/ ReadsErrors(B[d]))
    BY <1>19
  <2>4. i < j => b <= d
    <3>1. i \in 1..l /\ j \in 1..l /\ d \in 1..N /\ d \in 0..N
      BY <1>1, <1>10, <1>17, <2>3
    <3>2. j <= e[d] /\ (i <= e[d] <=> b <= d) /\ e[d] \in Nat
      <4>1. d <= d
        BY <3>1
      <4> QED
        BY <1>1, <1>2, <3>1, <4>1
    <3> QED
      BY <3>1, <3>2
  <2> HIDE DEF b, d
  <2>5. CASE b = d
    <3>1. i < j => y > 1
      <4>1. e[b - 1] \in Nat /\ Len(B[b].calls) \in Nat
        BY <1>1, <1>17, <2>3
      <4> QED
        BY <2>1, <2>2, <2>5, <4>1
    <3>2. CASE ReadsErrors(B[b])
      BY <2>1, <2>2, <2>5, <3>2 DEF ReadsErrors, b, d
    <3>3. CASE Undone(B[b], T)
      <4>1. PICK c \in T : \A k \in 1..Len(B[b].calls) : PutsBackAt(B[b].calls, c, k)
        BY <3>3 DEF Undone
      <4>2. s[i].call.ch = c /\ s[j].call.ch = c /\ (i < j => s[j].call.op # "abort")
        BY <2>1, <2>2, <2>5, <3>1, <4>1 DEF PutsBackAt
      <4> QED
        BY <2>5, <4>2 DEF b, d
    <3> QED
      BY <2>3, <3>2, <3>3
  <2>6. CASE b # d
    <3>1. ASSUME i < j, s[i].kind \in {"plain", "cleanup"} PROVE s[j].call.op \notin Undoings
      <4>1. b < d
        BY <1>17, <2>3, <2>4, <2>6, <3>1
      <4>2. ReadsErrors(B[d])
        BY <1>16, <2>1, <2>3, <3>1, <4>1
      <4>3. s[j].call.op = "errors"
        BY <2>2, <4>2 DEF ReadsErrors
      <4> QED
        BY <4>3 DEF Undoings
    <3> QED
      BY <2>6, <3>1 DEF b, d
  <2> QED
    BY <2>5, <2>6
<1>23. \A j \in 1..l : s[j].call.op = "save" =>
          j <= a /\ s[j].kind = "plain" /\ s[j].call.ch \in T /\ (j < a => s[j].call.ch # s[a].call.ch)
  <2> SUFFICES ASSUME NEW j \in 1..l, s[j].call.op = "save" PROVE j \in 1..a
    BY <1>8, <1>14
  <2>1. j \notin a + 1..f
    BY <1>15
  <2>2. j \notin f + 1..l
    BY <1>20 DEF Undoings
  <2> QED
    BY <1>13, <2>1, <2>2
<1>24. \A c \in T : \E j \in 1..a : s[j].call.op = "save" /\ s[j].call.ch = c
  <2> SUFFICES ASSUME NEW c \in T PROVE \E j \in 1..a : s[j].call.op = "save" /\ s[j].call.ch = c
    OBVIOUS
  <2>1. PICK i \in 1..n : B[sb].calls[i].op = "save" /\ B[sb].calls[i].ch = c
    BY <1>3 DEF Saving
  <2>2. e[sb - 1] + i \in 1..l /\ s[e[sb - 1] + i].call = B[sb].calls[i]
    BY <1>1, <1>4, <2>1
  <2>3. e[sb - 1] + i \in 1..a
    BY <1>5, <1>7, <2>1
  <2> QED
    BY <2>1, <2>2, <2>3
<1>25. s[a].call.op = "save"
  BY <1>3, <1>8 DEF Saving
<1>26. /\ \A c \in T :
            /\ \E j \in f + 1..l : Undoes(s, j, "abort", c, "")
            /\ \A key \in TriggerKeys : \E j \in f + 1..l : Undoes(s, j, "restore", c, key)
       /\ \E c : \E j \in f + 1..l : Undoes(s, j, "restorepins", c, "")
       /\ \E c : \E j \in f + 1..l : Undoes(s, j, "restorebus", c, "")
  BY <1>16, <1>18
<1>27. Mends(s, T, a, f)
  BY <1>3, <1>9, <1>14, <1>15, <1>20, <1>21, <1>22, <1>23, <1>24, <1>25, <1>26, Zenon DEF Mends, l
<1> QED
  BY <1>27 DEF s, a, f, e, B

\* Blocks in four pieces: those that touch nothing, the snapshots, the body,
\* the tail.
LEMMA Assembled ==
  ASSUME NEW U, NEW P \in Seq(U), NEW x \in U, NEW D \in Seq(U), NEW R \in Seq(U), NEW T, 0 \notin T,
         \A b \in 1..Len(P) : LeavesAlone(P[b]), Saving(x, T), \A b \in 1..Len(D) : Body(D[b], T), PutBack(R, T, 0)
  PROVE  \E sb, fb : MendingBlocks(P \o <<x>> \o D \o R, T, sb, fb)
<1> DEFINE p == Len(P)
           d == Len(D)
           r == Len(R)
           B1 == P \o <<x>>
           B2 == B1 \o D
           B == B2 \o R
           fb == p + 1 + d
<1>1. B1 \in Seq(U) /\ p \in Nat /\ Len(B1) = p + 1 /\ B1[p + 1] = x /\ \A b \in 1..p : B1[b] = P[b]
  BY OneMore
<1> HIDE DEF B1
<1>2. /\ B2 \in Seq(U) /\ d \in Nat /\ Len(B2) = (p + 1) + d /\ \A b \in 1..p + 1 : B2[b] = B1[b]
      /\ \A i \in 1..d : B2[(p + 1) + i] = D[i]
  <2>1. /\ B1 \o D \in Seq(U) /\ Len(D) \in Nat /\ Len(B1 \o D) = Len(B1) + Len(D)
        /\ \A i \in 1..Len(B1) : (B1 \o D)[i] = B1[i]
        /\ \A i \in 1..Len(D) : (B1 \o D)[Len(B1) + i] = D[i]
    <3>1. B1 \in Seq(U)
      BY <1>1
    <3> QED
      BY <3>1, JoinedAt
  <2> QED
    BY <1>1, <2>1
<1> HIDE DEF B2
<1>3. /\ r \in Nat /\ Len(B) = fb + r /\ \A b \in 1..fb : B[b] = B2[b] /\ \A i \in 1..r : B[fb + i] = R[i]
  <2>1. /\ B2 \o R \in Seq(U) /\ Len(R) \in Nat /\ Len(B2 \o R) = Len(B2) + Len(R)
        /\ \A i \in 1..Len(B2) : (B2 \o R)[i] = B2[i]
        /\ \A i \in 1..Len(R) : (B2 \o R)[Len(B2) + i] = R[i]
    <3>1. B2 \in Seq(U)
      BY <1>2
    <3> QED
      BY <3>1, JoinedAt
  <2> QED
    BY <1>2, <2>1
<1> HIDE DEF B, p, d, r
<1>4. fb \in Nat /\ p + 1 \in 1..fb /\ fb \in 1..Len(B) /\ (p + 1) - 1 = p
  BY <1>1, <1>2, <1>3
<1>5. \A b \in 1..(p + 1) - 1 : LeavesAlone(B[b])
  <2> SUFFICES ASSUME NEW b \in 1..p PROVE LeavesAlone(B[b])
    BY <1>4
  <2>1. b \in 1..p + 1 /\ b \in 1..fb
    BY <1>1, <1>2
  <2>2. B[b] = P[b]
    BY <1>1, <1>2, <1>3, <2>1
  <2> QED
    BY <2>2 DEF p
<1>6. Saving(B[p + 1], T)
  <2>1. p + 1 \in 1..p + 1 /\ p + 1 \in 1..fb
    BY <1>1, <1>4
  <2>2. B[p + 1] = x
    BY <1>1, <1>2, <1>3, <2>1
  <2> QED
    BY <2>2
<1>7. \A b \in (p + 1) + 1..fb : Body(B[b], T)
  <2> SUFFICES ASSUME NEW b \in (p + 1) + 1..fb PROVE Body(B[b], T)
    OBVIOUS
  <2>1. b - (p + 1) \in 1..d /\ (p + 1) + (b - (p + 1)) = b /\ b \in 1..fb
    BY <1>1, <1>2
  <2>2. B[b] = D[b - (p + 1)]
    BY <1>2, <1>3, <2>1
  <2> QED
    BY <2>1, <2>2 DEF d
<1>8. PutBack(B, T, fb)
  <2> HIDE DEF fb
  <2>1. \A i \in 1..r : fb + i \in fb + 1..Len(B) /\ B[fb + i] = R[i]
    BY <1>3, <1>4
  <2>2. \A b \in fb + 1..Len(B) : b - fb \in 1..r /\ fb + (b - fb) = b
    BY <1>3, <1>4
  <2>3. \A b \in fb + 1..Len(B) : B[b] = R[b - fb]
    <3> SUFFICES ASSUME NEW b \in fb + 1..Len(B) PROVE B[b] = R[b - fb]
      OBVIOUS
    <3>1. b - fb \in 1..r /\ fb + (b - fb) = b
      BY <2>2
    <3>2. B[fb + (b - fb)] = R[b - fb]
      BY <2>1, <3>1
    <3> QED
      BY <3>1, <3>2
  <2>4. \A b, c \in fb + 1..Len(B) : b < c => b - fb < c - fb
    BY <1>3, <1>4
  <2>5. 0 + 1..Len(R) = 1..r
    BY DEF r
  <2> DEFINE later == fb + 1..Len(B)
             after == 1..r
  <2>6. /\ \A b \in after : Undone(R[b], T) \/ ReadsErrors(R[b])
        /\ \A b, c \in after : b < c /\ R[b].kind \in {"plain", "cleanup"} => ReadsErrors(R[c])
        /\ \A c \in T : /\ \E b \in after : Within(R[b], "abort", c, "")
                        /\ \A key \in TriggerKeys : \E b \in after : Within(R[b], "restore", c, key)
        /\ \E c : \E b \in after : Within(R[b], "restorepins", c, "")
        /\ \E c : \E b \in after : Within(R[b], "restorebus", c, "")
    BY <2>5 DEF PutBack
  <2>7. /\ \A i \in after : fb + i \in later /\ B[fb + i] = R[i]
        /\ \A b \in later : b - fb \in after /\ B[b] = R[b - fb]
        /\ \A b, c \in later : b < c => b - fb < c - fb
    BY <2>1, <2>2, <2>3, <2>4
  <2> HIDE DEF after
  <2>8. /\ \A b \in later : Undone(B[b], T) \/ ReadsErrors(B[b])
        /\ \A b, c \in later : b < c /\ B[b].kind \in {"plain", "cleanup"} => ReadsErrors(B[c])
    <3> HIDE DEF later
    <3> QED
      BY <2>6, <2>7
  <2>9. ASSUME NEW op, NEW c, NEW key, \E b \in after : Within(R[b], op, c, key)
        PROVE  \E b \in later : Within(B[b], op, c, key)
    <3>1. PICK b \in after : Within(R[b], op, c, key)
      BY <2>9
    <3> HIDE DEF later
    <3> QED
      BY <2>7, <3>1
  <2> QED
    BY <2>6, <2>8, <2>9 DEF PutBack
<1>9. MendingBlocks(B, T, p + 1, fb)
  BY <1>4, <1>5, <1>6, <1>7, <1>8 DEF MendingBlocks
<1> QED
  BY <1>9 DEF B, B2, B1

\* The calls that put a channel, and the pins, back.
LEMMA RestoreShapes ==
  ASSUME NEW c
  PROVE  LET s6 == RestoreChannel(c)
             s2 == RestoreGlobal(c)
             s8 == RestoreChannel(c) \o RestoreGlobal(c)
         IN  /\ \A i \in 1..Len(s6) : PutsBackAt(s6, c, i)
             /\ \A i \in 1..Len(s2) : PutsBackAt(s2, c, i)
             /\ \A i \in 1..Len(s8) : PutsBackAt(s8, c, i)
             /\ Includes(s6, "abort", c, "") /\ \A key \in TriggerKeys : Includes(s6, "restore", c, key)
             /\ Includes(s8, "abort", c, "") /\ \A key \in TriggerKeys : Includes(s8, "restore", c, key)
             /\ Includes(s2, "restorepins", c, "") /\ Includes(s2, "restorebus", c, "")
             /\ Includes(s8, "restorepins", c, "") /\ Includes(s8, "restorebus", c, "")
<1> DEFINE x1 == Bare("abort", c)
           x2 == Rec("restore", c, "source", 0)
           x3 == Rec("restore", c, "level", 0)
           x4 == Rec("trigger", c, "mode", "fix")
           x5 == Rec("restore", c, "mode", 0)
           x6 == Rec("restore", c, "list", 0)
           x7 == Bare("restorepins", c)
           x8 == Bare("restorebus", c)
           V == {x1, x2, x3, x4, x5, x6, x7, x8}
           s6 == RestoreChannel(c)
           s2 == RestoreGlobal(c)
           s8 == s6 \o s2
<1>1. x1 \in V /\ x2 \in V /\ x3 \in V /\ x4 \in V /\ x5 \in V /\ x6 \in V /\ x7 \in V /\ x8 \in V
  OBVIOUS
<1>2. s6 = <<x1>> \o <<x2>> \o <<x3>> \o <<x4>> \o <<x5>> \o <<x6>> /\ s2 = <<x7>> \o <<x8>>
  BY DEF RestoreChannel, RestoreGlobal, On, Call, Trigger, Rec, Bare
<1>3. /\ x1.op = "abort" /\ x1.ch = c /\ x7.op = "restorepins" /\ x7.ch = c
      /\ x8.op = "restorebus" /\ x8.ch = c
      /\ x2.op = "restore" /\ x2.ch = c /\ x2.key = "source" /\ x3.op = "restore" /\ x3.ch = c /\ x3.key = "level"
      /\ x4.op = "trigger" /\ x4.ch = c /\ x4.key = "mode" /\ x5.op = "restore" /\ x5.ch = c /\ x5.key = "mode"
      /\ x6.op = "restore" /\ x6.ch = c /\ x6.key = "list"
  BY BareParts, ItsParts
<1> HIDE DEF x1, x2, x3, x4, x5, x6, x7, x8, s6, s2, V
<1>4. \A y \in V : <<y>> \in Seq(V) /\ Len(<<y>>) = 1 /\ <<y>>[1] = y
  OBVIOUS
<1> DEFINE t2 == <<x1>> \o <<x2>>
           t3 == t2 \o <<x3>>
           t4 == t3 \o <<x4>>
           t5 == t4 \o <<x5>>
           t6 == t5 \o <<x6>>
<1>5. t2 \in Seq(V) /\ Len(t2) = 2 /\ t2[1] = x1 /\ t2[2] = x2
  <2>1. /\ t2 \in Seq(V) /\ Len(t2) = Len(<<x1>>) + 1 /\ t2[Len(<<x1>>) + 1] = x2
        /\ \A i \in 1..Len(<<x1>>) : t2[i] = <<x1>>[i]
    <3>1. <<x1>> \in Seq(V)
      BY <1>1, <1>4
    <3> QED
      BY <1>1, <3>1, OneMore
  <2>2. Len(<<x1>>) = 1 /\ <<x1>>[1] = x1
    BY <1>1, <1>4
  <2> HIDE DEF t2
  <2> QED
    BY <2>1, <2>2
<1> HIDE DEF t2
<1>6. t3 \in Seq(V) /\ Len(t3) = 3 /\ t3[3] = x3 /\ \A i \in 1..2 : t3[i] = t2[i]
  <2>1. t3 \in Seq(V) /\ Len(t3) = Len(t2) + 1 /\ t3[Len(t2) + 1] = x3 /\ \A i \in 1..Len(t2) : t3[i] = t2[i]
    <3>1. x3 \in V /\ t2 \in Seq(V)
      BY <1>1, <1>5
    <3> QED
      BY <3>1, OneMore
  <2> HIDE DEF t3
  <2> QED
    BY <1>5, <2>1
<1> HIDE DEF t3
<1>7. t4 \in Seq(V) /\ Len(t4) = 4 /\ t4[4] = x4 /\ \A i \in 1..3 : t4[i] = t3[i]
  <2>1. t4 \in Seq(V) /\ Len(t4) = Len(t3) + 1 /\ t4[Len(t3) + 1] = x4 /\ \A i \in 1..Len(t3) : t4[i] = t3[i]
    <3>1. x4 \in V /\ t3 \in Seq(V)
      BY <1>1, <1>6
    <3> QED
      BY <3>1, OneMore
  <2> HIDE DEF t4
  <2> QED
    BY <1>6, <2>1
<1> HIDE DEF t4
<1>8. t5 \in Seq(V) /\ Len(t5) = 5 /\ t5[5] = x5 /\ \A i \in 1..4 : t5[i] = t4[i]
  <2>1. t5 \in Seq(V) /\ Len(t5) = Len(t4) + 1 /\ t5[Len(t4) + 1] = x5 /\ \A i \in 1..Len(t4) : t5[i] = t4[i]
    <3>1. x5 \in V /\ t4 \in Seq(V)
      BY <1>1, <1>7
    <3> QED
      BY <3>1, OneMore
  <2> HIDE DEF t5
  <2> QED
    BY <1>7, <2>1
<1> HIDE DEF t5
<1>9. t6 \in Seq(V) /\ Len(t6) = 6 /\ t6[6] = x6 /\ \A i \in 1..5 : t6[i] = t5[i]
  <2>1. t6 \in Seq(V) /\ Len(t6) = Len(t5) + 1 /\ t6[Len(t5) + 1] = x6 /\ \A i \in 1..Len(t5) : t6[i] = t5[i]
    <3>1. x6 \in V /\ t5 \in Seq(V)
      BY <1>1, <1>8
    <3> QED
      BY <3>1, OneMore
  <2> HIDE DEF t6
  <2> QED
    BY <1>8, <2>1
<1>10. s6 = t6
  BY <1>2 DEF t2, t3, t4, t5
<1> HIDE DEF t6
<1>11. /\ s6 \in Seq(V) /\ Len(s6) = 6 /\ s6[1] = x1 /\ s6[2] = x2 /\ s6[3] = x3 /\ s6[4] = x4 /\ s6[5] = x5
       /\ s6[6] = x6
  BY <1>5, <1>6, <1>7, <1>8, <1>9, <1>10
<1>12. s2 \in Seq(V) /\ Len(s2) = 2 /\ s2[1] = x7 /\ s2[2] = x8
  <2>1. /\ s2 \in Seq(V) /\ Len(s2) = Len(<<x7>>) + 1 /\ s2[Len(<<x7>>) + 1] = x8
        /\ \A i \in 1..Len(<<x7>>) : s2[i] = <<x7>>[i]
    <3>1. <<x7>> \in Seq(V)
      BY <1>1, <1>4
    <3> QED
      BY <1>1, <1>2, <3>1, OneMore
  <2>2. Len(<<x7>>) = 1 /\ <<x7>>[1] = x7
    BY <1>1, <1>4
  <2> QED
    BY <2>1, <2>2
<1>13. /\ Len(s8) = 8 /\ s8[1] = x1 /\ s8[2] = x2 /\ s8[3] = x3 /\ s8[4] = x4 /\ s8[5] = x5 /\ s8[6] = x6
       /\ s8[7] = x7 /\ s8[8] = x8
  <2>1. Len(s8) = Len(s6) + Len(s2) /\ (\A i \in 1..Len(s6) : s8[i] = s6[i]) /\ \A i \in 1..Len(s2) : s8[Len(s6) + i] = s2[i]
    <3>1. s6 \in Seq(V) /\ s2 \in Seq(V)
      BY <1>11, <1>12
    <3> QED
      BY <3>1, JoinedAt
  <2> HIDE DEF s8
  <2>2. (\A i \in 1..6 : s8[i] = s6[i]) /\ s8[6 + 1] = s2[1] /\ s8[6 + 2] = s2[2] /\ Len(s8) = 6 + 2
    BY <1>11, <1>12, <2>1
  <2> QED
    BY <1>11, <1>12, <2>2
<1> HIDE DEF s8
<1>14. \A i \in 1..Len(s6) : PutsBackAt(s6, c, i)
  <2> SUFFICES ASSUME NEW i \in 1..6 PROVE PutsBackAt(s6, c, i)
    BY <1>11
  <2>1. i = 1 \/ i = 2 \/ i = 3 \/ i = 4 \/ i = 5 \/ i = 6
    OBVIOUS
  <2> QED
    BY <1>3, <1>11, <2>1 DEF PutsBackAt, Undoings, TriggerKeys
<1>15. \A i \in 1..Len(s2) : PutsBackAt(s2, c, i)
  <2> SUFFICES ASSUME NEW i \in 1..2 PROVE PutsBackAt(s2, c, i)
    BY <1>12
  <2>1. i = 1 \/ i = 2
    OBVIOUS
  <2> QED
    BY <1>3, <1>12, <2>1 DEF PutsBackAt, Undoings, TriggerKeys
<1>16. \A i \in 1..Len(s8) : PutsBackAt(s8, c, i)
  <2> SUFFICES ASSUME NEW i \in 1..8 PROVE PutsBackAt(s8, c, i)
    BY <1>13
  <2>1. i = 1 \/ i = 2 \/ i = 3 \/ i = 4 \/ i = 5 \/ i = 6 \/ i = 7 \/ i = 8
    OBVIOUS
  <2> QED
    BY <1>3, <1>13, <2>1 DEF PutsBackAt, Undoings, TriggerKeys
<1>17. Includes(s6, "abort", c, "") /\ \A key \in TriggerKeys : Includes(s6, "restore", c, key)
  <2>1. 1 \in 1..6 /\ 2 \in 1..6 /\ 3 \in 1..6 /\ 5 \in 1..6 /\ 6 \in 1..6
    OBVIOUS
  <2> QED
    BY <1>3, <1>11, <2>1 DEF Includes, TriggerKeys
<1>18. Includes(s8, "abort", c, "") /\ \A key \in TriggerKeys : Includes(s8, "restore", c, key)
  <2>1. 1 \in 1..8 /\ 2 \in 1..8 /\ 3 \in 1..8 /\ 5 \in 1..8 /\ 6 \in 1..8
    OBVIOUS
  <2> QED
    BY <1>3, <1>13, <2>1 DEF Includes, TriggerKeys
<1>19. /\ Includes(s2, "restorepins", c, "") /\ Includes(s2, "restorebus", c, "")
       /\ Includes(s8, "restorepins", c, "") /\ Includes(s8, "restorebus", c, "")
  <2>1. 1 \in 1..2 /\ 2 \in 1..2 /\ 7 \in 1..8 /\ 8 \in 1..8
    OBVIOUS
  <2> QED
    BY <1>3, <1>12, <1>13, <2>1 DEF Includes
<1> QED
  BY <1>14, <1>15, <1>16, <1>17, <1>18, <1>19 DEF s6, s2, s8

\* The calls that use the triggers of the channels T.
BodyCalls(cmd, T) == {k \in Calls(cmd) : UsesTrigger(k, T)}

\* A call that does.
LEMMA UsingCall ==
  ASSUME NEW cmd, NEW T, NEW op \in Ops \ {"save", "restore", "restorepins", "restorebus"}, NEW c \in Nat,
         NEW key \in Keys, NEW v \in Vals(cmd), op \in {"trigger", "hold"} => c \in T,
         op = "trigger" => key \in TriggerKeys
  PROVE  Call(op, c, key, v) \in Seq(BodyCalls(cmd, T))
<1> DEFINE k == Rec(op, c, key, v)
           S == BodyCalls(cmd, T)
<1>1. k.op = op /\ k.ch = c /\ k.key = key
  BY ItsParts
<1>2. k \in Calls(cmd)
  BY DEF Calls, Rec
<1>3. Call(op, c, key, v) = <<k>>
  BY DEF Call, Rec
<1> HIDE DEF k
<1>4. k \in S
  BY <1>1, <1>2 DEF UsesTrigger, BodyCalls
<1> HIDE DEF S
<1>5. \A y \in S : <<y>> \in Seq(S)
  OBVIOUS
<1> QED
  BY <1>3, <1>4, <1>5 DEF S

\* The pieces of a body.
LEMMA UsingPieces ==
  ASSUME NEW cmd \in Commands, NEW T, T \subseteq Nat, NEW c \in T
  PROVE  LET L == Seq(BodyCalls(cmd, T))
         IN  /\ Poll \in L /\ Read(c) \in L /\ \A d \in Nat : On("abort", d) \in L
             /\ On("hold", c) \in L /\ On("collected", 0) \in L
             /\ On("init", c) \in L /\ On("trg", 0) \in L /\ FireAndWait(cmd) \in L
             /\ \A e \in BOOLEAN : ConfigurePins(cmd.pins, e) \in L
             /\ \A v \in Given(cmd) : Level(c, v) \in L /\ Trigger(c, "list", v) \in L
             /\ \A m \in {"step", "list"} : Mode(c, m) \in L
             /\ Trigger(c, "source", "bus") \in L /\ Trigger(c, "source", cmd.source) \in L
<1> DEFINE S == BodyCalls(cmd, T)
           L == Seq(S)
<1> USE DEF Ops, Keys, TriggerKeys, Settings
<1>1. c \in Nat /\ "" \in Keys /\ 0 \in Vals(cmd) /\ TRUE \in BOOLEAN
  BY DEF Vals
<1>2. \A op \in {"poll", "read", "abort", "collected", "init", "trg", "cls", "wait", "bus"} : \A d \in Nat : On(op, d) \in L
  BY <1>1, UsingCall DEF On
<1>3. On("hold", c) \in L
  BY <1>1, UsingCall DEF On
<1>4. \A v \in Vals(cmd) : \A key \in TriggerKeys : Trigger(c, key, v) \in L
  BY <1>1, UsingCall DEF Trigger
<1>5. \A op \in {"pins", "clearpins"} : Call(op, 0, "", cmd.pins) \in L
  <2>1. cmd.pins \in Vals(cmd)
    BY DEF Vals
  <2> QED
    BY <1>1, <2>1, UsingCall
<1>6. {"fix", "step", "list", "bus", cmd.source} \subseteq Vals(cmd) /\ Given(cmd) \subseteq Vals(cmd)
  BY DEF Vals
<1> HIDE DEF S
<1>7. \A s, t \in L : s \o t \in L
  BY JoinLists
<1>8. \A s \in L : \A p : When(p, s) \in L
  BY WhenList
<1> HIDE DEF L
<1>9. \A e \in BOOLEAN : ConfigurePins(cmd.pins, e) \in L
  <2> SUFFICES ASSUME NEW e \in BOOLEAN PROVE ConfigurePins(cmd.pins, e) \in L
    OBVIOUS
  <2>1. When(e, Call("clearpins", 0, "", cmd.pins)) \in L /\ Call("pins", 0, "", cmd.pins) \in L /\ On("bus", 0) \in L
    BY <1>2, <1>5, <1>8
  <2>2. When(e, Call("clearpins", 0, "", cmd.pins)) \o Call("pins", 0, "", cmd.pins) \o On("bus", 0) \in L
    BY <1>7, <2>1
  <2> QED
    BY <1>8, <2>2 DEF ConfigurePins
<1>10. \A v \in Given(cmd) : Level(c, v) \in L /\ Trigger(c, "list", v) \in L
  BY <1>3, <1>4, <1>6 DEF Level
<1>11. \A m \in {"step", "list"} : Mode(c, m) \in L
  BY <1>4, <1>6, <1>7 DEF Mode
<1>12. Trigger(c, "source", "bus") \in L /\ Trigger(c, "source", cmd.source) \in L
  BY <1>4, <1>6
<1>13. FireAndWait(cmd) \in L
  <2>1. Wait \in L /\ On("trg", 0) \in L
    BY <1>2, <1>7 DEF Wait
  <2> QED
    BY <1>7, <1>8, <2>1 DEF FireAndWait
<1>14. Poll \in L /\ Read(c) \in L /\ (\A d \in Nat : On("abort", d) \in L) /\ On("collected", 0) \in L
       /\ On("init", c) \in L /\ On("trg", 0) \in L
  BY <1>1, <1>2 DEF Poll, Read
<1> QED
  BY <1>3, <1>9, <1>10, <1>11, <1>12, <1>13, <1>14 DEF L, S

\* A block of such calls.
LEMMA UsingBlock ==
  ASSUME NEW cmd, NEW T, NEW kind \in {"try", "collect", "waitfail"}, NEW calls \in Seq(BodyCalls(cmd, T))
  PROVE  Body([kind |-> kind, calls |-> calls], T)
<1>1. \A i \in 1..Len(calls) : calls[i] \in BodyCalls(cmd, T)
  <2> DEFINE S == BodyCalls(cmd, T)
  <2> HIDE DEF S
  <2>1. calls \in Seq(S)
    BY DEF S
  <2>2. \A i \in 1..Len(calls) : calls[i] \in S
    BY <2>1, ItsElements
  <2> QED
    BY <2>2 DEF S
<1>2. \A i \in 1..Len(calls) : UsesTrigger(calls[i], T)
  BY <1>1 DEF BodyCalls
<1> DEFINE blk == [kind |-> kind, calls |-> calls]
<1>3. blk.kind = kind /\ blk.calls = calls
  OBVIOUS
<1> HIDE DEF blk
<1>4. Body(blk, T)
  BY <1>2, <1>3 DEF Body
<1> QED
  BY <1>4 DEF blk

\* A block that reads the error queue.
LEMMA ErrorsRead ==
  ASSUME NEW kind \in {"plain", "effort"}
  PROVE  ReadsErrors([kind |-> kind, calls |-> Errors])
<1> DEFINE k == Bare("errors", 0)
           blk == [kind |-> kind, calls |-> Errors]
<1>1. k.op = "errors" /\ k.ch = 0
  BY BareParts
<1>2. Errors = <<k>>
  BY DEF Errors, On, Call, Bare, Rec
<1> HIDE DEF k
<1>3. Len(<<k>>) = 1 /\ <<k>>[1] = k
  OBVIOUS
<1>4. blk.kind = kind /\ blk.calls = <<k>>
  BY <1>2
<1> HIDE DEF blk
<1>5. \A i \in 1..Len(blk.calls) : blk.calls[i] = k
  <2>1. \A i \in 1..1 : i = 1
    OBVIOUS
  <2> QED
    BY <1>3, <1>4, <2>1
<1>6. ReadsErrors(blk)
  BY <1>1, <1>4, <1>5 DEF ReadsErrors
<1> QED
  BY <1>6 DEF blk

\* A block that saves the trigger of one channel.
LEMMA SavesOne ==
  ASSUME NEW cmd, NEW pre \in Mild(cmd), NEW c
  PROVE  Saving([kind |-> "plain", calls |-> pre \o Save(c)], {c})
<1> DEFINE k == Bare("save", c)
           S == {x \in OwnCalls(cmd) : x.op \notin Touching}
           U == S \cup {k}
           calls == pre \o <<k>>
           n == Len(pre)
           blk == [kind |-> "plain", calls |-> pre \o Save(c)]
<1>1. k.op = "save" /\ k.ch = c
  BY BareParts
<1>2. Save(c) = <<k>>
  BY DEF Save, On, Call, Bare, Rec
<1>3. blk.kind = "plain" /\ blk.calls = calls
  BY <1>2
<1>4. pre \in Seq(S) /\ k \in U /\ \A x \in S : x.op \notin Touching
  BY DEF Mild
<1> HIDE DEF S, k, blk
<1>5. pre \in Seq(U) /\ \A i \in 1..n : pre[i] \in S
  <2>1. \A i \in 1..Len(pre) : pre[i] \in S
    BY <1>4, ItsElements
  <2>2. S \subseteq U
    OBVIOUS
  <2> HIDE DEF U
  <2>3. pre \in Seq(U)
    BY <1>4, <2>2
  <2> QED
    BY <2>1, <2>3
<1> HIDE DEF U
<1>6. n \in Nat /\ Len(calls) = n + 1 /\ calls[n + 1] = k /\ \A i \in 1..n : calls[i] = pre[i]
  BY <1>4, <1>5, OneMore
<1> HIDE DEF calls, n
<1>7. \A i \in 1..n + 1 : i \in 1..n \/ i = n + 1
  BY <1>6
<1>8. \A i \in 1..n : calls[i].op \notin Touching /\ calls[i].op # "save"
  <2>1. "save" \in Touching
    BY DEF Touching
  <2>2. \A i \in 1..n : calls[i].op \notin Touching
    BY <1>4, <1>5, <1>6
  <2> QED
    BY <2>1, <2>2
<1>9. n + 1 \in Nat \ {0} /\ n + 1 \in 1..n + 1 /\ ~(n + 1 < n + 1)
  BY <1>6
<1>10. /\ \A i \in 1..n + 1 : calls[i].op \in Touching => calls[i].op = "save"
       /\ \A i \in 1..n + 1 : calls[i].op = "save" => calls[i].ch \in {c} /\ (i < n + 1 => calls[i].ch # calls[n + 1].ch)
  BY <1>1, <1>6, <1>7, <1>8, <1>9
<1>11. Saving(blk, {c})
  BY <1>1, <1>3, <1>6, <1>9, <1>10 DEF Saving
<1> QED
  BY <1>11 DEF blk

\* One that saves those of all channels.
LEMMA SavesAll ==
  ASSUME NEW n \in Nat \ {0}
  PROVE  Saving([kind |-> "plain", calls |-> FlattenSeq([i \in 1..n |-> Save(i)])], 1..n)
<1> DEFINE f == [i \in 1..n |-> Bare("save", i)]
           U == {Bare("save", i) : i \in 1..n}
           calls == FlattenSeq([i \in 1..n |-> <<f[i]>>])
           blk == [kind |-> "plain", calls |-> FlattenSeq([i \in 1..n |-> Save(i)])]
<1>1. \A i \in 1..n : f[i].op = "save" /\ f[i].ch = i
  BY BareParts
<1>2. f \in [1..n -> U]
  OBVIOUS
<1>3. blk.kind = "plain" /\ blk.calls = calls
  <2>1. [i \in 1..n |-> Save(i)] = [i \in 1..n |-> <<f[i]>>]
    BY DEF Save, On, Call, Bare, Rec
  <2> QED
    BY <2>1
<1> HIDE DEF blk, f, U
<1>4. Len(calls) = n /\ \A i \in 1..n : calls[i] = f[i]
  BY <1>2, FlatSingles, ZenonT(60)
<1> HIDE DEF calls
<1>5. n \in 1..n /\ \A i \in 1..n : i < n => i # n
  OBVIOUS
<1>6. \A i \in 1..n : calls[i].op = "save" /\ calls[i].ch = i
  BY <1>1, <1>4
<1>7. Saving(blk, 1..n)
  BY <1>3, <1>4, <1>5, <1>6 DEF Saving
<1> QED
  BY <1>7 DEF blk

\* A block that puts one channel and the pins back.
LEMMA RestoreBlock ==
  ASSUME NEW c, NEW kind \in Always
  PROVE  LET blk == [kind |-> kind, calls |-> RestoreChannel(c) \o RestoreGlobal(c)]
         IN  /\ Undone(blk, {c}) /\ Within(blk, "abort", c, "") /\ \A key \in TriggerKeys : Within(blk, "restore", c, key)
             /\ Within(blk, "restorepins", c, "") /\ Within(blk, "restorebus", c, "")
<1> DEFINE s8 == RestoreChannel(c) \o RestoreGlobal(c)
           blk == [kind |-> kind, calls |-> s8]
<1>1. /\ \A i \in 1..Len(s8) : PutsBackAt(s8, c, i)
      /\ Includes(s8, "abort", c, "") /\ \A key \in TriggerKeys : Includes(s8, "restore", c, key)
      /\ Includes(s8, "restorepins", c, "") /\ Includes(s8, "restorebus", c, "")
  BY RestoreShapes
<1>2. blk.kind = kind /\ blk.calls = s8 /\ kind \in Always
  OBVIOUS
<1> HIDE DEF s8, blk
<1>3. Undone(blk, {c})
  BY <1>1, <1>2 DEF Undone
<1>4. /\ Within(blk, "abort", c, "") /\ \A key \in TriggerKeys : Within(blk, "restore", c, key)
      /\ Within(blk, "restorepins", c, "") /\ Within(blk, "restorebus", c, "")
  BY <1>1, <1>2 DEF Within
<1> QED
  BY <1>3, <1>4 DEF blk, s8

\* One that puts one of the channels T back, one that puts the pins back.
LEMMA RestoreBlocks ==
  ASSUME NEW T, NEW c \in T
  PROVE  /\ LET blk == [kind |-> "effort", calls |-> RestoreChannel(c)]
            IN  /\ Undone(blk, T) /\ Within(blk, "abort", c, "")
                /\ \A key \in TriggerKeys : Within(blk, "restore", c, key)
         /\ LET blk == [kind |-> "effort", calls |-> RestoreGlobal(c)]
            IN  Undone(blk, T) /\ Within(blk, "restorepins", c, "") /\ Within(blk, "restorebus", c, "")
<1> DEFINE s6 == RestoreChannel(c)
           s2 == RestoreGlobal(c)
           one == [kind |-> "effort", calls |-> s6]
           two == [kind |-> "effort", calls |-> s2]
<1>1. /\ \A i \in 1..Len(s6) : PutsBackAt(s6, c, i)
      /\ \A i \in 1..Len(s2) : PutsBackAt(s2, c, i)
      /\ Includes(s6, "abort", c, "") /\ \A key \in TriggerKeys : Includes(s6, "restore", c, key)
      /\ Includes(s2, "restorepins", c, "") /\ Includes(s2, "restorebus", c, "")
  BY RestoreShapes
<1>2. one.kind \in Always /\ one.calls = s6 /\ two.kind \in Always /\ two.calls = s2
  BY DEF Always
<1> HIDE DEF s6, s2, one, two
<1>3. Undone(one, T) /\ Undone(two, T)
  BY <1>1, <1>2 DEF Undone
<1>4. /\ Within(one, "abort", c, "") /\ \A key \in TriggerKeys : Within(one, "restore", c, key)
      /\ Within(two, "restorepins", c, "") /\ Within(two, "restorebus", c, "")
  BY <1>1, <1>2 DEF Within
<1> QED
  BY <1>3, <1>4 DEF one, two, s6, s2

\* The tail of a command that used the trigger of one channel.
LEMMA TailOfOne ==
  ASSUME NEW c, NEW kind \in Always, NEW U, NEW R \in Seq(U), Len(R) # 0,
         R[1] = [kind |-> kind, calls |-> RestoreChannel(c) \o RestoreGlobal(c)],
         \A b \in 2..Len(R) : ReadsErrors(R[b])
  PROVE  PutBack(R, {c}, 0)
<1>1. Len(R) \in Nat
  BY LenProperties
<1>2. 0 + 1..Len(R) = 1..Len(R) /\ 1 \in 1..Len(R) /\ \A b \in 1..Len(R) : b = 1 \/ b \in 2..Len(R)
  BY <1>1
<1>3. /\ Undone(R[1], {c}) /\ Within(R[1], "abort", c, "") /\ \A key \in TriggerKeys : Within(R[1], "restore", c, key)
      /\ Within(R[1], "restorepins", c, "") /\ Within(R[1], "restorebus", c, "")
  BY RestoreBlock
<1>4. \A b, d \in 1..Len(R) : b < d => d \in 2..Len(R)
  BY <1>1
<1>5. \A b \in 1..Len(R) : Undone(R[b], {c}) \/ ReadsErrors(R[b])
  BY <1>2, <1>3
<1> QED
  BY <1>2, <1>3, <1>4, <1>5 DEF PutBack

\* The tail of one that used those of all channels.
LEMMA TailOfAll ==
  ASSUME NEW n \in Nat \ {0}, NEW U, NEW R \in Seq(U), Len(R) = n + 2,
         \A b \in 1..n : R[b] = [kind |-> "effort", calls |-> RestoreChannel(b)],
         R[n + 1] = [kind |-> "effort", calls |-> RestoreGlobal(1)],
         R[n + 2] = [kind |-> "effort", calls |-> Errors]
  PROVE  PutBack(R, 1..n, 0)
<1> DEFINE later == 1..n + 2
<1>1. 0 + 1..Len(R) = later
  OBVIOUS
<1>2. 1 \in 1..n /\ n + 1 \in later /\ n + 2 \in later
      /\ (\A b \in 1..n : b \in later) /\ \A b \in later : b \in 1..n \/ b = n + 1 \/ b = n + 2
  OBVIOUS
<1> HIDE DEF later
<1> DEFINE T == 1..n
<1>3. \A b \in 1..n : /\ Undone(R[b], T) /\ Within(R[b], "abort", b, "")
                     /\ \A key \in TriggerKeys : Within(R[b], "restore", b, key)
  <2> HIDE DEF T
  <2>1. \A b \in T : R[b] = [kind |-> "effort", calls |-> RestoreChannel(b)]
    BY DEF T
  <2> SUFFICES ASSUME NEW b \in T
               PROVE  /\ Undone(R[b], T) /\ Within(R[b], "abort", b, "")
                      /\ \A key \in TriggerKeys : Within(R[b], "restore", b, key)
    BY DEF T
  <2> QED
    BY <2>1, RestoreBlocks
<1>4. Undone(R[n + 1], T) /\ Within(R[n + 1], "restorepins", 1, "") /\ Within(R[n + 1], "restorebus", 1, "")
  <2>1. 1 \in T
    OBVIOUS
  <2> HIDE DEF T
  <2> QED
    BY <2>1, RestoreBlocks
<1>5. ReadsErrors(R[n + 2])
  BY ErrorsRead
<1>6. \A b \in later : R[b].kind = "effort"
  <2>1. \A calls : [kind |-> "effort", calls |-> calls].kind = "effort"
    OBVIOUS
  <2>2. (\A b \in 1..n : R[b].kind = "effort") /\ R[n + 1].kind = "effort" /\ R[n + 2].kind = "effort"
    BY <2>1
  <2> QED
    BY <1>2, <2>2
<1> HIDE DEF T
<1>7. /\ \A b \in later : Undone(R[b], T) \/ ReadsErrors(R[b])
      /\ \A b, d \in later : b < d /\ R[b].kind \in {"plain", "cleanup"} => ReadsErrors(R[d])
  BY <1>2, <1>3, <1>4, <1>5, <1>6
<1>8. \A c \in T : /\ \E b \in later : Within(R[b], "abort", c, "")
                  /\ \A key \in TriggerKeys : \E b \in later : Within(R[b], "restore", c, key)
  BY <1>2, <1>3 DEF T
<1>9. (\E c : \E b \in later : Within(R[b], "restorepins", c, "")) /\ \E c : \E b \in later : Within(R[b], "restorebus", c, "")
  BY <1>2, <1>4
<1> QED
  BY <1>1, <1>7, <1>8, <1>9 DEF PutBack, T

\* Three lists, either way.
LEMMA Associates ==
  ASSUME NEW U, NEW s \in Seq(U), NEW t \in Seq(U), NEW u \in Seq(U)
  PROVE  s \o t \in Seq(U) /\ (s \o t) \o u = s \o (t \o u)
<1>1. s \o t \in Seq(U)
  BY JoinLists
<1>2. (s \o t) \o u = s \o (t \o u)
  BY ConcatAssociative, SMT
<1> QED
  BY <1>1, <1>2

\* The same of lists of any number.
Joined(s, t) == s \o t

\* Joined lists are lists of the same.
LEMMA JoinedIn ==
  ASSUME NEW U
  PROVE  \A s, t \in Seq(U) : Joined(s, t) \in Seq(U)
BY ConcatProperties DEF Joined

\* Three lists, either way, for all of them.
LEMMA JoinedTwice ==
  ASSUME NEW U
  PROVE  \A s, t, u \in Seq(U) : Joined(Joined(s, t), u) = Joined(s, Joined(t, u))
<1> SUFFICES ASSUME NEW s \in Seq(U), NEW t \in Seq(U), NEW u \in Seq(U)
             PROVE  Joined(Joined(s, t), u) = Joined(s, Joined(t, u))
  OBVIOUS
<1>1. (s \o t) \o u = s \o (t \o u)
  BY Associates
<1> QED
  BY <1>1 DEF Joined

\* The blocks of a step or a list, as written and as they mend: the snapshot,
\* the body and the abort after a failed wait, the tail.
NativeShape(x, d, w, r, e) == (x \o d) \o ((w \o r) \o e)
MendedShape(x, d, w, r, e) == ((<< >> \o x) \o (d \o w)) \o (r \o e)

\* They are the same blocks.
LEMMA NativeShapes ==
  ASSUME NEW U, NEW x \in Seq(U), NEW d \in Seq(U), NEW w \in Seq(U), NEW r \in Seq(U), NEW e \in Seq(U)
  PROVE  NativeShape(x, d, w, r, e) = MendedShape(x, d, w, r, e)
<1>1. Joined(Joined(x, d), Joined(Joined(w, r), e)) = Joined(Joined(x, Joined(d, w)), Joined(r, e))
  BY JoinedIn, JoinedTwice
<1>2. << >> \o x = x
  BY ConcatEmptySeq
<1> QED
  BY <1>1, <1>2 DEF NativeShape, MendedShape, Joined

\* A list of one block.
LEMMA OneOf ==
  ASSUME NEW U, NEW x \in U
  PROVE  <<x>> \in Seq(U) /\ Len(<<x>>) = 1 /\ <<x>>[1] = x
OBVIOUS

-----------------------------------------------------------------------------
(* The commands that put the triggers back                                 *)

\* The channels whose triggers a command uses.
TriggersOf(cmd) ==
  IF cmd.name = "trigger-pulse" THEN ChannelsOf(cmd.model)
  ELSE IF cmd.name \in Configures THEN ToSet(cmd.channels) ELSE {cmd.pulse} \ {0}

\* Its blocks put them back.
Mended(blocks, T) == \E sb, fb : MendingBlocks(blocks, T, sb, fb)

\* A step or a list.
LEMMA NativeMends ==
  ASSUME NEW cmd \in Commands, NEW pre \in Mild(cmd), NEW c \in Nat \ {0}, NEW calls \in Seq(BodyCalls(cmd, {c})),
         ~Has(cmd, "leave")
  PROVE  Mended(Plain(pre \o Save(c)) \o Try(calls) \o FinishTransient(cmd, c), {c})
<1> DEFINE T == {c}
           x == [kind |-> "plain", calls |-> pre \o Save(c)]
           d == [kind |-> "try", calls |-> calls]
           w == [kind |-> "waitfail", calls |-> On("abort", c)]
           r == [kind |-> "cleanup", calls |-> RestoreChannel(c) \o RestoreGlobal(c)]
           e == [kind |-> "plain", calls |-> Errors]
           U == {x, d, w, r, e}
           W == When(Has(cmd, "wait"), <<w>>)
           D == <<d>> \o W
           R == <<r>> \o <<e>>
<1>1. FinishTransient(cmd, c) = (W \o <<r>>) \o <<e>>
  BY DEF FinishTransient, When, Block, Cleanup, Plain
<1>2. Plain(pre \o Save(c)) = <<x>> /\ Try(calls) = <<d>>
  BY DEF Plain, Try, Block
<1>3. x \in U /\ d \in U /\ w \in U /\ r \in U /\ e \in U
  OBVIOUS
<1>4. Saving(x, T)
  BY SavesOne
<1>5. Body(d, T) /\ Body(w, T)
  <2>1. On("abort", c) \in Seq(BodyCalls(cmd, T))
    <3>1. T \subseteq Nat /\ c \in T /\ c \in Nat
      OBVIOUS
    <3> HIDE DEF T
    <3> QED
      BY <3>1, UsingPieces
  <2> HIDE DEF T
  <2>2. calls \in Seq(BodyCalls(cmd, T))
    BY DEF T
  <2> QED
    BY <2>1, <2>2, UsingBlock
<1>6. ReadsErrors(e)
  BY ErrorsRead
<1>7. r = [kind |-> "cleanup", calls |-> RestoreChannel(c) \o RestoreGlobal(c)] /\ "cleanup" \in Always
  BY DEF Always
<1> HIDE DEF x, d, w, r, e, U
<1>8. <<x>> \in Seq(U) /\ <<d>> \in Seq(U) /\ <<w>> \in Seq(U) /\ <<r>> \in Seq(U) /\ <<e>> \in Seq(U)
  BY <1>3, OneOf
<1>9. W \in Seq(U)
  BY <1>8, WhenList
<1>10. D \in Seq(U) /\ \A b \in 1..Len(D) : Body(D[b], T)
  <2>1. /\ D \in Seq(U) /\ Len(D) = Len(<<d>>) + Len(W) /\ Len(W) \in Nat
        /\ \A i \in 1..Len(<<d>>) : D[i] = <<d>>[i]
        /\ \A i \in 1..Len(W) : D[Len(<<d>>) + i] = W[i]
    BY <1>8, <1>9, JoinedAt
  <2>2. Len(<<d>>) = 1 /\ <<d>>[1] = d
    BY <1>3, OneOf
  <2>3. \A i \in 1..Len(W) : W[i] = w
    <3>1. CASE Has(cmd, "wait")
      <4>1. W = <<w>> /\ Len(<<w>>) = 1 /\ <<w>>[1] = w
        BY <1>3, <3>1, OneOf DEF When
      <4> HIDE DEF W
      <4>2. \A i \in 1..1 : i = 1
        OBVIOUS
      <4> QED
        BY <4>1, <4>2
    <3>2. CASE ~Has(cmd, "wait")
      <4>1. W = << >> /\ Len(<< >>) = 0
        BY <3>2, EmptySeq DEF When
      <4> HIDE DEF W
      <4> QED
        BY <4>1
    <3> QED
      BY <3>1, <3>2
  <2> HIDE DEF D, W
  <2>4. \A b \in 1..Len(D) : b = 1 \/ (b - 1 \in 1..Len(W) /\ 1 + (b - 1) = b)
    BY <2>1, <2>2
  <2>5. \A b \in 1..Len(D) : D[b] = d \/ D[b] = w
    <3> SUFFICES ASSUME NEW b \in 1..Len(D) PROVE D[b] = d \/ D[b] = w
      OBVIOUS
    <3>1. CASE b = 1
      BY <2>1, <2>2, <3>1
    <3>2. CASE b # 1
      <4>1. D[1 + (b - 1)] = W[b - 1]
        BY <2>1, <2>2, <2>4, <3>2
      <4> QED
        BY <2>3, <2>4, <3>2, <4>1
    <3> QED
      BY <3>1, <3>2
  <2> QED
    BY <1>5, <2>1, <2>5
<1>11. R \in Seq(U) /\ PutBack(R, T, 0)
  <2>1. R \in Seq(U) /\ Len(R) = Len(<<r>>) + 1 /\ R[Len(<<r>>) + 1] = e /\ \A i \in 1..Len(<<r>>) : R[i] = <<r>>[i]
    BY <1>3, <1>8, OneMore
  <2>2. Len(<<r>>) = 1 /\ <<r>>[1] = r
    BY <1>3, OneOf
  <2> HIDE DEF R
  <2>3. Len(R) = 2 /\ R[1] = r /\ R[2] = e
    BY <2>1, <2>2
  <2>4. \A b \in 2..Len(R) : ReadsErrors(R[b])
    <3>1. \A b \in 2..2 : b = 2
      OBVIOUS
    <3> QED
      BY <1>6, <2>3, <3>1
  <2> QED
    <3>1. /\ "cleanup" \in Always /\ R \in Seq(U) /\ Len(R) # 0
          /\ R[1] = [kind |-> "cleanup", calls |-> RestoreChannel(c) \o RestoreGlobal(c)]
      BY <1>7, <2>1, <2>3
    <3>2. PutBack(R, {c}, 0)
      BY <2>4, <3>1, TailOfOne
    <3> QED
      BY <3>1, <3>2
<1>12. (<<x>> \o <<d>>) \o ((W \o <<r>>) \o <<e>>) = ((<< >> \o <<x>>) \o D) \o R
  <2> DEFINE X == <<x>>
             DD == <<d>>
             RR == <<r>>
             E == <<e>>
  <2>1. X \in Seq(U) /\ DD \in Seq(U) /\ RR \in Seq(U) /\ E \in Seq(U) /\ W \in Seq(U)
    BY <1>8, <1>9
  <2> HIDE DEF X, DD, RR, E, W
  <2>2. NativeShape(X, DD, W, RR, E) = MendedShape(X, DD, W, RR, E)
    BY <2>1, NativeShapes
  <2> QED
    BY <2>2 DEF NativeShape, MendedShape, X, DD, RR, E
<1> HIDE DEF D, R, W
<1>13. Mended(<< >> \o <<x>> \o D \o R, T)
  <2>1. << >> \in Seq(U) /\ (\A b \in 1..Len(<< >>) : LeavesAlone(<< >>[b])) /\ 0 \notin T
    BY EmptySeq
  <2> DEFINE P == << >>
  <2>2. P \in Seq(U) /\ (\A b \in 1..Len(P) : LeavesAlone(P[b])) /\ 0 \notin T
    BY <2>1
  <2> HIDE DEF P, T
  <2>3. \E sb, fb : MendingBlocks(P \o <<x>> \o D \o R, T, sb, fb)
    BY <1>3, <1>4, <1>10, <1>11, <2>2, Assembled
  <2> QED
    BY <2>3 DEF P, Mended
<1> QED
  BY <1>1, <1>2, <1>12, <1>13

\* A step or a list has one channel.
LEMMA OnlyChannel ==
  ASSUME NEW cmd \in Commands, cmd.name \in SingleChannel
  PROVE  ToSet(cmd.channels) = {cmd.channels[1]} /\ cmd.channels[1] \in Nat \ {0}
<1>1. Len(cmd.channels) = 1 /\ DOMAIN cmd.channels = 1..1 /\ cmd.channels \in Seq(ChannelsOf(cmd.model))
      /\ ChannelsOf(cmd.model) \subseteq Nat \ {0}
  <2>1. Admitted(cmd)
    BY CommandFacts
  <2>2. Len(cmd.channels) = 1
    BY <2>1 DEF Admitted
  <2>3. cmd.channels \in Seq(ChannelsOf(cmd.model))
    BY <2>1 DEF Admitted
  <2>4. DOMAIN cmd.channels = 1..Len(cmd.channels) /\ ChannelsOf(cmd.model) \subseteq Nat \ {0}
    BY CommandFacts
  <2> QED
    BY <2>2, <2>3, <2>4
<1>2. \A i \in 1..1 : i = 1
  OBVIOUS
<1>3. ToSet(cmd.channels) = {cmd.channels[1]}
  BY <1>1, <1>2 DEF ToSet
<1>4. cmd.channels[1] \in ToSet(cmd.channels) /\ ToSet(cmd.channels) \subseteq Nat \ {0}
  BY <1>3, CommandFacts
<1> QED
  BY <1>3, <1>4

\* Step and list put the trigger of their channel back.
LEMMA NativesMend ==
  ASSUME NEW cmd \in Commands, cmd.name \in {"trigger-step", "trigger-list"}, ~Has(cmd, "leave")
  PROVE  Mended(BlocksOf(cmd), TriggersOf(cmd))
<1> DEFINE c == cmd.channels[1]
           T == {c}
           v == cmd.values["voltage"]
           S == BodyCalls(cmd, T)
           first == When(v = None, Read(c))
           one == Poll \o On("abort", c) \o ConfigurePins(cmd.pins, FALSE) \o Level(c, v)
                    \o Mode(c, "step") \o Trigger(c, "source", cmd.source) \o On("init", c) \o FireAndWait(cmd)
           two == Poll \o On("abort", c) \o ConfigurePins(cmd.pins, Has(cmd, "exclusive"))
                    \o Trigger(c, "list", v) \o Mode(c, "list")
                    \o Trigger(c, "source", cmd.source) \o On("init", c) \o FireAndWait(cmd)
<1>1. TriggersOf(cmd) = T /\ c \in Nat \ {0}
  BY OnlyChannel DEF TriggersOf, Configures, SingleChannel
<1>2. v \in Given(cmd) /\ FALSE \in BOOLEAN /\ Has(cmd, "exclusive") \in BOOLEAN
  BY CommandFacts DEF Settings, Has
<1>3. one \in Seq(S) /\ two \in Seq(S)
  <2>1. T \subseteq Nat /\ c \in T /\ c \in Nat /\ "step" \in {"step", "list"} /\ "list" \in {"step", "list"}
    BY <1>1
  <2> HIDE DEF T, c
  <2>2. /\ Poll \in Seq(S) /\ On("abort", c) \in Seq(S) /\ ConfigurePins(cmd.pins, FALSE) \in Seq(S)
        /\ ConfigurePins(cmd.pins, Has(cmd, "exclusive")) \in Seq(S) /\ Level(c, v) \in Seq(S)
        /\ Trigger(c, "list", v) \in Seq(S) /\ Mode(c, "step") \in Seq(S) /\ Mode(c, "list") \in Seq(S)
        /\ Trigger(c, "source", cmd.source) \in Seq(S) /\ On("init", c) \in Seq(S) /\ FireAndWait(cmd) \in Seq(S)
    BY <1>2, <2>1, UsingPieces
  <2> HIDE DEF S, v
  <2>3. \A s, t \in Seq(S) : s \o t \in Seq(S)
    BY JoinLists
  <2> QED
    BY <2>2, <2>3
<1>4. first \in Mild(cmd) /\ << >> \in Mild(cmd)
  <2>1. Read(c) \in Mild(cmd)
    BY <1>1, MildPieces
  <2> QED
    BY <2>1, WhenList, EmptySeq DEF Mild
<1> HIDE DEF one, two, first, v
<1>5. Mended(Plain(first \o Save(c)) \o Try(one) \o FinishTransient(cmd, c), T)
  BY <1>1, <1>3, <1>4, NativeMends
<1>6. Mended(Plain(<< >> \o Save(c)) \o Try(two) \o FinishTransient(cmd, c), T)
  BY <1>1, <1>3, <1>4, NativeMends
<1>7. << >> \o Save(c) = Save(c)
  <2>1. Save(c) \in Seq({Bare("save", c)})
    BY DEF Save, On, Call, Bare, Rec
  <2> HIDE DEF c
  <2> QED
    BY <2>1, ConcatEmptySeq
<1>8. CASE cmd.name = "trigger-step"
  <2>1. BlocksOf(cmd) = NativeStep(cmd)
    BY <1>8 DEF BlocksOf
  <2>2. NativeStep(cmd) = Plain(first \o Save(c)) \o Try(one) \o FinishTransient(cmd, c)
    BY DEF NativeStep, first, one, v
  <2> QED
    BY <1>1, <1>5, <2>1, <2>2
<1>9. CASE cmd.name = "trigger-list"
  <2>1. BlocksOf(cmd) = NativeList(cmd)
    BY <1>9 DEF BlocksOf
  <2>2. NativeList(cmd) = Plain(Save(c)) \o Try(two) \o FinishTransient(cmd, c)
    BY DEF NativeList, two, v
  <2> QED
    BY <1>1, <1>6, <1>7, <2>1, <2>2
<1> QED
  BY <1>8, <1>9

\* Blocks that use the triggers.
LEMMA UsingBlocks ==
  ASSUME NEW cmd, NEW T, NEW D \in Seq([kind : {"try", "collect", "waitfail"}, calls : Seq(BodyCalls(cmd, T))])
  PROVE  \A b \in 1..Len(D) : Body(D[b], T)
<1> DEFINE L == Seq(BodyCalls(cmd, T))
           U == [kind : {"try", "collect", "waitfail"}, calls : L]
<1>1. \A blk \in U : blk = [kind |-> blk.kind, calls |-> blk.calls] /\ blk.calls \in L
                     /\ blk.kind \in {"try", "collect", "waitfail"}
  <2> HIDE DEF L
  <2> QED
    OBVIOUS
<1>2. \A blk \in U : Body(blk, T)
  BY <1>1, UsingBlock
<1> HIDE DEF U
<1>3. \A b \in 1..Len(D) : D[b] \in U
  <2>1. D \in Seq(U)
    BY DEF U
  <2> QED
    BY <2>1, ItsElements
<1> QED
  BY <1>2, <1>3

\* Four lists, one after the other, and the first before the three others.
FourLists(w, x, y, z) == ((w \o x) \o y) \o z
OneAndThree(w, x, y, z) == w \o ((x \o y) \o z)

\* They are the same.
LEMMA FourInTwo ==
  ASSUME NEW U, NEW w \in Seq(U), NEW x \in Seq(U), NEW y \in Seq(U), NEW z \in Seq(U)
  PROVE  FourLists(w, x, y, z) = OneAndThree(w, x, y, z) /\ OneAndThree(w, x, y, z) \in Seq(U)
<1>1. Joined(Joined(Joined(w, x), y), z) = Joined(w, Joined(Joined(x, y), z))
  BY JoinedIn, JoinedTwice
<1>2. Joined(w, Joined(Joined(x, y), z)) \in Seq(U)
  BY JoinedIn
<1> QED
  BY <1>1, <1>2 DEF FourLists, OneAndThree, Joined

\* trigger-pulse puts the triggers of all channels back.
LEMMA AllMend ==
  ASSUME NEW cmd \in Commands, cmd.name = "trigger-pulse"
  PROVE  Mended(BlocksOf(cmd), TriggersOf(cmd))
<1> DEFINE c == cmd.channels[1]
           n == NumChannels
           T == 1..n
           S == BodyCalls(cmd, T)
           body == On("collected", 0) \o ConfigurePins(cmd.pins, Has(cmd, "exclusive")) \o On("hold", c)
                     \o Mode(c, "step") \o Trigger(c, "source", "bus") \o Poll \o On("init", c) \o On("trg", 0)
           x == [kind |-> "plain", calls |-> FlattenSeq([i \in T |-> Save(i)])]
           s == [kind |-> "try", calls |-> Read(c) \o Poll]
           t == [kind |-> "try", calls |-> body]
           ab == [i \in T |-> [kind |-> "collect", calls |-> On("abort", i)]]
           re == [i \in T |-> [kind |-> "effort", calls |-> RestoreChannel(i)]]
           A == FlattenSeq([i \in T |-> <<ab[i]>>])
           F == FlattenSeq([i \in T |-> <<re[i]>>])
           g == [kind |-> "effort", calls |-> RestoreGlobal(1)]
           e == [kind |-> "effort", calls |-> Errors]
           DB == [kind : {"try", "collect", "waitfail"}, calls : Seq(S)]
           RB == {re[i] : i \in T} \cup {g, e}
           U == {x} \cup DB \cup RB
<1>1. n \in Nat \ {0} /\ TriggersOf(cmd) = T /\ c \in T /\ AllChannels(cmd) = [i \in T |-> i]
  <2>1. cmd.model = "independent" /\ cmd.model # "pair"
    BY CommandFacts DEF Admitted, TriggerNames
  <2>2. ChannelsOf(cmd.model) = T
    BY <2>1 DEF ChannelsOf
  <2>3. c \in ToSet(cmd.channels) /\ ToSet(cmd.channels) \subseteq ChannelsOf(cmd.model)
    BY FirstChannel, CommandFacts
  <2> QED
    BY <2>2, <2>3, NumChannelsAssumption DEF TriggersOf, AllChannels
<1>2. s \in DB /\ t \in DB /\ ab \in [T -> DB]
  <2>1. T \subseteq Nat /\ c \in T /\ "step" \in {"step", "list"} /\ Has(cmd, "exclusive") \in BOOLEAN
    BY <1>1 DEF Has
  <2> HIDE DEF T, c
  <2>2. /\ On("collected", 0) \in Seq(S) /\ ConfigurePins(cmd.pins, Has(cmd, "exclusive")) \in Seq(S)
        /\ On("hold", c) \in Seq(S) /\ Mode(c, "step") \in Seq(S) /\ Trigger(c, "source", "bus") \in Seq(S)
        /\ Poll \in Seq(S) /\ On("init", c) \in Seq(S) /\ On("trg", 0) \in Seq(S) /\ Read(c) \in Seq(S)
        /\ \A d \in Nat : On("abort", d) \in Seq(S)
    BY <2>1, UsingPieces
  <2> HIDE DEF S
  <2>3. \A u, v \in Seq(S) : u \o v \in Seq(S)
    BY JoinLists
  <2>4. body \in Seq(S) /\ Read(c) \o Poll \in Seq(S)
    BY <2>2, <2>3
  <2>5. \A i \in T : On("abort", i) \in Seq(S)
    BY <2>1, <2>2
  <2> HIDE DEF body
  <2> QED
    BY <2>4, <2>5
<1>3. Saving(x, T)
  BY <1>1, SavesAll
<1>4. TriggerPulse(cmd) = FourLists(FourLists(<<x>>, <<s>>, A, <<t>>), F, <<g>>, <<e>>)
  <2>1. Each(AllChannels(cmd), Save) = FlattenSeq([i \in T |-> Save(i)])
    BY <1>1 DEF Each
  <2>2. Each(AllChannels(cmd), LAMBDA d : Block("collect", On("abort", d))) = A
    <3>1. [i \in T |-> Block("collect", On("abort", AllChannels(cmd)[i]))] = [i \in T |-> <<ab[i]>>]
      BY <1>1 DEF Block
    <3> QED
      BY <1>1, <3>1 DEF Each
  <2>3. Each(AllChannels(cmd), LAMBDA d : Effort(RestoreChannel(d))) = F
    <3>1. [i \in T |-> Effort(RestoreChannel(AllChannels(cmd)[i]))] = [i \in T |-> <<re[i]>>]
      BY <1>1 DEF Block, Effort
    <3> QED
      BY <1>1, <3>1 DEF Each
  <2>4. TriggerPulse(cmd) =
          Plain(Each(AllChannels(cmd), Save)) \o Try(Read(c) \o Poll)
            \o Each(AllChannels(cmd), LAMBDA d : Block("collect", On("abort", d))) \o Try(body)
            \o Each(AllChannels(cmd), LAMBDA d : Effort(RestoreChannel(d)))
            \o Effort(RestoreGlobal(1)) \o Effort(Errors)
    BY DEF TriggerPulse
  <2>5. /\ \A calls : Plain(calls) = <<[kind |-> "plain", calls |-> calls]>>
        /\ \A calls : Try(calls) = <<[kind |-> "try", calls |-> calls]>>
        /\ \A calls : Effort(calls) = <<[kind |-> "effort", calls |-> calls]>>
    BY DEF Plain, Try, Effort, Block
  <2> HIDE DEF A, F, body, T
  <2> QED
    BY <2>1, <2>2, <2>3, <2>4, <2>5 DEF FourLists
<1> HIDE DEF x, s, t, g, e
<1>5. /\ A \in Seq(DB) /\ F \in Seq(RB) /\ Len(F) = n /\ \A i \in T : F[i] = re[i]
  <2>1. re \in [T -> RB]
    OBVIOUS
  <2> HIDE DEF DB, RB, ab, re
  <2>2. A \in Seq(DB)
    <3>1. n \in Nat /\ ab \in [1..n -> DB]
      BY <1>1, <1>2
    <3> HIDE DEF n
    <3> QED
      BY <3>1, FlatSingles
  <2>3. F \in Seq(RB) /\ Len(F) = n /\ \A i \in T : F[i] = re[i]
    <3>1. n \in Nat /\ re \in [1..n -> RB]
      BY <1>1, <2>1
    <3> HIDE DEF n
    <3> QED
      BY <3>1, FlatSingles
  <2> QED
    BY <2>2, <2>3
<1> HIDE DEF DB
<1>6. DB \subseteq U /\ RB \subseteq U /\ x \in U /\ s \in DB /\ t \in DB /\ g \in RB /\ e \in RB
  BY <1>2
<1>7. \A b \in T : re[b] = [kind |-> "effort", calls |-> RestoreChannel(b)]
  BY <1>1, <1>5
<1> HIDE DEF RB, U, A, F, ab, re
<1> DEFINE D == (<<s>> \o A) \o <<t>>
           R == (F \o <<g>>) \o <<e>>
<1>8. D \in Seq(DB) /\ <<s>> \in Seq(DB) /\ <<t>> \in Seq(DB)
  <2>1. <<s>> \in Seq(DB) /\ <<t>> \in Seq(DB)
    BY <1>6, OneOf
  <2> QED
    BY <1>5, <2>1, JoinLists
<1>9. \A b \in 1..Len(D) : Body(D[b], T)
  <2> HIDE DEF D, T, S
  <2>1. D \in Seq([kind : {"try", "collect", "waitfail"}, calls : Seq(BodyCalls(cmd, T))])
    BY <1>8 DEF DB, S
  <2> QED
    BY <2>1, UsingBlocks
<1>10. /\ R \in Seq(RB) /\ Len(R) = n + 2 /\ R[n + 1] = g /\ R[n + 2] = e /\ \A b \in T : R[b] = F[b]
       /\ <<g>> \in Seq(RB) /\ <<e>> \in Seq(RB)
  <2> DEFINE F1 == F \o <<g>>
  <2>1. /\ F1 \in Seq(RB) /\ Len(F1) = n + 1 /\ F1[n + 1] = g /\ \A b \in 1..n : F1[b] = F[b]
    BY <1>5, <1>6, OneMore
  <2> HIDE DEF F1
  <2>2. /\ F1 \o <<e>> \in Seq(RB) /\ Len(F1 \o <<e>>) = Len(F1) + 1 /\ (F1 \o <<e>>)[Len(F1) + 1] = e
        /\ \A b \in 1..Len(F1) : (F1 \o <<e>>)[b] = F1[b]
    BY <1>6, <2>1, OneMore
  <2>3. R = F1 \o <<e>>
    BY DEF F1
  <2> HIDE DEF R
  <2>4. /\ n + 1 + 1 = n + 2 /\ n + 1 \in 1..n + 1 /\ \A b \in 1..n : b \in 1..n + 1
    BY <1>1
  <2>5. R \in Seq(RB) /\ Len(R) = n + 2 /\ R[n + 2] = e /\ \A b \in 1..n + 1 : R[b] = F1[b]
    BY <2>1, <2>2, <2>3, <2>4
  <2>6. <<g>> \in Seq(RB) /\ <<e>> \in Seq(RB)
    BY <1>6, OneOf
  <2> QED
    BY <2>1, <2>4, <2>5, <2>6
<1>11. PutBack(R, T, 0)
  <2>1. /\ \A b \in 1..n : R[b] = [kind |-> "effort", calls |-> RestoreChannel(b)]
        /\ R[n + 1] = [kind |-> "effort", calls |-> RestoreGlobal(1)]
        /\ R[n + 2] = [kind |-> "effort", calls |-> Errors]
    BY <1>5, <1>7, <1>10 DEF g, e
  <2> HIDE DEF R
  <2> QED
    BY <1>1, <1>10, <2>1, TailOfAll
<1>12. \A W, V : W \subseteq V => Seq(W) \subseteq Seq(V)
  OBVIOUS
<1>13. /\ D \in Seq(U) /\ R \in Seq(U) /\ A \in Seq(U) /\ F \in Seq(U) /\ <<s>> \in Seq(U) /\ <<t>> \in Seq(U)
       /\ <<g>> \in Seq(U) /\ <<e>> \in Seq(U)
  <2> HIDE DEF D, R
  <2> QED
    BY <1>5, <1>6, <1>8, <1>10, <1>12
<1>14. TriggerPulse(cmd) = << >> \o <<x>> \o D \o R
  <2>1. <<x>> \in Seq(U)
    BY <1>6, OneOf
  <2> DEFINE X == <<x>>
             SS == <<s>>
             TT == <<t>>
             G == <<g>>
             E == <<e>>
  <2>2. X \in Seq(U) /\ SS \in Seq(U) /\ TT \in Seq(U) /\ G \in Seq(U) /\ E \in Seq(U) /\ A \in Seq(U) /\ F \in Seq(U)
    BY <1>13, <2>1
  <2> HIDE DEF X, SS, TT, G, E
  <2>3. /\ FourLists(X, SS, A, TT) = OneAndThree(X, SS, A, TT) /\ OneAndThree(X, SS, A, TT) \in Seq(U)
    BY <2>2, FourInTwo
  <2> DEFINE Y == OneAndThree(X, SS, A, TT)
  <2>4. Y \in Seq(U)
    BY <2>3
  <2> HIDE DEF Y
  <2>5. FourLists(Y, F, G, E) = OneAndThree(Y, F, G, E)
    BY <2>2, <2>4, FourInTwo
  <2>6. << >> \o X = X
    BY <2>2, ConcatEmptySeq
  <2>7. TriggerPulse(cmd) = OneAndThree(Y, F, G, E)
    BY <1>4, <2>3, <2>5 DEF X, SS, TT, G, E, Y
  <2> QED
    BY <2>6, <2>7 DEF OneAndThree, X, SS, TT, G, E, Y
<1> HIDE DEF D, R
<1>15. Mended(<< >> \o <<x>> \o D \o R, T)
  <2> DEFINE P == << >>
  <2>1. P \in Seq(U) /\ (\A b \in 1..Len(P) : LeavesAlone(P[b])) /\ 0 \notin T
    BY <1>1, EmptySeq
  <2> HIDE DEF P, T
  <2>2. \E sb, fb : MendingBlocks(P \o <<x>> \o D \o R, T, sb, fb)
    BY <1>3, <1>6, <1>9, <1>11, <1>13, <2>1, Assembled
  <2> QED
    BY <2>2 DEF P, Mended
<1>16. BlocksOf(cmd) = TriggerPulse(cmd)
  BY DEF BlocksOf
<1> QED
  BY <1>1, <1>14, <1>15, <1>16

\* Mild blocks touch nothing.
LEMMA MildIsFront ==
  ASSUME NEW cmd, NEW P \in Seq(MildBlocks(cmd))
  PROVE  \A b \in 1..Len(P) : LeavesAlone(P[b])
<1> DEFINE S == {k \in OwnCalls(cmd) : k.op \notin Touching}
           U == [kind : Kinds, calls : Seq(S)]
<1>1. \A k \in S : k.op \notin Touching
  OBVIOUS
<1>2. P \in Seq(U)
  BY DEF MildBlocks, Mild
<1> HIDE DEF S
<1>3. \A blk \in U : blk.calls \in Seq(S)
  OBVIOUS
<1>4. \A s \in Seq(S) : \A i \in 1..Len(s) : s[i] \in S
  BY ItsElements
<1> HIDE DEF U
<1>5. \A b \in 1..Len(P) : P[b] \in U
  BY <1>2, ItsElements
<1> QED
  BY <1>1, <1>3, <1>4, <1>5 DEF LeavesAlone

\* An output command with a completion pulse puts the trigger of its channel back.
LEMMA PulsesMend ==
  ASSUME NEW cmd \in Commands, cmd.pulse # 0, ~Has(cmd, "leave")
  PROVE  Mended(BlocksOf(cmd), TriggersOf(cmd))
<1> DEFINE c == cmd.pulse
           T == {c}
           x == [kind |-> "plain", calls |-> Read(c) \o Save(c)]
           d == [kind |-> "try", calls |-> PulseList(cmd)]
           r == [kind |-> "effort", calls |-> RestoreChannel(c) \o RestoreGlobal(c)]
           e == [kind |-> "effort", calls |-> Errors]
           z == [kind |-> "plain", calls |-> Errors]
           U == MildBlocks(cmd) \cup {x, d, r, e, z}
           D == <<d>>
           R == (<<r>> \o <<e>>) \o <<z>>
<1>1. c \in Nat \ {0} /\ TriggersOf(cmd) = T
  <2>1. Admitted(cmd) /\ c \in Nat
    BY CommandFacts
  <2>2. cmd.name \in PulseNames
    BY <2>1 DEF Admitted
  <2>3. cmd.name \notin Configures /\ cmd.name # "trigger-pulse"
    BY <2>2 DEF PulseNames, Configures
  <2>4. TriggersOf(cmd) = {c} \ {0}
    BY <2>3 DEF TriggersOf
  <2> QED
    BY <2>1, <2>4
<1>2. PICK P \in Seq(MildBlocks(cmd)) : BlocksOf(cmd) = P \o Finish(cmd)
  <2>1. cmd.name \in PulseNames
    BY CommandFacts DEF Admitted
  <2>2. BeforeFinish(cmd, BlocksOf(cmd))
    BY <2>1, OutputFronts DEF PulseNames, BlocksOf
  <2> QED
    BY <2>2 DEF BeforeFinish
<1>3. \A b \in 1..Len(P) : LeavesAlone(P[b])
  BY MildIsFront
<1>4. Finish(cmd) = FourLists(<<x>>, <<d>>, <<r>>, <<e>>) \o <<z>>
  <2>1. CompletionPulse(cmd) = Plain(Read(c) \o Save(c)) \o Try(PulseList(cmd))
                                \o Effort(RestoreChannel(c) \o RestoreGlobal(c)) \o Effort(Errors)
    BY DEF CompletionPulse, PulseList, When
  <2>2. /\ \A calls : Plain(calls) = <<[kind |-> "plain", calls |-> calls]>>
        /\ \A calls : Try(calls) = <<[kind |-> "try", calls |-> calls]>>
        /\ \A calls : Effort(calls) = <<[kind |-> "effort", calls |-> calls]>>
    BY DEF Plain, Try, Effort, Block
  <2> HIDE DEF c
  <2> QED
    BY <2>1, <2>2 DEF Finish, FourLists
<1>5. Saving(x, T)
  <2>1. Read(c) \in Mild(cmd)
    BY <1>1, MildPieces
  <2> HIDE DEF c
  <2> QED
    BY <2>1, SavesOne
<1>6. Body(d, T)
  <2> DEFINE S == BodyCalls(cmd, T)
  <2>1. T \subseteq Nat /\ c \in T /\ c \in Nat /\ "step" \in {"step", "list"} /\ FALSE \in BOOLEAN
    BY <1>1
  <2> HIDE DEF T
  <2>2. /\ On("abort", c) \in Seq(S) /\ ConfigurePins(cmd.pins, FALSE) \in Seq(S) /\ On("hold", c) \in Seq(S)
        /\ Mode(c, "step") \in Seq(S) /\ Trigger(c, "source", "bus") \in Seq(S)
        /\ On("init", c) \in Seq(S) /\ On("trg", 0) \in Seq(S)
    BY <2>1, UsingPieces
  <2> HIDE DEF S
  <2>3. \A u, v \in Seq(S) : u \o v \in Seq(S)
    BY JoinLists
  <2>4. PulseList(cmd) \in Seq(S)
    BY <2>2, <2>3 DEF PulseList
  <2> QED
    BY <2>4, UsingBlock DEF S
<1>7. ReadsErrors(e) /\ ReadsErrors(z)
  BY ErrorsRead
<1>8. r = [kind |-> "effort", calls |-> RestoreChannel(c) \o RestoreGlobal(c)] /\ "effort" \in Always
  BY DEF Always
<1>9. x \in U /\ d \in U /\ r \in U /\ e \in U /\ z \in U /\ MildBlocks(cmd) \subseteq U
  OBVIOUS
<1> HIDE DEF x, d, r, e, z, U
<1>10. P \in Seq(U) /\ <<x>> \in Seq(U) /\ <<d>> \in Seq(U) /\ <<r>> \in Seq(U) /\ <<e>> \in Seq(U) /\ <<z>> \in Seq(U)
  <2>1. \A W, V : W \subseteq V => Seq(W) \subseteq Seq(V)
    OBVIOUS
  <2>2. P \in Seq(U)
    BY <1>9, <2>1
  <2> QED
    BY <1>9, <2>2, OneOf
<1>11. D \in Seq(U) /\ \A b \in 1..Len(D) : Body(D[b], T)
  <2>1. Len(<<d>>) = 1 /\ <<d>>[1] = d
    BY <1>9, OneOf
  <2>2. \A b \in 1..1 : b = 1
    OBVIOUS
  <2> QED
    BY <1>6, <1>10, <2>1, <2>2
<1>12. R \in Seq(U) /\ PutBack(R, T, 0)
  <2>1. Len(<<r>>) = 1 /\ <<r>>[1] = r
    BY <1>9, OneOf
  <2> DEFINE re == <<r>> \o <<e>>
             rr == <<r>>
  <2>2. rr \in Seq(U)
    BY <1>10
  <2> HIDE DEF rr
  <2>3. rr \o <<e>> \in Seq(U) /\ Len(rr \o <<e>>) = Len(rr) + 1 /\ (rr \o <<e>>)[Len(rr) + 1] = e
        /\ \A i \in 1..Len(rr) : (rr \o <<e>>)[i] = rr[i]
    BY <1>9, <2>2, OneMore
  <2>4. re \in Seq(U) /\ Len(re) = 2 /\ re[1] = r /\ re[2] = e
    BY <2>1, <2>3 DEF rr
  <2> HIDE DEF re
  <2>5. re \o <<z>> \in Seq(U) /\ Len(re \o <<z>>) = Len(re) + 1 /\ (re \o <<z>>)[Len(re) + 1] = z
        /\ \A i \in 1..Len(re) : (re \o <<z>>)[i] = re[i]
    <3>1. re \in Seq(U) /\ z \in U
      BY <1>9, <2>4
    <3> QED
      BY <3>1, OneMore
  <2>6. R = re \o <<z>>
    BY DEF re
  <2> HIDE DEF R
  <2>7. R \in Seq(U) /\ Len(R) = 3 /\ R[1] = r /\ R[2] = e /\ R[3] = z
    BY <2>4, <2>5, <2>6
  <2>8. \A b \in 2..Len(R) : ReadsErrors(R[b])
    <3>1. \A b \in 2..3 : b = 2 \/ b = 3
      OBVIOUS
    <3> QED
      BY <1>7, <2>7, <3>1
  <2>9. /\ "effort" \in Always /\ R \in Seq(U) /\ Len(R) # 0
        /\ R[1] = [kind |-> "effort", calls |-> RestoreChannel(c) \o RestoreGlobal(c)]
    BY <1>8, <2>7
  <2>10. PutBack(R, {c}, 0)
    BY <2>8, <2>9, TailOfOne
  <2> QED
    BY <2>7, <2>10
<1>13. BlocksOf(cmd) = P \o <<x>> \o D \o R
  <2> DEFINE X == <<x>>
             RR == <<r>>
             E == <<e>>
             Z == <<z>>
  <2>1. P \in Seq(U) /\ X \in Seq(U) /\ D \in Seq(U) /\ RR \in Seq(U) /\ E \in Seq(U) /\ Z \in Seq(U)
    BY <1>10
  <2>2. BlocksOf(cmd) = P \o (FourLists(X, D, RR, E) \o Z)
    BY <1>2, <1>4
  <2>3. R = (RR \o E) \o Z /\ R \in Seq(U)
    BY <1>12
  <2> HIDE DEF X, D, RR, E, Z, R
  <2> DEFINE W == X \o D
  <2>4. W \in Seq(U)
    BY <2>1, JoinLists
  <2>5. FourLists(X, D, RR, E) \o Z = FourLists(W, RR, E, Z)
    BY DEF FourLists
  <2> HIDE DEF W
  <2>6. FourLists(W, RR, E, Z) = OneAndThree(W, RR, E, Z)
    BY <2>1, <2>4, FourInTwo
  <2>7. OneAndThree(W, RR, E, Z) = W \o R
    BY <2>3 DEF OneAndThree
  <2>8. FourLists(P, X, D, R) = OneAndThree(P, X, D, R)
    <3>1. P \in Seq(U) /\ X \in Seq(U) /\ D \in Seq(U) /\ R \in Seq(U)
      BY <2>1, <2>3
    <3> QED
      BY <3>1, FourInTwo
  <2>9. BlocksOf(cmd) = FourLists(P, X, D, R)
    <3>1. BlocksOf(cmd) = P \o (W \o R)
      BY <2>2, <2>5, <2>6, <2>7
    <3> QED
      BY <2>8, <3>1 DEF OneAndThree, W
  <2> QED
    BY <2>9 DEF FourLists, X
<1> HIDE DEF D, R
<1>14. \E sb, fb : MendingBlocks(P \o <<x>> \o D \o R, T, sb, fb)
  <2>1. 0 \notin T
    BY <1>1
  <2> HIDE DEF T
  <2> QED
    BY <1>3, <1>5, <1>9, <1>10, <1>11, <1>12, <2>1, Assembled
<1> QED
  BY <1>1, <1>13, <1>14 DEF Mended

\* Every command that uses a trigger and does not leave it.
LEMMA MendingScript ==
  ASSUME NEW cmd \in Commands, TriggersOf(cmd) # {}, ~Has(cmd, "leave")
  PROVE  \E a, f : Mends(ScriptOf[cmd], TriggersOf(cmd), a, f)
<1> DEFINE T == TriggersOf(cmd)
<1>1. Mended(BlocksOf(cmd), T)
  <2>1. CASE cmd.name \in Configures
    BY <2>1, NativesMend, AllMend DEF Configures
  <2>2. CASE cmd.name \notin Configures
    <3>1. T = {cmd.pulse} \ {0}
      BY <2>2 DEF TriggersOf, Configures
    <3>2. cmd.pulse # 0
      BY <3>1
    <3> QED
      BY <3>2, PulsesMend
  <2> QED
    BY <2>1, <2>2
<1> HIDE DEF T
<1>2. PICK sb, fb : MendingBlocks(BlocksOf(cmd), T, sb, fb)
  BY <1>1 DEF Mended
<1>3. Mends(ScriptOf[cmd], T, Ends(BlocksOf(cmd))[sb], Ends(BlocksOf(cmd))[fb])
  BY <1>2, MendingPlaces
<1> QED
  BY <1>3 DEF T

\* The channels of a command that uses triggers are channels of its supply.
LEMMA ItsTriggers ==
  ASSUME NEW cmd \in Commands
  PROVE  TriggersOf(cmd) \subseteq ChannelsOf(cmd.model)
<1>1. ToSet(cmd.channels) \subseteq ChannelsOf(cmd.model) /\ Admitted(cmd)
  BY CommandFacts
<1>2. {cmd.pulse} \ {0} \subseteq ChannelsOf(cmd.model)
  BY <1>1 DEF Admitted
<1> QED
  BY <1>1, <1>2 DEF TriggersOf

\* So they are for the command that runs.
LEMMA TheTriggers ==
  ASSUME Sound
  PROVE  TriggerChannels = TriggersOf(command) /\ TriggerChannels \subseteq DOMAIN inst.on
<1>1. command \in Commands /\ DOMAIN inst.on = ChannelsOf(command.model)
  BY TheCommand DEF Sound, Shape
<1>2. TriggerChannels = TriggersOf(command)
  BY <1>1 DEF TriggerChannels, TriggersOf, Own
<1> QED
  BY <1>1, <1>2, ItsTriggers

\* A command starts with nothing touched.
LEMMA StartsMending == Init => Mending
<1> SUFFICES ASSUME Init, Configured PROVE Mending
  BY DEF Mending
<1>1. Sound
  BY InitSound
<1>2. TriggerChannels # {} /\ ~Has(command, "leave") /\ saved = Nothing /\ before = inst /\ rest = << >>
      /\ DOMAIN Nothing = {}
  BY DEF Init, Configured, Nothing
<1>3. command \in Commands /\ TriggerChannels = TriggersOf(command)
  BY <1>1, TheCommand, TheTriggers DEF Sound
<1>4. PICK a, f : Mends(script, TriggerChannels, a, f)
  BY <1>2, <1>3, MendingScript DEF script
<1> HIDE DEF TriggerChannels
<1>5. Early(a) /\ SavedRight
  BY <1>2 DEF Early, SavedRight
<1> QED
  BY <1>4, <1>5 DEF Mending

\* So does the next one.
LEMMA NextMending ==
  ASSUME Sound, Sound', NextCommand
  PROVE  Mending'
<1> SUFFICES ASSUME Configured' PROVE Mending'
  BY DEF Mending
<1>1. /\ TriggerChannels' # {} /\ ~Has(command', "leave") /\ saved' = Nothing /\ before' = inst /\ inst' = inst /\ rest' = << >>
      /\ DOMAIN Nothing = {}
  BY DEF NextCommand, Configured, Nothing
<1>2. command' \in Commands /\ TriggerChannels' = TriggersOf(command')
  <2>1. program' \in Programs /\ index' \in 1..Len(program') /\ Shape(inst') /\ inst'.model = command'.model
    BY DEF Sound
  <2>2. command' \in Commands
    <3>1. program' = program /\ index \in 1..Len(program) /\ program \in Programs
      BY DEF NextCommand, Sound
    <3>2. \A i \in 1..Len(program) : program[i] \in Commands
      BY <3>1, TheCommand
    <3> QED
      BY <2>1, <3>1, <3>2 DEF command
  <2>3. DOMAIN inst'.on = ChannelsOf(command'.model)
    BY <2>1 DEF Shape
  <2> QED
    BY <2>2, <2>3 DEF TriggerChannels, TriggersOf, Own
<1>3. PICK a, f : Mends(script', TriggerChannels', a, f)
  <2>1. script' = ScriptOf[command']
    BY DEF script
  <2> QED
    BY <1>1, <1>2, <2>1, MendingScript
<1> HIDE DEF TriggerChannels
<1>4. Early(a)' /\ SavedRight'
  BY <1>1 DEF Early, SavedRight
<1>5. Mends(script, TriggerChannels, a, f)'
  BY <1>3
<1> QED
  BY <1>4, <1>5 DEF Mending

\* Every step keeps it.
LEMMA StepMending == Sound /\ Fields(inst) /\ Mending /\ [Next]_vars => Mending'
<1> SUFFICES ASSUME Sound, Fields(inst), Mending, [Next]_vars PROVE Mending'
  OBVIOUS
<1>1. CASE index' # index
  <2>1. NextCommand
    BY <1>1 DEF Next, Open, Identified, NotOpened, Perform, Refuse, Completed, WaitFails, Raise, Reject,
                Astray, Return, RequestStop, Trip, Settle, Proceed, Throw, control, vars
  <2> QED
    BY <2>1, StepSound, NextMending
<1>2. CASE index' = index
  <2>1. script' = script /\ command' = command /\ TriggerChannels' = TriggerChannels /\ before' = before
    BY <1>2, SameCommand, SameChannels
  <2>2. CASE ~Configured
    BY <2>1, <2>2 DEF Configured, Mending
  <2>3. CASE Configured
    <3>1. SavedRight /\ \E a, f : Mends(script, TriggerChannels, a, f) /\ (Early(a) \/ Late(a, f))
      BY <2>3 DEF Mending
    <3>2. PICK a, f : Mends(script, TriggerChannels, a, f) /\ (Early(a) \/ Late(a, f))
      BY <3>1
    <3>3. TriggerChannels \subseteq DOMAIN inst.on
      BY TheTriggers
    <3>4. Mends(script, TriggerChannels, a, f)'
      BY <2>1, <3>2
    <3>5. CASE Early(a)
      <4>1. SavedRight' /\ (Early(a)' \/ Late(a, f)')
        BY <1>2, <3>1, <3>2, <3>3, <3>5, EarlyStays
      <4> QED
        BY <3>4, <4>1 DEF Mending
    <3>6. CASE Late(a, f)
      <4>1. Late(a, f)' /\ saved' = saved
        BY <1>2, <3>1, <3>2, <3>3, <3>6, LateStays
      <4>2. SavedRight'
        BY <2>1, <3>1, <4>1 DEF SavedRight
      <4> QED
        BY <3>4, <4>1, <4>2 DEF Mending
    <3> QED
      BY <3>2, <3>5, <3>6
  <2> QED
    BY <2>2, <2>3
<1> QED
  BY <1>1, <1>2

\* At the end nothing is ahead.
LEMMA NothingAhead ==
  ASSUME Sound, phase = "ended", NEW f, NEW op, NEW c, NEW key, Owing(f, op, c, key)
  PROVE  Spoiled(op, c)
<1>1. rest = << >> /\ at = Len(script) /\ Len(script) \in Nat
  BY Whereabouts DEF Sound
<1> HIDE DEF at
<1>2. at + 1..Len(script) = {}
  BY <1>1
<1> QED
  BY <1>2 DEF Owing, Ahead

\* So the triggers are put back.
LEMMA MendingRestores ==
  ASSUME Sound, Fields(inst), Fields(before), Mending
  PROVE  TriggerRestored
<1> SUFFICES ASSUME phase = "ended", TriggerChannels # {}, ~Has(command, "leave")
             PROVE  /\ \A c \in DOMAIN inst.on :
                         (\E h \in hits : InCleanup(h) /\ h.ch = c) \/ inst.trig[c] = before.trig[c]
                    /\ \A c \in TriggerChannels :
                         \/ inst.init[c] = "idle"
                         \/ inst.init[c] = before.init[c] /\ ~(TriggerChannels \subseteq DOMAIN saved)
                         \/ \E h \in hits : InCleanup(h) /\ h.op = "abort" /\ h.ch = c
                    /\ \/ \E h \in hits : InCleanup(h)
                       \/ inst.pins = before.pins /\ inst.bus = before.bus
  BY DEF TriggerRestored
<1>1. PICK a, f : Early(a) \/ Late(a, f)
  BY DEF Mending, Configured
<1>2. TriggerChannels \subseteq DOMAIN inst.on /\ DOMAIN before.on = DOMAIN inst.on
  BY TheTriggers DEF Sound, Shape
<1> HIDE DEF TriggerChannels
<1>3. CASE Early(a)
  BY <1>2, <1>3 DEF Early
<1>4. CASE Late(a, f)
  <2>1. \A op, c, key : Owing(f, op, c, key) => Spoiled(op, c)
    BY NothingAhead
  <2>2. ASSUME NEW c \in DOMAIN inst.on
        PROVE  (\E h \in hits : InCleanup(h) /\ h.ch = c) \/ inst.trig[c] = before.trig[c]
    <3>1. \A key \in TriggerKeys : inst.trig[c][key] = before.trig[c][key] \/ Spoiled("restore", c)
      BY <1>4, <2>1 DEF Late
    <3>2. CASE Spoiled("restore", c)
      BY <3>2 DEF Spoiled
    <3>3. CASE ~Spoiled("restore", c)
      <4>1. \A key \in TriggerKeys : inst.trig[c][key] = before.trig[c][key]
        BY <3>1, <3>3
      <4>2. inst.trig[c] = [k \in TriggerKeys |-> inst.trig[c][k]] /\ before.trig[c] = [k \in TriggerKeys |-> before.trig[c][k]]
        BY <1>2 DEF Fields
      <4>3. [k \in TriggerKeys |-> inst.trig[c][k]] = [k \in TriggerKeys |-> before.trig[c][k]]
        BY <4>1
      <4> QED
        BY <4>2, <4>3
    <3> QED
      BY <3>2, <3>3
  <2>3. ASSUME NEW c \in TriggerChannels
        PROVE  inst.init[c] = "idle" \/ \E h \in hits : InCleanup(h) /\ h.op = "abort" /\ h.ch = c
    <3>1. inst.init[c] = "idle" \/ Spoiled("abort", c)
      BY <1>4, <2>1 DEF Late
    <3> QED
      BY <3>1 DEF Spoiled
  <2>4. (\E h \in hits : InCleanup(h)) \/ (inst.pins = before.pins /\ inst.bus = before.bus)
    <3>1. (inst.pins = before.pins \/ \E c : Spoiled("restorepins", c)) /\ (inst.bus = before.bus \/ \E c : Spoiled("restorebus", c))
      BY <1>4, <2>1 DEF Late
    <3> QED
      BY <3>1 DEF Spoiled
  <2> QED
    BY <2>2, <2>3, <2>4
<1> QED
  BY <1>1, <1>3, <1>4

\* However a command ends that uses triggers and is not to leave them
\* configured, it has put them, the pins and the transients back, unless the
\* calls that put them back were themselves hit: for every program, number of
\* channels and disturbance (Commands!TriggerRestored).
THEOREM TriggersPutBack == Spec => []TriggerRestored
<1> DEFINE Inv == Sound /\ Fields(inst) /\ Fields(before) /\ Mending
<1>1. Init => Inv
  <2> SUFFICES ASSUME Init PROVE Inv
    OBVIOUS
  <2>1. Fields(inst) /\ before = inst
    BY InitFields DEF Init
  <2> QED
    BY <2>1, InitSound, StartsMending
<1>2. Inv /\ [Next]_vars => Inv'
  <2> SUFFICES ASSUME Inv, [Next]_vars PROVE Inv'
    OBVIOUS
  <2>1. Sound' /\ Fields(inst') /\ Mending'
    BY StepSound, StepKeepsFields, StepMending
  <2>2. before' = before \/ before' = inst
    <3>1. CASE index' = index
      BY <3>1, SameCommand
    <3>2. CASE index' # index
      BY <3>2 DEF Next, Open, Identified, NotOpened, NextCommand, Perform, Refuse, Completed, WaitFails, Raise, Reject,
                  Astray, Return, RequestStop, Trip, Settle, Proceed, Throw, control, vars
    <3> QED
      BY <3>1, <3>2
  <2> QED
    BY <2>1, <2>2
<1>3. Inv => TriggerRestored
  BY MendingRestores
<1> HIDE DEF Inv
<1> QED
  BY <1>1, <1>2, <1>3, PTL DEF Spec
=============================================================================
