------------------------------- MODULE Limits -------------------------------
(***************************************************************************)
(* The limits a setpoint is held against: the safety configuration (global *)
(* limits, overridden by the model's, by the resource's and by the         *)
(* channel's), the official electrical ratings, and the checks that        *)
(* combine them.  A limit layer is a function from the fields it states to *)
(* their values; voltages and currents are integers.                       *)
(***************************************************************************)
EXTENDS Integers, Sequences, SequencesExt, TLC

CONSTANTS
  Upper,      \* a model name as written -> in capitals
  Ratings,    \* rated model -> channel -> [voltage, current, ranges of [name, voltage, current]]
  NoValue     \* an omitted setpoint, resource, alias or model

LimitFields ==
  {"max_voltage", "max_current", "confirm_above_voltage", "confirm_above_current",
   "allowed_channels"}

-----------------------------------------------------------------------------
(* The configuration document: "safety" is a layer, "models" a sequence of  *)
(* [name, limits], "resources" one of [alias, resource, limits, channels].  *)

\* A layer parses when its fields are known and their values in range.
LayerParses(layer) ==
  /\ DOMAIN layer \subseteq LimitFields
  /\ \A f \in DOMAIN layer :
       IF f = "allowed_channels" THEN \A c \in layer[f] : c >= 1 ELSE layer[f] >= 0

NoLimits == [f \in {} |-> 0]

\* Tables are a sequence, the global limits one layer.
Tables(doc, name) == IF name \in DOMAIN doc THEN doc[name] ELSE <<>>

GlobalLimits(doc) == IF "safety" \in DOMAIN doc THEN doc["safety"] ELSE NoLimits

GlobalParses(doc) ==
  "safety" \in DOMAIN doc => DOMAIN doc["safety"] # {} /\ LayerParses(doc["safety"])

ModelsParse(doc) ==
  \A m \in ToSet(Tables(doc, "models")) : DOMAIN m.limits # {} /\ LayerParses(m.limits)

\* No alias and no resource is named twice.
ResourcesParse(doc) ==
  LET entries == Tables(doc, "resources") IN
  /\ \A e \in ToSet(entries) :
       /\ LayerParses(e.limits)
       /\ \A c \in DOMAIN e.channels : c >= 1 /\ LayerParses(e.channels[c])
  /\ \A i, j \in DOMAIN entries :
       i # j => entries[i].alias # entries[j].alias /\ entries[i].resource # entries[j].resource

DocumentParses(doc) ==
  /\ DOMAIN doc \subseteq {"safety", "models", "resources"}
  /\ GlobalParses(doc) /\ ModelsParse(doc) /\ ResourcesParse(doc)
  /\ "safety" \in DOMAIN doc \/ Tables(doc, "models") # <<>> \/ Tables(doc, "resources") # <<>>

-----------------------------------------------------------------------------
(* Resolution *)

\* A seeded error: the wider layer wins.
WiderWins(base, override) == base @@ override

\* What the narrower layer states replaces what the wider one says.
MergeLimits(base, override) ==
  [f \in DOMAIN base \cup DOMAIN override |->
     IF f \in DOMAIN override THEN override[f] ELSE base[f]]

\* Two spellings of one model: the later table of the file replaces the other.
ModelLimits(doc, model) ==
  LET models == Tables(doc, "models")
      spelled == {k \in DOMAIN models : model # NoValue /\ Upper[models[k].name] = Upper[model]}
  IN IF spelled = {} THEN NoLimits ELSE models[Max(spelled)].limits

\* At most one, in a document that parses.
EntriesFor(doc, resource, alias) ==
  {e \in ToSet(Tables(doc, "resources")) :
     IF alias # NoValue THEN e.alias = alias ELSE e.resource = resource}

EntryFor(doc, resource, alias) == CHOOSE e \in EntriesFor(doc, resource, alias) : TRUE

ChannelLimits(entry, channel) ==
  IF channel \in DOMAIN entry.channels THEN entry.channels[channel] ELSE NoLimits

EffectiveLimits(doc, resource, alias, model, channel) ==
  LET base  == MergeLimits(GlobalLimits(doc), ModelLimits(doc, model))
      entry == EntryFor(doc, resource, alias)
  IN IF EntriesFor(doc, resource, alias) = {} THEN base
     ELSE MergeLimits(MergeLimits(base, entry.limits), ChannelLimits(entry, channel))

Refused == [ok |-> FALSE, resource |-> NoValue, limits |-> NoLimits]

\* Either a resource or an alias; an alias must be one of the file's.
ResolveSafetyConfig(doc, resource, alias, model, channel) ==
  IF \/ resource # NoValue /\ alias # NoValue
     \/ ~DocumentParses(doc)
     \/ alias # NoValue /\ EntriesFor(doc, resource, alias) = {}
  THEN Refused
  ELSE [ok |-> TRUE,
        resource |-> IF alias # NoValue THEN EntryFor(doc, resource, alias).resource ELSE resource,
        limits |-> EffectiveLimits(doc, resource, alias, model, channel)]

\* A request without a configuration (the document is empty) has no limits,
\* and then it cannot name an alias.
RequestSafetyLimits(doc, configured, resource, alias, model, channel) ==
  IF ~configured
  THEN [ok |-> alias = NoValue, resource |-> resource, limits |-> NoLimits]
  ELSE ResolveSafetyConfig(doc, IF alias # NoValue THEN NoValue ELSE resource, alias,
                           model, channel)

-----------------------------------------------------------------------------
(* The checks of one setpoint; NoValue is a setpoint that is not written. *)

Within(value, limits, field) == field \in DOMAIN limits => value <= limits[field]

ValidateChannel(limits, channel) ==
  "allowed_channels" \in DOMAIN limits => channel \in limits["allowed_channels"]

ValidateSetpoint(limits, channel, voltage, current) ==
  /\ ValidateChannel(limits, channel)
  /\ voltage # NoValue => voltage >= 0 /\ Within(voltage, limits, "max_voltage")
  /\ current # NoValue => current >= 0 /\ Within(current, limits, "max_current")

\* The official rating of a channel as a limit layer; empty for the models
\* and channels without one.
RatingLayer(model, channel) ==
  IF model \in DOMAIN Ratings /\ channel \in DOMAIN Ratings[model]
  THEN [max_voltage |-> Ratings[model][channel].voltage,
        max_current |-> Ratings[model][channel].current]
  ELSE NoLimits

\* The lower of the official and the configured maximum, where there is one.
EffectiveMax(rating, limits, field) ==
  IF field \in DOMAIN rating /\ (field \in DOMAIN limits => rating[field] <= limits[field])
  THEN rating ELSE limits

FitsRange(model, channel, voltage, current) ==
  LET ranges == Ratings[model][channel].ranges IN
  ranges = {} \/ \E r \in ranges : voltage <= r.voltage /\ current <= r.current

\* The operating ranges are consulted only when both setpoints are given.
ValidateEffectiveSetpoint(model, limits, channel, voltage, current) ==
  LET rating == RatingLayer(model, channel) IN
  /\ ValidateChannel(limits, channel)
  /\ voltage # NoValue =>
       Within(voltage, EffectiveMax(rating, limits, "max_voltage"), "max_voltage")
  /\ current # NoValue =>
       Within(current, EffectiveMax(rating, limits, "max_current"), "max_current")
  /\ voltage # NoValue /\ current # NoValue /\ rating # NoLimits =>
       FitsRange(model, channel, voltage, current)

\* Confirmation is asked for only when both setpoints are above zero.
NeedsConfirmation(limits, voltage, current) ==
  /\ voltage > 0 /\ current > 0
  /\ ~Within(voltage, limits, "confirm_above_voltage")
     \/ ~Within(current, limits, "confirm_above_current")
=============================================================================
