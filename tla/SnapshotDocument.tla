-------------------------- MODULE SnapshotDocument --------------------------
(***************************************************************************)
(* The snapshot document a restore is given: what makes one valid, which   *)
(* of its channels a request restores, and what it writes.                 *)
(*                                                                         *)
(* A document is a record: wellFormed (version, kind and fields), the      *)
(* reported maker, name and serial, the resolved model, and four sections  *)
(* outputs, readback, protection and ranges, each a sequence of records    *)
(* with a channel and valid (its other fields are well-formed).  A section *)
(* that is absent is empty.                                                *)
(***************************************************************************)
EXTENDS Identity, Limits, Capabilities, FiniteSetsExt

Restorable == {E36312A, PSM2010}

ChannelsIn(section) == {r.channel : r \in ToSet(section)}

\* One record for a channel, of the model's channels.
SectionValid(section, supported) ==
  /\ \A r \in ToSet(section) : r.valid /\ r.channel \in supported
  /\ Cardinality(ChannelsIn(section)) = Len(section)

RecordOf(section, channel) == section[CHOOSE i \in DOMAIN section : section[i].channel = channel]

\* The ranges of the supply that hold a pair of setpoints.
CompatibleRange(range, record) ==
  \E r \in Ratings[PSM2010][record.channel].ranges :
    r.name = range /\ record.voltage <= r.voltage /\ record.current <= r.current

\* The identity of the document is the one its reported names resolve to, and
\* every section covers the same channels; only a PSM-2010 has ranges, each of
\* which holds the setpoints of its channel.
SnapshotValid(registry, d) ==
  LET supported == ModelChannels[d.resolved]
      sections == {d.outputs, d.readback, d.protection}
                    \cup IF d.resolved = PSM2010 THEN {d.ranges} ELSE {}
  IN /\ d.wellFormed
     /\ d.resolved = Resolved(registry, d.maker, d.name)
     /\ d.resolved \in Restorable
     /\ \A s \in sections : SectionValid(s, supported) /\ s # <<>>
     /\ \A s, t \in sections : ChannelsIn(s) = ChannelsIn(t)
     /\ IF d.resolved = PSM2010
        THEN \A r \in ToSet(d.ranges) : CompatibleRange(r.range, RecordOf(d.readback, r.channel))
        ELSE d.ranges = <<>>

\* The channels a request restores, in order: all that the document has, or
\* the one it names (a tagged value), which the document must have.
RestoreChannels(d, selected) ==
  Ascending(IF selected[1] = "str" THEN ChannelsIn(d.readback)
            ELSE ChannelsIn(d.readback) \cap {selected[2]})

\* The rated limits hold for every pair the plan writes; the configured ones
\* are not consulted.
RestoreSetpointsFit(d, channels) ==
  \A c \in ToSet(channels) :
    LET r == RecordOf(d.readback, c) IN
    ValidateEffectiveSetpoint(d.resolved, NoLimits, c, r.voltage, r.current)

\* Without hardware the document names the planning model.
PlannedWith(runtime, d) == [runtime EXCEPT !.planning = d.resolved]

RestorePrepared(runtime, d) ==
  /\ runtime.profile = NoModel
  /\ runtime.mode # "live" =>
       /\ runtime.planning \in {NoModel, d.resolved}
       /\ NoHardwareResolves(PlannedWith(runtime, d))

PreparedRuntime(runtime, d) ==
  IF runtime.mode = "live" THEN runtime ELSE ResolveNoHardware(PlannedWith(runtime, d))

\* A restore writes only to the instrument the document was taken from.
SameInstrument(d, detected, serial) == detected = d.resolved /\ serial = d.serial
=============================================================================
