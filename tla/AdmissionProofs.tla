--------------------------- MODULE AdmissionProofs ---------------------------
(***************************************************************************)
(* Theorems about the way of a request to an instrument, for any registry, *)
(* configurations, documents, requests and instruments: which instrument a *)
(* session is with, and that no setpoint reaches it above its ratings or   *)
(* the limits of the configuration.  The lemmas between say what the       *)
(* scripts of the commands check and write, what a passed check means, and *)
(* what admission has established of the parameters and the documents.     *)
(***************************************************************************)
EXTENDS Admission, SequenceLemmas, FiniteSetTheorems

-----------------------------------------------------------------------------
(* The instrument a session is with                                        *)

\* What the program has checked when it imported its registry.
Imported ==
  /\ registry \in Registries
  /\ pc \notin {"import", "broken"} => IndexesBuilt(registry) /\ InventoryAgrees(registry, Expected)

\* What the gates have established about the instrument that is open.
Identified ==
  /\ Detected(bench) = bench.model /\ bench.model \in Drivers \ DeScoped
  /\ request.runtime.expected \in {NoModel, bench.model}
  /\ request.command = "restore-from-snapshot" =>
       SameInstrument(request.parameters["document"][2], bench.model, bench.serial)
  /\ DOMAIN bench = {"model", "maker", "name", "serial", "voltage", "current", "on"}

IdentityInv ==
  /\ Imported
  /\ pc \in {"opening"} \cup Sessions => Mode(request) = "live"
  /\ pc \in Sessions => Identified

\* What an instrument resolves to is an entry of the registry that lists its
\* name, and whose vendor or makers list its maker.
LEMMA ResolvedEntry ==
  ASSUME NEW reg, reg.models \in Seq(ToSet(reg.models)), NEW maker, NEW name,
         Resolved(reg, maker, name) # NoModel
  PROVE  \E m \in ToSet(reg.models) :
           /\ m.id = Resolved(reg, maker, name) /\ name \in ToSet(m.names)
           /\ MakerAdmits(reg, maker, m)
<1> DEFINE models == reg.models
           found == {i \in DOMAIN models : name \in ToSet(models[i].names) /\ MakerAdmits(reg, maker, models[i])}
<1>1. found # {} /\ Resolved(reg, maker, name) = models[Max(found)].id
  BY DEF Resolved
<1>2. DOMAIN models = 1..Len(models) /\ Len(models) \in Nat
  BY LenProperties
<1>3. Max(found) \in found
  <2>1. found \subseteq 1..Len(models)
    BY <1>2
  <2> HIDE DEF found, models
  <2> QED
    BY <1>1, <1>2, <2>1, GreatestExists
<1>4. models[Max(found)] \in ToSet(models)
  BY <1>3 DEF ToSet
<1> QED
  BY <1>1, <1>3, <1>4

\* A model that is admitted for a maker has it, by itself or by its vendor.
LEMMA AdmittedMaker ==
  ASSUME NEW reg, NEW maker, NEW m, MakerAdmits(reg, maker, m)
  PROVE  \/ maker \in ToSet(m.makers)
         \/ \E v \in ToSet(reg.vendors) : v.id = m.vendor /\ maker \in ToSet(v.names)
BY DEF MakerAdmits, VendorNamed, RestrictedTo

\* Whatever an instrument of a consistent registry resolves to, it is.
LEMMA ResolvedIsGenuine ==
  ASSUME Imported, pc \notin {"import", "broken"}, NEW b \in Benches, Detected(b) # NoModel
  PROVE  b.model = Detected(b)
<1>1. registry.models \in Seq(ToSet(registry.models))
  BY RegistriesAssumption DEF Imported, IsTable
<1>2. PICK m \in ToSet(registry.models) :
        /\ m.id = Detected(b) /\ b.name \in ToSet(m.names) /\ MakerAdmits(registry, b.maker, m)
  BY <1>1, ResolvedEntry DEF Detected
<1>3. \/ b.maker \in ToSet(m.makers)
      \/ \E v \in ToSet(registry.vendors) : v.id = m.vendor /\ b.maker \in ToSet(v.names)
  BY <1>2, AdmittedMaker
<1> QED
  BY <1>2, <1>3, GenuineAssumption DEF Imported

\* A call changes an instrument's outputs, never which instrument it is.
LEMMA EffectKeepsIdentity ==
  ASSUME NEW b, DOMAIN b = {"model", "maker", "name", "serial", "voltage", "current", "on"},
         NEW step, step[1] \in Writes
  PROVE  LET e == Effect(b, step) IN
         /\ DOMAIN e = DOMAIN b /\ e.model = b.model /\ e.maker = b.maker
         /\ e.name = b.name /\ e.serial = b.serial
BY DEF Effect, Writes

\* Opening an instrument ends in a session only with one that was identified.
LEMMA OpenIdentifies == ASSUME IdentityInv, Open PROVE IdentityInv'
<1>1. PICK b \in Benches :
        /\ bench' = b
        /\ IF IdentityHolds(request, b) /\ ChannelsSupported(request, b) /\ LoopTimingHolds(request)
           THEN pc' = "session" ELSE pc' = "refused"
  BY DEF Open
<1>2. pc = "opening" /\ UNCHANGED <<registry, request>>
  BY DEF Open
<1>3. Imported'
  BY <1>1, <1>2 DEF IdentityInv, Imported
<1>4. CASE pc' = "session"
  <2>1. IdentityHolds(request, b)
    BY <1>1, <1>4
  <2>2. Detected(b) = b.model /\ Detected(b)' = Detected(b)
    BY <1>2, <2>1, ResolvedIsGenuine DEF IdentityHolds, IdentityInv, Detected
  <2>3. b.model \in Drivers \ DeScoped
    BY <2>1, <2>2 DEF IdentityHolds, DriverFor
  <2>4. request.runtime.expected \in {NoModel, b.model}
    BY <2>1, <2>2 DEF IdentityHolds, ValidateExpectedModel
  <2>5. request.command = "restore-from-snapshot" =>
          SameInstrument(request.parameters["document"][2], b.model, b.serial)
    BY <2>1, <2>2 DEF IdentityHolds
  <2>6. Identified'
    BY <1>1, <1>2, <2>2, <2>3, <2>4, <2>5, BenchesAssumption DEF Identified, Detected
  <2> QED
    BY <1>2, <1>3, <2>6 DEF IdentityInv, Mode
<1>5. CASE pc' = "refused"
  BY <1>3, <1>5 DEF IdentityInv, Sessions
<1> QED
  BY <1>1, <1>4, <1>5

\* Every step with the instrument keeps it the one that was identified.
LEMMA SessionIdentifies ==
  ASSUME IdentityInv, Write \/ Raise \/ Reject
  PROVE  IdentityInv'
<1>1. pc \in Sessions /\ pc' \in Sessions /\ UNCHANGED <<registry, request>>
  BY DEF Write, Raise, Reject, Sessions
<1>2. bench' = bench \/ (NextStep[1] \in Writes /\ bench' = Effect(bench, NextStep))
  BY DEF Write, Raise, Reject
<1>3. Identified
  BY <1>1 DEF IdentityInv
<1>4. /\ DOMAIN bench' = DOMAIN bench /\ bench'.model = bench.model /\ bench'.maker = bench.maker
      /\ bench'.name = bench.name /\ bench'.serial = bench.serial
  BY <1>2, <1>3, EffectKeepsIdentity DEF Identified
<1>5. Detected(bench)' = Detected(bench)
  BY <1>1, <1>4 DEF Detected
<1>6. Identified'
  BY <1>1, <1>3, <1>4, <1>5 DEF Identified
<1>7. pc \notin {"import", "broken"} /\ pc' \notin {"import", "broken"}
  BY <1>1 DEF Sessions
<1> QED
  BY <1>1, <1>6, <1>7 DEF IdentityInv, Imported, Mode, Sessions

\* The other steps leave the instrument alone, or have none.
LEMMA OtherStepsIdentify ==
  ASSUME IdentityInv,
         \/ Import \/ Receive \/ Admit \/ Start \/ CheckLimits \/ CheckConfirmation
         \/ CheckChannel \/ CheckRestore \/ Return \/ NextRequest \/ EditFiles
         \/ UNCHANGED vars
  PROVE  IdentityInv'
<1>1. CASE Import
  BY <1>1 DEF Import, IdentityInv, Imported, Sessions
<1>2. CASE Receive
  BY <1>2 DEF Receive, IdentityInv, Imported, Sessions
<1>3. CASE Admit
  BY <1>3 DEF Admit, IdentityInv, Imported, Sessions
<1>4. CASE Start
  <2>1. pc = "admitted" /\ registry' = registry /\ (pc' = "refused" \/ pc' = Dispatch(request'))
    BY <1>4 DEF Start
  <2>2. pc' \in {"planned", "refused", "dispatched", "opening"}
    BY <2>1 DEF Dispatch, Opening
  <2>3. pc' = "opening" => Mode(request') = "live"
    BY <2>1 DEF Dispatch, Opening
  <2> QED
    BY <2>1, <2>2, <2>3 DEF IdentityInv, Imported, Sessions, Mode
<1>5. CASE CheckLimits \/ CheckConfirmation \/ CheckChannel \/ CheckRestore
  <2>1. /\ pc = "session" /\ pc' \in {"session", "refused"}
        /\ UNCHANGED <<registry, request, bench>>
    BY <1>5 DEF CheckLimits, CheckConfirmation, CheckChannel, CheckRestore, Check
  <2> QED
    BY <2>1 DEF IdentityInv, Imported, Identified, Detected, Sessions, Mode
<1>6. CASE Return \/ NextRequest
  BY <1>6 DEF Return, NextRequest, IdentityInv, Imported, Sessions
<1>7. CASE EditFiles \/ UNCHANGED vars
  BY <1>7 DEF EditFiles, vars, IdentityInv, Imported, Identified, Detected, Sessions, Mode
<1> QED
  BY <1>1, <1>2, <1>3, <1>4, <1>5, <1>6, <1>7

\* In every reachable state the registry in use is consistent, what is opened is
\* opened for a live request, and what is open has been identified.
THEOREM IdentityKept == Spec => []IdentityInv
<1>1. Init => IdentityInv
  BY DEF Init, IdentityInv, Imported, Sessions
<1>2. IdentityInv /\ [Next]_vars => IdentityInv'
  BY OpenIdentifies, SessionIdentifies, OtherStepsIdentify DEF Next
<1> QED
  BY <1>1, <1>2, PTL DEF Spec

\* No session is with an instrument other than the one that its driver is for,
\* that is supported, and that the request and the snapshot mean.
THEOREM IntendedInstrument == Spec => []OnlyIntendedInstrument
<1>1. IdentityInv => OnlyIntendedInstrument
  BY DEF IdentityInv, Identified, SameInstrument, OnlyIntendedInstrument
<1> QED
  BY <1>1, IdentityKept, PTL

-----------------------------------------------------------------------------
(* Tables, and the scripts made of them                                    *)

\* One place for each of the channels.
LEMMA AscendingPlaces ==
  ASSUME NEW S
  PROVE  /\ DOMAIN Ascending(S) = 1..Cardinality(S)
         /\ Ascending(S) = [k \in 1..Cardinality(S) |-> Ascending(S)[k]]
<1> DEFINE at(k) == CHOOSE c \in S : Cardinality({d \in S : d < c}) = k - 1
<1>1. Ascending(S) = [k \in 1..Cardinality(S) |-> at(k)]
  BY DEF Ascending
<1> HIDE DEF at
<1> QED
  BY <1>1

\* Channels in their order are the channels, each at the place of its rank.
LEMMA AscendingHasAll ==
  ASSUME NEW S, IsFiniteSet(S), S \subseteq Int
  PROVE  IsTable(Ascending(S)) /\ ToSet(Ascending(S)) = S /\ Len(Ascending(S)) = Cardinality(S)
<1> DEFINE below(x) == {y \in S : y < x}
           rank == [x \in S |-> Cardinality(below(x))]
           n == Cardinality(S)
<1>1. n \in Nat /\ Cardinality(0..n - 1) = n /\ IsFiniteSet(0..n - 1)
  <2>1. n \in Nat
    BY FS_CardinalityType
  <2> HIDE DEF n
  <2>2. n - 1 \in Int /\ 0 \in Int
    BY <2>1
  <2>3. IsFiniteSet(0..n - 1) /\ Cardinality(0..n - 1) = IF 0 > n - 1 THEN 0 ELSE (n - 1) - 0 + 1
    BY <2>2, FS_Interval
  <2> QED
    BY <2>1, <2>3
<1>2. ASSUME NEW x \in S PROVE IsFiniteSet(below(x)) /\ Cardinality(below(x)) \in 0..n - 1
  <2>1. below(x) \in SUBSET S /\ x \notin below(x)
    OBVIOUS
  <2>2. IsFiniteSet(below(x)) /\ Cardinality(below(x)) <= n /\ Cardinality(below(x)) # n
    BY <2>1, FS_Subset
  <2>3. Cardinality(below(x)) \in Nat
    BY <2>2, FS_CardinalityType
  <2> QED
    BY <1>1, <2>2, <2>3
<1>3. ASSUME NEW x \in S, NEW y \in S, x < y PROVE rank[x] # rank[y]
  <2>1. below(x) \in SUBSET below(y) /\ x \in below(y) /\ x \notin below(x)
    <3>1. \A z \in S : z < x => z < y
      BY <1>3
    <3>2. ~(x < x)
      OBVIOUS
    <3> QED
      BY <1>3, <3>1, <3>2
  <2>2. Cardinality(below(x)) # Cardinality(below(y))
    BY <1>2, <2>1, FS_Subset
  <2> QED
    BY <2>2
<1>4. \A x, y \in S : rank[x] = rank[y] => x = y
  <2> HIDE DEF rank
  <2> QED
    BY <1>3
<1>5. rank \in Injection(S, 0..n - 1)
  <2>1. rank \in [S -> 0..n - 1]
    BY <1>2
  <2> QED
    BY <1>4, <2>1 DEF Injection, IsInjective
<1>6. rank \in Surjection(S, 0..n - 1)
  BY <1>1, <1>5, FS_Injection
<1>7. ASSUME NEW k \in 1..n PROVE Ascending(S)[k] \in S /\ rank[Ascending(S)[k]] = k - 1
  <2>1. k - 1 \in 0..n - 1
    BY <1>1
  <2>2. PICK x \in S : rank[x] = k - 1
    BY <1>6, <2>1 DEF Surjection
  <2> QED
    BY <2>2 DEF Ascending
<1>8. DOMAIN Ascending(S) = 1..n /\ Ascending(S) = [k \in 1..n |-> Ascending(S)[k]]
  BY AscendingPlaces
<1>9. ASSUME NEW x \in S PROVE \E k \in 1..n : Ascending(S)[k] = x
  <2>1. rank[x] \in 0..n - 1
    BY <1>2
  <2>2. rank[x] + 1 \in 1..n /\ (rank[x] + 1) - 1 = rank[x]
    BY <1>1, <2>1
  <2> HIDE DEF rank
  <2>3. Ascending(S)[rank[x] + 1] = x
    BY <1>4, <1>7, <2>2
  <2> QED
    BY <2>2, <2>3
<1>10. ToSet(Ascending(S)) = S
  BY <1>7, <1>8, <1>9 DEF ToSet
<1>11. Ascending(S) \in [1..n -> S]
  <2> HIDE DEF rank
  <2> QED
    BY <1>7, <1>8
<1>12. Ascending(S) \in Seq(S) /\ Len(Ascending(S)) = n
  BY <1>1, <1>11, SeqDef, LenProperties
<1> QED
  BY <1>10, <1>12 DEF IsTable

\* The tables with at most three entries.
LEMMA SmallTables ==
  /\ IsTable(<< >>) /\ ToSet(<< >>) = {}
  /\ \A x : IsTable(<<x>>) /\ ToSet(<<x>>) = {x}
  /\ \A x, y : IsTable(<<x, y>>) /\ ToSet(<<x, y>>) = {x, y}
  /\ \A x, y, z : IsTable(<<x, y, z>>) /\ ToSet(<<x, y, z>>) = {x, y, z}
BY DEF IsTable, ToSet

\* Two tables joined.
LEMMA JoinedTables ==
  ASSUME NEW s, IsTable(s), NEW t, IsTable(t)
  PROVE  IsTable(s \o t) /\ ToSet(s \o t) = ToSet(s) \cup ToSet(t)
BY JoinElements DEF IsTable

\* Joining tables associates.
LEMMA TablesReassociate ==
  ASSUME NEW s, IsTable(s), NEW t, IsTable(t), NEW u, IsTable(u)
  PROVE  (s \o t) \o u = s \o (t \o u)
<1> DEFINE T == ToSet(s) \cup ToSet(t) \cup ToSet(u)
<1>1. s \in Seq(T) /\ t \in Seq(T) /\ u \in Seq(T)
  BY WiderElements DEF IsTable
<1> HIDE DEF T
<1> QED
  BY <1>1, ConcatAssociative

\* A table for each of the channels (steps, segments), one after the other.
LEMMA EachTable ==
  ASSUME NEW items, IsTable(items), NEW ss, ss = [k \in DOMAIN items |-> ss[k]],
         \A k \in DOMAIN items : IsTable(ss[k])
  PROVE  /\ IsTable(FlattenSeq(ss))
         /\ ToSet(FlattenSeq(ss)) = UNION {ToSet(ss[k]) : k \in DOMAIN items}
<1>1. Len(items) \in Nat /\ DOMAIN items = 1..Len(items)
  BY LenProperties DEF IsTable
<1>2. ss = [k \in 1..Len(items) |-> ss[k]] /\ Len(ss) = Len(items)
  BY <1>1
<1>3. \A k \in 1..Len(items) : ss[k] \in Seq(ToSet(ss[k]))
  BY <1>1 DEF IsTable
<1>4. /\ FlattenSeq(ss) \in Seq(ToSet(FlattenSeq(ss)))
      /\ ToSet(FlattenSeq(ss)) = UNION {ToSet(ss[k]) : k \in 1..Len(items)}
  BY <1>1, <1>2, <1>3, FlattenElements
<1> QED
  BY <1>1, <1>4 DEF IsTable

\* A call of one kind for each channel.
LEMMA SwitchesAre ==
  ASSUME NEW kind, NEW channels, IsTable(channels)
  PROVE  /\ IsTable(SwitchEach(kind, channels))
         /\ \A x \in ToSet(SwitchEach(kind, channels)) : x[1] = kind /\ x[2] \in ToSet(channels)
<1> DEFINE ss == [k \in DOMAIN channels |-> <<At(kind, channels[k])>>]
<1>1. SwitchEach(kind, channels) = FlattenSeq(ss)
  BY DEF SwitchEach, Each
<1>2. \A k \in DOMAIN channels : IsTable(ss[k]) /\ ToSet(ss[k]) = {At(kind, channels[k])}
  BY SmallTables
<1>3. ss = [k \in DOMAIN channels |-> ss[k]]
  OBVIOUS
<1> HIDE DEF ss
<1>4. /\ IsTable(FlattenSeq(ss))
      /\ ToSet(FlattenSeq(ss)) = UNION {ToSet(ss[k]) : k \in DOMAIN channels}
  BY <1>2, <1>3, EachTable
<1>5. \A k \in DOMAIN channels : channels[k] \in ToSet(channels)
  BY DEF ToSet
<1> QED
  BY <1>1, <1>2, <1>4, <1>5 DEF At

\* The writes of a pair of setpoints.
LEMMA PairWrites ==
  ASSUME NEW model, NEW c, NEW v, NEW i
  PROVE  /\ IsTable(WritePair(model, c, v, i))
         /\ \A w \in ToSet(WritePair(model, c, v, i)) :
              /\ w[2] = c
              /\ w[1] \in {"pair", "voltage"} => w[3] = v /\ v # NoValue
              /\ w[1] \in {"pair", "current"} => w[4] = i /\ i # NoValue
<1> DEFINE first == IF i = NoValue THEN <<>> ELSE <<<<"current", c, NoValue, i>>>>
           second == IF v = NoValue THEN <<>> ELSE <<<<"voltage", c, v, NoValue>>>>
<1>1. /\ IsTable(first) /\ IsTable(second)
      /\ \A w \in ToSet(first) : w = <<"current", c, NoValue, i>> /\ i # NoValue
      /\ \A w \in ToSet(second) : w = <<"voltage", c, v, NoValue>> /\ v # NoValue
  BY SmallTables
<1>2. CASE model = PSM2010 /\ NoValue \notin {v, i}
  <2>1. WritePair(model, c, v, i) = <<<<"pair", c, v, i>>>>
    BY <1>2 DEF WritePair
  <2> QED
    BY <1>2, <2>1, SmallTables
<1>3. CASE ~(model = PSM2010 /\ NoValue \notin {v, i})
  <2>1. WritePair(model, c, v, i) = first \o second
    BY <1>3 DEF WritePair
  <2> HIDE DEF first, second
  <2>2. IsTable(first \o second) /\ ToSet(first \o second) = ToSet(first) \cup ToSet(second)
    BY <1>1, JoinedTables
  <2> QED
    BY <1>1, <2>1, <2>2
<1> QED
  BY <1>2, <1>3

\* Every confirmation that is asked for.
LEMMA ConfirmationsAre ==
  ASSUME NEW channels, NEW c, NEW v, NEW i
  PROVE  /\ IsTable(Confirmation(channels, c, v, i))
         /\ \A x \in ToSet(Confirmation(channels, c, v, i)) : x[1] = "confirm"
         /\ <<"confirm", c, v, i>> \in ToSet(Confirmation(channels, c, v, i))
BY SmallTables DEF Confirmation

\* A check of limits for every voltage of every channel, and its confirmation.
LEMMA RampChecksAre ==
  ASSUME NEW channels, IsTable(channels), NEW voltages, IsTable(voltages), NEW current,
         NEW enable \in BOOLEAN
  PROVE  LET checks == RampChecks(channels, voltages, current, enable) IN
         /\ IsTable(checks)
         /\ \A x \in ToSet(checks) : x[1] \in {"limits", "confirm"}
         /\ \A c \in ToSet(channels), v \in ToSet(voltages) :
              /\ <<"limits", c, v, current>> \in ToSet(checks)
              /\ enable => <<"confirm", c, v, current>> \in ToSet(checks)
<1> DEFINE one(c, v) == <<<<"limits", c, v, current>>>>
                          \o IF enable THEN Confirmation(channels, c, v, current) ELSE <<>>
           inner == [k \in DOMAIN channels |-> [m \in DOMAIN voltages |-> one(channels[k], voltages[m])]]
           ss == [k \in DOMAIN channels |-> FlattenSeq(inner[k])]
<1>1. RampChecks(channels, voltages, current, enable) = FlattenSeq(ss)
  BY DEF RampChecks, Each
<1>2. ASSUME NEW c, NEW v
      PROVE  /\ IsTable(one(c, v)) /\ <<"limits", c, v, current>> \in ToSet(one(c, v))
             /\ enable => <<"confirm", c, v, current>> \in ToSet(one(c, v))
             /\ \A x \in ToSet(one(c, v)) : x[1] \in {"limits", "confirm"}
  <2> DEFINE asked == IF enable THEN Confirmation(channels, c, v, current) ELSE <<>>
  <2>1. /\ IsTable(asked) /\ \A x \in ToSet(asked) : x[1] = "confirm"
        /\ enable => <<"confirm", c, v, current>> \in ToSet(asked)
    BY ConfirmationsAre, SmallTables
  <2>2. IsTable(<<<<"limits", c, v, current>>>>)
        /\ ToSet(<<<<"limits", c, v, current>>>>) = {<<"limits", c, v, current>>}
    BY SmallTables
  <2> HIDE DEF asked
  <2>3. IsTable(<<<<"limits", c, v, current>>>> \o asked)
        /\ ToSet(<<<<"limits", c, v, current>>>> \o asked) = {<<"limits", c, v, current>>} \cup ToSet(asked)
    BY <2>1, <2>2, JoinedTables
  <2> QED
    BY <2>1, <2>3 DEF asked
<1> HIDE DEF one
<1>3. ASSUME NEW k \in DOMAIN channels
      PROVE  /\ IsTable(FlattenSeq(inner[k]))
             /\ ToSet(FlattenSeq(inner[k]))
                  = UNION {ToSet(one(channels[k], voltages[m])) : m \in DOMAIN voltages}
  <2> DEFINE tt == [m \in DOMAIN voltages |-> one(channels[k], voltages[m])]
  <2>1. \A m \in DOMAIN voltages : IsTable(tt[m])
    BY <1>2
  <2>2. /\ IsTable(FlattenSeq(tt))
        /\ ToSet(FlattenSeq(tt)) = UNION {ToSet(tt[m]) : m \in DOMAIN voltages}
    <3>1. tt = [m \in DOMAIN voltages |-> tt[m]]
      OBVIOUS
    <3> HIDE DEF tt
    <3> QED
      BY <2>1, <3>1, EachTable
  <2>3. inner[k] = tt
    OBVIOUS
  <2> QED
    BY <2>2, <2>3
<1>4. /\ IsTable(FlattenSeq(ss))
      /\ ToSet(FlattenSeq(ss)) = UNION {ToSet(ss[k]) : k \in DOMAIN channels}
  <2>1. ss = [k \in DOMAIN channels |-> ss[k]] /\ \A k \in DOMAIN channels : IsTable(ss[k])
    BY <1>3
  <2> HIDE DEF ss
  <2> QED
    BY <2>1, EachTable
<1>5. ASSUME NEW x \in ToSet(FlattenSeq(ss)) PROVE x[1] \in {"limits", "confirm"}
  <2>1. PICK k \in DOMAIN channels : x \in ToSet(FlattenSeq(inner[k]))
    BY <1>4
  <2> HIDE DEF ss, inner
  <2>2. PICK m \in DOMAIN voltages : x \in ToSet(one(channels[k], voltages[m]))
    BY <1>3, <2>1
  <2> QED
    BY <1>2, <2>2
<1>6. ASSUME NEW c \in ToSet(channels), NEW v \in ToSet(voltages)
      PROVE  /\ <<"limits", c, v, current>> \in ToSet(FlattenSeq(ss))
             /\ enable => <<"confirm", c, v, current>> \in ToSet(FlattenSeq(ss))
  <2>1. PICK k \in DOMAIN channels : channels[k] = c
    BY DEF ToSet
  <2>2. PICK m \in DOMAIN voltages : voltages[m] = v
    BY DEF ToSet
  <2>3. /\ <<"limits", c, v, current>> \in ToSet(one(channels[k], voltages[m]))
        /\ enable => <<"confirm", c, v, current>> \in ToSet(one(channels[k], voltages[m]))
    BY <1>2, <2>1, <2>2
  <2>4. /\ <<"limits", c, v, current>> \in ToSet(FlattenSeq(inner[k]))
        /\ enable => <<"confirm", c, v, current>> \in ToSet(FlattenSeq(inner[k]))
    <3> HIDE DEF inner
    <3> QED
      BY <1>3, <2>3
  <2>5. ss[k] = FlattenSeq(inner[k])
    OBVIOUS
  <2> HIDE DEF ss
  <2> QED
    BY <1>4, <2>4, <2>5
<1> HIDE DEF ss
<1> QED
  BY <1>1, <1>4, <1>5, <1>6

\* The calls that write a setpoint.
Setting == {"pair", "voltage", "current"}

\* What a ramp may write: its voltages and its current, to its channels.
Ramping(channels, voltages, current, w) ==
  w[1] \in Setting =>
    /\ w[2] \in ToSet(channels)
    /\ w[1] \in {"pair", "voltage"} => w[3] \in ToSet(voltages)
    /\ w[1] \in {"pair", "current"} => w[4] = current

\* A table that is not empty has a first element, and a rest.
LEMMA FirstAndRest ==
  ASSUME NEW s, IsTable(s), s # << >>
  PROVE  s[1] \in ToSet(s) /\ IsTable(Tail(s)) /\ ToSet(Tail(s)) \subseteq ToSet(s)
<1>1. s \in Seq(ToSet(s)) /\ Len(s) \in Nat /\ DOMAIN s = 1..Len(s)
  BY LenProperties DEF IsTable
<1>2. Len(s) # 0
  BY <1>1, EmptySeq
<1>3. 1 \in DOMAIN s
  BY <1>1, <1>2
<1>4. Tail(s) \in Seq(ToSet(s))
  BY <1>1, HeadTailProperties
<1>5. Tail(s) \in Seq(ToSet(Tail(s))) /\ ToSet(Tail(s)) \subseteq ToSet(s)
  BY <1>4, OwnElements
<1>6. s[1] \in ToSet(s)
  BY <1>3 DEF ToSet
<1> QED
  BY <1>5, <1>6 DEF IsTable

\* All writes of a ramp are its own.
LEMMA RampWritesAre ==
  ASSUME NEW model, NEW channels, IsTable(channels), channels # << >>,
         NEW voltages, IsTable(voltages), voltages # << >>, NEW current,
         NEW switches, IsTable(switches), \A x \in ToSet(switches) : x[1] \notin Setting
  PROVE  LET writes == RampWrites(model, channels, voltages, current, switches) IN
         IsTable(writes) /\ \A w \in ToSet(writes) : Ramping(channels, voltages, current, w)
<1> DEFINE R(w) == Ramping(channels, voltages, current, w)
           currents == [k \in DOMAIN channels |-> <<<<"current", channels[k], NoValue, current>>>>]
           first == IF model = PSM2010 THEN <<<<"pair", channels[1], voltages[1], current>>>>
                    ELSE FlattenSeq(currents)
           one(v, c) == IF model = PSM2010 /\ v = voltages[1] THEN <<>> ELSE <<<<"voltage", c, v, NoValue>>>>
           of(v) == [k \in DOMAIN channels |-> one(v, channels[k])]
           rest == [m \in DOMAIN Tail(voltages) |-> FlattenSeq(of(Tail(voltages)[m]))]
<1>1. RampWrites(model, channels, voltages, current, switches)
        = first \o FlattenSeq(of(voltages[1])) \o switches \o FlattenSeq(rest)
  BY DEF RampWrites, Each
<1>2. \A k \in DOMAIN channels : channels[k] \in ToSet(channels)
  BY DEF ToSet
<1>3. IsTable(first) /\ \A w \in ToSet(first) : R(w)
  <2>1. CASE model = PSM2010
    <3>1. first = <<<<"pair", channels[1], voltages[1], current>>>>
      BY <2>1
    <3> HIDE DEF first
    <3> QED
      BY <3>1, FirstAndRest, SmallTables DEF Ramping
  <2>2. CASE model # PSM2010
    <3>1. \A k \in DOMAIN channels :
            IsTable(currents[k]) /\ ToSet(currents[k]) = {<<"current", channels[k], NoValue, current>>}
      BY SmallTables
    <3>2. currents = [k \in DOMAIN channels |-> currents[k]] /\ first = FlattenSeq(currents)
      BY <2>2
    <3> HIDE DEF currents, first
    <3>3. IsTable(first) /\ ToSet(first) = UNION {ToSet(currents[k]) : k \in DOMAIN channels}
      BY <3>1, <3>2, EachTable
    <3>4. ASSUME NEW w \in ToSet(first) PROVE R(w)
      <4>1. PICK k \in DOMAIN channels : w = <<"current", channels[k], NoValue, current>>
        BY <3>1, <3>3
      <4> QED
        BY <1>2, <4>1 DEF Ramping
    <3> QED
      BY <3>3, <3>4
  <2> QED
    BY <2>1, <2>2
<1>4. ASSUME NEW v \in ToSet(voltages)
      PROVE  IsTable(FlattenSeq(of(v))) /\ \A w \in ToSet(FlattenSeq(of(v))) : R(w)
  <2> DEFINE ss == of(v)
  <2>1. ASSUME NEW c \in ToSet(channels) PROVE IsTable(one(v, c)) /\ \A w \in ToSet(one(v, c)) : R(w)
    <3>1. \A w \in ToSet(one(v, c)) : w = <<"voltage", c, v, NoValue>>
      BY SmallTables
    <3>2. R(<<"voltage", c, v, NoValue>>)
      BY DEF Ramping
    <3> QED
      BY <3>1, <3>2, SmallTables
  <2>2. ss = [k \in DOMAIN channels |-> ss[k]]
        /\ \A k \in DOMAIN channels : IsTable(ss[k]) /\ \A w \in ToSet(ss[k]) : R(w)
    <3> HIDE DEF one
    <3> QED
      BY <1>2, <2>1
  <2> HIDE DEF ss
  <2>3. IsTable(FlattenSeq(ss)) /\ ToSet(FlattenSeq(ss)) = UNION {ToSet(ss[k]) : k \in DOMAIN channels}
    BY <2>2, EachTable
  <2>4. IsTable(FlattenSeq(ss)) /\ \A w \in ToSet(FlattenSeq(ss)) : R(w)
    BY <2>2, <2>3
  <2> QED
    BY <2>4 DEF ss
<1> HIDE DEF of, first, R
<1>5. voltages[1] \in ToSet(voltages) /\ IsTable(Tail(voltages)) /\ ToSet(Tail(voltages)) \subseteq ToSet(voltages)
  BY FirstAndRest
<1>6. IsTable(FlattenSeq(rest)) /\ \A w \in ToSet(FlattenSeq(rest)) : R(w)
  <2>1. \A m \in DOMAIN Tail(voltages) : Tail(voltages)[m] \in ToSet(voltages)
    BY <1>5 DEF ToSet
  <2>2. rest = [m \in DOMAIN Tail(voltages) |-> rest[m]]
        /\ \A m \in DOMAIN Tail(voltages) : IsTable(rest[m]) /\ \A w \in ToSet(rest[m]) : R(w)
    BY <1>4, <2>1
  <2> HIDE DEF rest
  <2>3. IsTable(FlattenSeq(rest))
        /\ ToSet(FlattenSeq(rest)) = UNION {ToSet(rest[m]) : m \in DOMAIN Tail(voltages)}
    BY <1>5, <2>2, EachTable
  <2> QED
    BY <2>2, <2>3
<1>7. \A w \in ToSet(switches) : R(w)
  BY DEF R, Ramping
<1> DEFINE second == FlattenSeq(of(voltages[1]))
           last == FlattenSeq(rest)
<1>8. IsTable(second) /\ \A w \in ToSet(second) : R(w)
  BY <1>4, <1>5
<1>9. IsTable(last) /\ \A w \in ToSet(last) : R(w)
  BY <1>6
<1> HIDE DEF second, last
<1>10. IsTable(first \o second) /\ \A w \in ToSet(first \o second) : R(w)
  BY <1>3, <1>8, JoinedTables
<1>11. IsTable(first \o second \o switches) /\ \A w \in ToSet(first \o second \o switches) : R(w)
  BY <1>7, <1>10, JoinedTables
<1>12. /\ IsTable(first \o second \o switches \o last)
       /\ \A w \in ToSet(first \o second \o switches \o last) : R(w)
  BY <1>9, <1>11, JoinedTables
<1> QED
  BY <1>1, <1>12 DEF R, second, last

\* A check of these values is one of what a write sets.
Covers(c, v, i, w) ==
  /\ c = w[2]
  /\ w[1] \in {"pair", "voltage"} => v = w[3] /\ v \in Int
  /\ w[1] \in {"pair", "current"} => i = w[4] /\ i \in Int

\* A restore writes what its document recorded of the channel.
Recorded(r, w) ==
  LET d == r.parameters["document"][2] IN
  /\ r.command = "restore-from-snapshot" /\ w[1] \in {"voltage", "current"}
  /\ w[2] \in ToSet(RestoreChannels(d, r.parameters["channel"]))
  /\ w[1] = "voltage" => w[3] = RecordOf(d.readback, w[2]).voltage
  /\ w[1] = "current" => w[4] = RecordOf(d.readback, w[2]).current

\* The step x is the check that the write w needs.
Permits(r, x, w) ==
  \/ x[1] = "limits" /\ Covers(x[2], x[3], x[4], w)
  \/ x[1] = "fit" /\ Recorded(r, w)

\* Every write of a setpoint follows the check it needs.
Laid(r, s) ==
  /\ IsTable(s)
  /\ \A n \in 1..Len(s) : s[n][1] \in Setting => \E m \in 1..n - 1 : Permits(r, s[m], s[n])

\* It is enough that the checks come first.
LEMMA ChecksFirst ==
  ASSUME NEW r, NEW checks, IsTable(checks), NEW work, IsTable(work),
         \A x \in ToSet(checks) : x[1] \notin Setting,
         \A w \in ToSet(work) : w[1] \in Setting => \E x \in ToSet(checks) : Permits(r, x, w)
  PROVE  Laid(r, checks \o work)
<1> DEFINE s == checks \o work
           T == ToSet(checks) \cup ToSet(work)
<1>1. checks \in Seq(T) /\ work \in Seq(T)
  BY WiderElements DEF IsTable
<1>2. /\ Len(checks) \in Nat /\ Len(work) \in Nat
      /\ DOMAIN checks = 1..Len(checks) /\ DOMAIN work = 1..Len(work)
  BY <1>1, LenProperties
<1>3. /\ Len(s) = Len(checks) + Len(work)
      /\ \A k \in 1..Len(checks) : s[k] = checks[k]
      /\ \A k \in 1..Len(work) : s[Len(checks) + k] = work[k]
  BY <1>1, JoinPositions
<1>4. IsTable(s)
  BY JoinedTables
<1> HIDE DEF s
<1>5. ASSUME NEW n \in 1..Len(s), s[n][1] \in Setting
      PROVE  \E m \in 1..n - 1 : Permits(r, s[m], s[n])
  <2>1. CASE n \in 1..Len(checks)
    <3>1. s[n] \in ToSet(checks)
      BY <1>2, <1>3, <2>1 DEF ToSet
    <3> QED
      BY <1>5, <3>1
  <2>2. CASE n \notin 1..Len(checks)
    <3> DEFINE k == n - Len(checks)
    <3>1. k \in 1..Len(work) /\ Len(checks) + k = n
      BY <1>2, <1>3, <2>2
    <3>2. s[n] = work[k] /\ work[k] \in ToSet(work)
      BY <1>2, <1>3, <3>1 DEF ToSet
    <3>3. PICK x \in ToSet(checks) : Permits(r, x, s[n])
      BY <1>5, <3>2
    <3>4. PICK m \in 1..Len(checks) : checks[m] = x
      BY <1>2 DEF ToSet
    <3>5. m \in 1..n - 1 /\ s[m] = x
      BY <1>2, <1>3, <2>2, <3>4
    <3> QED
      BY <3>3, <3>5
  <2> QED
    BY <2>1, <2>2
<1> QED
  BY <1>4, <1>5 DEF s, Laid

\* Likewise where the work is two scripts.
LEMMA ChecksBefore ==
  ASSUME NEW r, NEW checks, IsTable(checks), NEW work, IsTable(work), NEW more, IsTable(more),
         \A x \in ToSet(checks) : x[1] \notin Setting,
         \A w \in ToSet(work) \cup ToSet(more) : w[1] \in Setting =>
           \E x \in ToSet(checks) : Permits(r, x, w)
  PROVE  Laid(r, checks \o work \o more)
<1>1. IsTable(work \o more) /\ ToSet(work \o more) = ToSet(work) \cup ToSet(more)
  BY JoinedTables
<1>2. Laid(r, checks \o (work \o more))
  BY <1>1, ChecksFirst
<1>3. checks \o work \o more = checks \o (work \o more)
  BY TablesReassociate
<1> QED
  BY <1>2, <1>3

\* Nothing needs a check where no setpoint is written.
LEMMA NothingWritten ==
  ASSUME NEW r, NEW s, IsTable(s), \A x \in ToSet(s) : x[1] \notin Setting
  PROVE  Laid(r, s)
<1>1. DOMAIN s = 1..Len(s)
  BY LenProperties DEF IsTable
<1> QED
  BY <1>1 DEF Laid, ToSet

-----------------------------------------------------------------------------
(* The steps of the commands *)

\* One check of limits, then the pair.
LEMMA SetLaid ==
  ASSUME NEW r, NEW model, NEW c, NEW v, v \in Int \cup {NoValue}, NEW i, i \in Int \cup {NoValue}
  PROVE  Laid(r, SetSteps(model, c, v, i))
<1> DEFINE check == <<<<"limits", c, v, i>>>>
           work == WritePair(model, c, v, i)
<1>1. IsTable(check) /\ ToSet(check) = {<<"limits", c, v, i>>}
  BY SmallTables
<1>2. SetSteps(model, c, v, i) = check \o work
  BY DEF SetSteps
<1>3. /\ IsTable(work)
      /\ \A w \in ToSet(work) : Permits(r, <<"limits", c, v, i>>, w)
  BY PairWrites DEF Permits, Covers
<1> HIDE DEF check, work
<1>4. \A x \in ToSet(check) : x[1] \notin Setting
  BY <1>1 DEF Setting
<1> QED
  BY <1>1, <1>2, <1>3, <1>4, ChecksFirst

\* The test of an output, likewise, with the confirmation between.
LEMMA SmokeLaid ==
  ASSUME NEW r, NEW model, NEW channels, NEW c, NEW v, v \in Int \cup {NoValue},
         NEW i, i \in Int \cup {NoValue}
  PROVE  Laid(r, SmokeSteps(model, channels, c, v, i))
<1> DEFINE check == <<<<"limits", c, v, i>>>>
           asked == Confirmation(channels, c, v, i)
           pair == WritePair(model, c, v, i)
           switches == <<At("on", c), At("off", c)>>
<1>1. IsTable(check) /\ ToSet(check) = {<<"limits", c, v, i>>}
  BY SmallTables
<1>2. SmokeSteps(model, channels, c, v, i) = check \o asked \o pair \o switches
  BY DEF SmokeSteps
<1>3. /\ IsTable(pair)
      /\ \A w \in ToSet(pair) : Permits(r, <<"limits", c, v, i>>, w)
  BY PairWrites DEF Permits, Covers
<1>4. IsTable(asked) /\ \A x \in ToSet(asked) : x[1] = "confirm"
  BY ConfirmationsAre
<1>5. IsTable(switches) /\ \A x \in ToSet(switches) : x[1] \in {"on", "off"}
  BY SmallTables DEF At
<1> HIDE DEF check, asked, pair, switches
<1>6. IsTable(check \o asked) /\ ToSet(check \o asked) = ToSet(check) \cup ToSet(asked)
  BY <1>1, <1>4, JoinedTables
<1> DEFINE checks == check \o asked
<1>7. IsTable(checks) /\ \A x \in ToSet(checks) : x[1] \notin Setting
  BY <1>1, <1>4, <1>6 DEF Setting
<1>8. \A w \in ToSet(pair) \cup ToSet(switches) : w[1] \in Setting =>
        \E x \in ToSet(checks) : Permits(r, x, w)
  BY <1>1, <1>3, <1>5, <1>6 DEF Setting
<1>9. SmokeSteps(model, channels, c, v, i) = checks \o pair \o switches
  BY <1>2
<1> HIDE DEF checks
<1> QED
  BY <1>3, <1>5, <1>7, <1>8, <1>9, ChecksBefore

\* The checks of apply.
PairChecks(channels, v, i, on) ==
  Each(channels, LAMBDA c :
    <<<<"limits", c, v, i>>>> \o IF on THEN Confirmation(channels, c, v, i) ELSE <<>>)

\* Its pairs.
Pairs(model, channels, v, i) == Each(channels, LAMBDA c : WritePair(model, c, v, i))

\* A check of limits, perhaps with the confirmation, for each channel.
LEMMA PairChecksAre ==
  ASSUME NEW channels, IsTable(channels), NEW v, NEW i, NEW on \in BOOLEAN
  PROVE  LET checks == PairChecks(channels, v, i, on)
         IN /\ IsTable(checks) /\ \A x \in ToSet(checks) : x[1] \in {"limits", "confirm"}
            /\ \A c \in ToSet(channels) :
                 /\ <<"limits", c, v, i>> \in ToSet(checks)
                 /\ on => <<"confirm", c, v, i>> \in ToSet(checks)
<1> DEFINE one(c) == <<<<"limits", c, v, i>>>> \o IF on THEN Confirmation(channels, c, v, i) ELSE <<>>
           ss == [k \in DOMAIN channels |-> one(channels[k])]
<1>1. PairChecks(channels, v, i, on) = FlattenSeq(ss)
  BY DEF Each, PairChecks
<1>2. ASSUME NEW c
      PROVE  /\ IsTable(one(c)) /\ \A x \in ToSet(one(c)) : x[1] \in {"limits", "confirm"}
             /\ <<"limits", c, v, i>> \in ToSet(one(c)) /\ (on => <<"confirm", c, v, i>> \in ToSet(one(c)))
  <2> DEFINE asked == IF on THEN Confirmation(channels, c, v, i) ELSE <<>>
  <2>1. /\ IsTable(asked) /\ \A x \in ToSet(asked) : x[1] = "confirm"
        /\ on => <<"confirm", c, v, i>> \in ToSet(asked)
    BY ConfirmationsAre, SmallTables
  <2>2. IsTable(<<<<"limits", c, v, i>>>>) /\ ToSet(<<<<"limits", c, v, i>>>>) = {<<"limits", c, v, i>>}
    BY SmallTables
  <2> HIDE DEF asked
  <2>3. IsTable(<<<<"limits", c, v, i>>>> \o asked)
        /\ ToSet(<<<<"limits", c, v, i>>>> \o asked) = {<<"limits", c, v, i>>} \cup ToSet(asked)
    BY <2>1, <2>2, JoinedTables
  <2> QED
    BY <2>1, <2>3 DEF asked
<1>3. /\ ss = [k \in DOMAIN channels |-> ss[k]]
      /\ \A k \in DOMAIN channels :
           /\ IsTable(ss[k]) /\ \A x \in ToSet(ss[k]) : x[1] \in {"limits", "confirm"}
           /\ <<"limits", channels[k], v, i>> \in ToSet(ss[k])
           /\ on => <<"confirm", channels[k], v, i>> \in ToSet(ss[k])
  <2> HIDE DEF one
  <2> QED
    BY <1>2
<1> HIDE DEF one, ss
<1>4. /\ IsTable(FlattenSeq(ss))
      /\ ToSet(FlattenSeq(ss)) = UNION {ToSet(ss[k]) : k \in DOMAIN channels}
  BY <1>3, EachTable
<1>5. \A x \in ToSet(FlattenSeq(ss)) : x[1] \in {"limits", "confirm"}
  BY <1>3, <1>4
<1>6. ASSUME NEW c \in ToSet(channels)
      PROVE  /\ <<"limits", c, v, i>> \in ToSet(FlattenSeq(ss))
             /\ on => <<"confirm", c, v, i>> \in ToSet(FlattenSeq(ss))
  <2>1. PICK k \in DOMAIN channels : channels[k] = c
    BY DEF ToSet
  <2>2. <<"limits", c, v, i>> \in ToSet(ss[k]) /\ (on => <<"confirm", c, v, i>> \in ToSet(ss[k]))
    BY <1>3, <2>1
  <2> QED
    BY <1>4, <2>2
<1> QED
  BY <1>1, <1>4, <1>5, <1>6

\* The pair of setpoints for each of the channels.
LEMMA PairsAre ==
  ASSUME NEW model, NEW channels, IsTable(channels), NEW v, NEW i
  PROVE  LET writes == Pairs(model, channels, v, i) IN
         /\ IsTable(writes)
         /\ \A w \in ToSet(writes) :
              /\ w[2] \in ToSet(channels)
              /\ w[1] \in {"pair", "voltage"} => w[3] = v /\ v # NoValue
              /\ w[1] \in {"pair", "current"} => w[4] = i /\ i # NoValue
<1> DEFINE ss == [k \in DOMAIN channels |-> WritePair(model, channels[k], v, i)]
<1>1. Pairs(model, channels, v, i) = FlattenSeq(ss)
  BY DEF Each, Pairs
<1>2. ss = [k \in DOMAIN channels |-> ss[k]]
      /\ \A k \in DOMAIN channels : ss[k] = WritePair(model, channels[k], v, i) /\ channels[k] \in ToSet(channels)
  BY DEF ToSet
<1> HIDE DEF ss
<1>3. IsTable(FlattenSeq(ss)) /\ ToSet(FlattenSeq(ss)) = UNION {ToSet(ss[k]) : k \in DOMAIN channels}
  BY <1>2, PairWrites, EachTable
<1>4. ASSUME NEW w \in ToSet(FlattenSeq(ss))
      PROVE  /\ w[2] \in ToSet(channels)
             /\ w[1] \in {"pair", "voltage"} => w[3] = v /\ v # NoValue
             /\ w[1] \in {"pair", "current"} => w[4] = i /\ i # NoValue
  <2>1. PICK k \in DOMAIN channels : w \in ToSet(ss[k])
    BY <1>3
  <2> QED
    BY <1>2, <2>1, PairWrites
<1> QED
  BY <1>1, <1>3, <1>4

\* A check for every channel, then the pairs, then the switches.
LEMMA ApplyLaid ==
  ASSUME NEW r, NEW model, NEW channels, IsTable(channels), NEW p,
         NEW v, v \in Int \cup {NoValue}, NEW i, i \in Int \cup {NoValue}
  PROVE  Laid(r, ApplySteps(model, channels, p, v, i))
<1> DEFINE on == ~Flagged(p, "no_output")
           checks == PairChecks(channels, v, i, on)
           writes == Pairs(model, channels, v, i)
           switches == IF on THEN SwitchEach("on", channels) ELSE <<>>
<1>1. ApplySteps(model, channels, p, v, i) = checks \o writes \o switches
  BY DEF ApplySteps, PairChecks, Pairs
<1>2. on \in BOOLEAN
  BY DEF Flagged
<1>3. /\ IsTable(checks) /\ \A x \in ToSet(checks) : x[1] \notin Setting
      /\ \A c \in ToSet(channels) : <<"limits", c, v, i>> \in ToSet(checks)
  <2> HIDE DEF on
  <2> QED
    BY <1>2, PairChecksAre DEF Setting
<1>4. /\ IsTable(writes)
      /\ \A w \in ToSet(writes) :
           /\ w[2] \in ToSet(channels)
           /\ w[1] \in {"pair", "voltage"} => w[3] = v /\ v # NoValue
           /\ w[1] \in {"pair", "current"} => w[4] = i /\ i # NoValue
  BY PairsAre
<1>5. IsTable(switches) /\ \A x \in ToSet(switches) : x[1] \notin Setting
  BY SwitchesAre, SmallTables DEF Setting
<1> HIDE DEF checks, writes, switches, on
<1>6. ASSUME NEW w \in ToSet(writes) \cup ToSet(switches), w[1] \in Setting
      PROVE  \E x \in ToSet(checks) : Permits(r, x, w)
  <2>1. w \in ToSet(writes)
    BY <1>5, <1>6
  <2>2. Permits(r, <<"limits", w[2], v, i>>, w)
    BY <1>4, <2>1 DEF Permits, Covers
  <2>3. <<"limits", w[2], v, i>> \in ToSet(checks)
    BY <1>3, <1>4, <2>1
  <2> QED
    BY <2>2, <2>3
<1> QED
  BY <1>1, <1>3, <1>4, <1>5, <1>6, ChecksBefore

\* Each channel's programmed setpoints are checked and asked for.
LEMMA ProgrammedChecksAre ==
  ASSUME NEW channels, IsTable(channels), NEW b
  PROVE  /\ IsTable(CheckProgrammed(channels, b))
         /\ \A x \in ToSet(CheckProgrammed(channels, b)) : x[1] \in {"limits", "confirm"}
         /\ \A c \in ToSet(channels), kind \in {"limits", "confirm"} :
              <<kind, c, b.voltage[c], b.current[c]>> \in ToSet(CheckProgrammed(channels, b))
<1> DEFINE one(c) == <<<<"limits", c, b.voltage[c], b.current[c]>>>>
                       \o Confirmation(channels, c, b.voltage[c], b.current[c])
           ss == [k \in DOMAIN channels |-> one(channels[k])]
<1>1. CheckProgrammed(channels, b) = FlattenSeq(ss)
  BY DEF CheckProgrammed, Each
<1>2. ASSUME NEW c
      PROVE  /\ IsTable(one(c)) /\ \A x \in ToSet(one(c)) : x[1] \in {"limits", "confirm"}
             /\ \A kind \in {"limits", "confirm"} : <<kind, c, b.voltage[c], b.current[c]>> \in ToSet(one(c))
  <2> DEFINE asked == Confirmation(channels, c, b.voltage[c], b.current[c])
             check == <<<<"limits", c, b.voltage[c], b.current[c]>>>>
  <2>1. /\ IsTable(asked) /\ \A x \in ToSet(asked) : x[1] = "confirm"
        /\ <<"confirm", c, b.voltage[c], b.current[c]>> \in ToSet(asked)
    BY ConfirmationsAre
  <2>2. /\ IsTable(check) /\ \A x \in ToSet(check) : x[1] = "limits"
        /\ <<"limits", c, b.voltage[c], b.current[c]>> \in ToSet(check)
    BY SmallTables
  <2> HIDE DEF asked, check
  <2>3. IsTable(check \o asked) /\ ToSet(check \o asked) = ToSet(check) \cup ToSet(asked)
    BY <2>1, <2>2, JoinedTables
  <2>4. one(c) = check \o asked
    BY DEF asked, check
  <2> QED
    BY <2>1, <2>2, <2>3, <2>4
<1>3. /\ ss = [k \in DOMAIN channels |-> ss[k]]
      /\ \A k \in DOMAIN channels :
           /\ IsTable(ss[k]) /\ \A x \in ToSet(ss[k]) : x[1] \in {"limits", "confirm"}
           /\ \A kind \in {"limits", "confirm"} :
                <<kind, channels[k], b.voltage[channels[k]], b.current[channels[k]]>> \in ToSet(ss[k])
  <2> HIDE DEF one
  <2> QED
    BY <1>2
<1> HIDE DEF one, ss
<1>4. IsTable(FlattenSeq(ss)) /\ ToSet(FlattenSeq(ss)) = UNION {ToSet(ss[k]) : k \in DOMAIN channels}
  BY <1>3, EachTable
<1>6. \A x \in ToSet(FlattenSeq(ss)) : x[1] \in {"limits", "confirm"}
  BY <1>3, <1>4
<1>5. ASSUME NEW c \in ToSet(channels), NEW kind \in {"limits", "confirm"}
      PROVE  <<kind, c, b.voltage[c], b.current[c]>> \in ToSet(FlattenSeq(ss))
  <2>1. PICK k \in DOMAIN channels : channels[k] = c
    BY DEF ToSet
  <2>2. <<kind, c, b.voltage[c], b.current[c]>> \in ToSet(ss[k])
    BY <1>3, <2>1
  <2> QED
    BY <1>4, <2>2
<1> QED
  BY <1>1, <1>4, <1>5, <1>6

\* The commands that only check and switch.
LEMMA SwitchingLaid ==
  ASSUME NEW r, NEW channels, IsTable(channels), NEW b
  PROVE  /\ Laid(r, CheckProgrammed(channels, b) \o SwitchEach("on", channels))
         /\ Laid(r, CheckProgrammed(channels, b) \o SwitchEach("on", channels) \o SwitchEach("off", channels))
         /\ Laid(r, SwitchEach("channel", channels) \o SwitchEach("off", channels))
         /\ Laid(r, SwitchEach("off", channels)) /\ Laid(r, SwitchEach("channel", channels))
<1> DEFINE checks == CheckProgrammed(channels, b)
           on == SwitchEach("on", channels)
           off == SwitchEach("off", channels)
           looked == SwitchEach("channel", channels)
<1>1. /\ IsTable(checks) /\ \A x \in ToSet(checks) : x[1] \notin Setting
      /\ IsTable(on) /\ \A x \in ToSet(on) : x[1] \notin Setting
      /\ IsTable(off) /\ \A x \in ToSet(off) : x[1] \notin Setting
      /\ IsTable(looked) /\ \A x \in ToSet(looked) : x[1] \notin Setting
  BY ProgrammedChecksAre, SwitchesAre DEF Setting
<1> HIDE DEF checks, on, off, looked
<1>2. IsTable(checks \o on) /\ ToSet(checks \o on) = ToSet(checks) \cup ToSet(on)
  BY <1>1, JoinedTables
<1>3. IsTable(checks \o on \o off) /\ ToSet(checks \o on \o off) = ToSet(checks \o on) \cup ToSet(off)
  BY <1>1, <1>2, JoinedTables
<1>4. IsTable(looked \o off) /\ ToSet(looked \o off) = ToSet(looked) \cup ToSet(off)
  BY <1>1, JoinedTables
<1>5. Laid(r, checks \o on) /\ Laid(r, checks \o on \o off) /\ Laid(r, looked \o off)
  BY <1>1, <1>2, <1>3, <1>4, NothingWritten
<1>6. Laid(r, off) /\ Laid(r, looked)
  BY <1>1, NothingWritten
<1> QED
  BY <1>5, <1>6 DEF checks, on, off, looked

-----------------------------------------------------------------------------
(* Ramps and restores                                                      *)

\* Between two voltages, or at one, there is at least one, and all are numbers.
LEMMA VoltagesAre ==
  ASSUME NEW start \in Int, NEW stop \in Int, NEW step \in Int, step > 0
  PROVE  LET voltages == Voltages(start, stop, step) IN
         IsTable(voltages) /\ voltages # << >> /\ ToSet(voltages) \subseteq Int
<1> DEFINE up == IF stop >= start THEN 1 ELSE -1
           distance == up * (stop - start)
           count == (distance + step - 1) \div step
           at(k) == IF k > count THEN stop ELSE start + up * (k - 1) * step
           f == [k \in 1..count + 1 |-> at(k)]
<1>1. Voltages(start, stop, step) = f
  BY DEF Voltages
<1>2. distance \in Nat /\ up \in Int
  BY Z3
<1>3. count \in Nat
  <2> HIDE DEF distance
  <2>1. distance + step - 1 \in Nat
    BY <1>2
  <2> DEFINE a == distance + step - 1
  <2> HIDE DEF a
  <2>2. a \in Nat => a \div step \in Nat
    BY Z3
  <2> QED
    BY <2>1, <2>2 DEF a
<1> HIDE DEF count
<1>4. \A k \in 1..count + 1 : at(k) \in Int
  <2> HIDE DEF up
  <2>1. ASSUME NEW k \in 1..count + 1 PROVE up * (k - 1) * step \in Int
    BY <1>2, <1>3
  <2> QED
    BY <1>2, <1>3, <2>1
<1> HIDE DEF at
<1>5. f \in [1..count + 1 -> Int]
  BY <1>4
<1>6. f \in Seq(Int) /\ Len(f) = count + 1
  BY <1>3, <1>5, SeqDef, LenProperties
<1>7. f # << >>
  BY <1>3, <1>6, EmptySeq
<1>8. f \in Seq(ToSet(f)) /\ ToSet(f) \subseteq Int
  BY <1>6, OwnElements
<1> QED
  BY <1>1, <1>7, <1>8 DEF IsTable

\* What a ramp writes is covered by its checks.
LEMMA RampCovered ==
  ASSUME NEW r, NEW checks, NEW channels, NEW voltages, IsTable(voltages), voltages # << >>,
         ToSet(voltages) \subseteq Int, NEW current \in Int,
         \A c \in ToSet(channels), v \in ToSet(voltages) : <<"limits", c, v, current>> \in checks,
         NEW w, Ramping(channels, voltages, current, w), w[1] \in Setting
  PROVE  \E x \in checks : Permits(r, x, w)
<1>1. voltages[1] \in ToSet(voltages)
  BY FirstAndRest
<1> DEFINE v == IF w[1] = "current" THEN voltages[1] ELSE w[3]
<1>2. v \in ToSet(voltages) /\ w[2] \in ToSet(channels)
  BY <1>1 DEF Ramping, Setting
<1>3. Permits(r, <<"limits", w[2], v, current>>, w)
  BY <1>2 DEF Permits, Covers, Ramping, Setting
<1> QED
  BY <1>2, <1>3

\* The parameters of a ramp are numbers, and it moves.
RampTyped(p) ==
  /\ \A n \in {"start_voltage", "stop_voltage", "step_voltage", "current"} : p[n][2] \in Int
  /\ p["step_voltage"][2] > 0

\* All checks of a ramp come before its writes.
LEMMA RampLaid ==
  ASSUME NEW r, NEW model, NEW channels, IsTable(channels), channels # << >>, NEW p, RampTyped(p)
  PROVE  Laid(r, RampSteps(model, channels, p))
<1> DEFINE voltages == RampVoltages(p)
           current == p["current"][2]
           enable == Flagged(p, "enable_output")
           switches == IF enable THEN RampSwitches(model, channels) ELSE <<>>
           checks == RampChecks(channels, voltages, current, enable)
           writes == RampWrites(model, channels, voltages, current, switches)
<1>1. RampSteps(model, channels, p) = checks \o writes
  BY DEF RampSteps
<1>2. current \in Int /\ enable \in BOOLEAN
  BY DEF RampTyped, Flagged
<1>3. IsTable(voltages) /\ voltages # << >> /\ ToSet(voltages) \subseteq Int
  BY VoltagesAre DEF RampTyped, RampVoltages
<1>4. IsTable(switches) /\ \A x \in ToSet(switches) : x[1] \notin Setting
  <2>1. IsTable(<<channels[1]>>)
    BY SmallTables
  <2> QED
    BY <2>1, SwitchesAre, SmallTables DEF RampSwitches, Setting
<1> HIDE DEF voltages, current, enable, switches
<1>5. /\ IsTable(checks)
      /\ \A x \in ToSet(checks) : x[1] \in {"limits", "confirm"}
      /\ \A c \in ToSet(channels), v \in ToSet(voltages) : <<"limits", c, v, current>> \in ToSet(checks)
  BY <1>2, <1>3, RampChecksAre
<1>6. IsTable(writes) /\ \A w \in ToSet(writes) : Ramping(channels, voltages, current, w)
  BY <1>3, <1>4, RampWritesAre
<1> HIDE DEF checks, writes
<1>7. \A x \in ToSet(checks) : x[1] \notin Setting
  BY <1>5 DEF Setting
<1>8. \A w \in ToSet(writes) : w[1] \in Setting => \E x \in ToSet(checks) : Permits(r, x, w)
  BY <1>2, <1>3, <1>5, <1>6, RampCovered
<1> QED
  BY <1>1, <1>5, <1>6, <1>7, <1>8, ChecksFirst

\* A restore writes what is recorded, after the check of all of it.
LEMMA RestoreLaid ==
  ASSUME NEW r, r.command = "restore-from-snapshot", NEW d, d = r.parameters["document"][2],
         NEW channels, channels = RestoreChannels(d, r.parameters["channel"]), IsTable(channels)
  PROVE  Laid(r, RestoreSteps(d, channels, r.parameters))
<1> DEFINE p == r.parameters
           record(c) == RecordOf(d.readback, c)
           base(c) == <<At("off", c), <<"current", c, NoValue, record(c).current>>,
                        <<"voltage", c, record(c).voltage, NoValue>>>>
           last(c) == IF Flagged(p, "restore_output_state") /\ RecordOf(d.outputs, c).enabled
                      THEN <<At("on", c)>> ELSE <<>>
           one(c) == base(c) \o last(c)
           ss == [k \in DOMAIN channels |-> one(channels[k])]
           fit == <<At("fit", channels[1])>>
<1>1. RestoreSteps(d, channels, p) = fit \o FlattenSeq(ss)
  BY DEF RestoreSteps, Each
<1>2. ASSUME NEW c \in ToSet(channels)
      PROVE  IsTable(one(c)) /\ \A w \in ToSet(one(c)) : w[1] \in Setting => Recorded(r, w)
  <2> DEFINE off == At("off", c)
             current == <<"current", c, NoValue, record(c).current>>
             voltage == <<"voltage", c, record(c).voltage, NoValue>>
  <2>1. base(c) = <<off, current, voltage>>
    OBVIOUS
  <2>2. (off[1] \in Setting => Recorded(r, off)) /\ Recorded(r, current) /\ Recorded(r, voltage)
    BY DEF Recorded, Setting, At
  <2> HIDE DEF off, current, voltage, base
  <2>3. IsTable(base(c)) /\ \A w \in ToSet(base(c)) : w[1] \in Setting => Recorded(r, w)
    BY <2>1, <2>2, SmallTables
  <2>4. IsTable(last(c)) /\ \A x \in ToSet(last(c)) : x[1] \notin Setting
    BY SmallTables DEF At, Setting
  <2> HIDE DEF last
  <2>5. IsTable(base(c) \o last(c)) /\ ToSet(base(c) \o last(c)) = ToSet(base(c)) \cup ToSet(last(c))
    BY <2>3, <2>4, JoinedTables
  <2> QED
    BY <2>3, <2>4, <2>5
<1>3. ss = [k \in DOMAIN channels |-> ss[k]]
      /\ \A k \in DOMAIN channels :
           IsTable(ss[k]) /\ \A w \in ToSet(ss[k]) : w[1] \in Setting => Recorded(r, w)
  <2> HIDE DEF one
  <2>1. \A k \in DOMAIN channels : channels[k] \in ToSet(channels)
    BY DEF ToSet
  <2> QED
    BY <1>2, <2>1
<1> HIDE DEF ss
<1>4. IsTable(FlattenSeq(ss)) /\ ToSet(FlattenSeq(ss)) = UNION {ToSet(ss[k]) : k \in DOMAIN channels}
  BY <1>3, EachTable
<1>5. IsTable(fit) /\ ToSet(fit) = {At("fit", channels[1])}
  BY SmallTables
<1> HIDE DEF fit
<1>6. \A x \in ToSet(fit) : x[1] \notin Setting
  BY <1>5 DEF At, Setting
<1> DEFINE work == FlattenSeq(ss)
<1>7. ASSUME NEW w \in ToSet(work), w[1] \in Setting
      PROVE  \E x \in ToSet(fit) : Permits(r, x, w)
  <2>1. Recorded(r, w)
    BY <1>3, <1>4, <1>7
  <2>2. Permits(r, At("fit", channels[1]), w)
    BY <2>1 DEF Permits, At
  <2> QED
    BY <1>5, <2>2
<1>8. IsTable(work) /\ RestoreSteps(d, channels, p) = fit \o work
  BY <1>1, <1>4
<1> HIDE DEF work
<1> QED
  BY <1>5, <1>6, <1>7, <1>8, ChecksFirst

-----------------------------------------------------------------------------
(* Ramp lists *)

\* A segment has channels, and its numbers are numbers.
SegmentTyped(s) ==
  /\ IsTable(SegmentChannels(s)) /\ SegmentChannels(s) # << >>
  /\ ToSet(SegmentChannels(s)) \subseteq Int
  /\ \A n \in {"start_voltage", "stop_voltage", "step_voltage", "current"} : s[n] \in Int
  /\ s.step_voltage > 0

\* The elements of a table are finitely many.
LEMMA ElementsFinite == ASSUME NEW s, IsTable(s) PROVE IsFiniteSet(ToSet(s))
<1>1. s \in Seq(ToSet(s)) /\ Len(s) \in Nat /\ DOMAIN s = 1..Len(s)
  BY LenProperties DEF IsTable
<1>2. IsFiniteSet(1..Len(s))
  BY <1>1, FS_Interval
<1>3. s \in Surjection(1..Len(s), ToSet(s))
  <2>1. s \in [1..Len(s) -> ToSet(s)]
    BY <1>1
  <2> QED
    BY <1>1, <2>1 DEF Surjection, ToSet
<1> QED
  BY <1>2, <1>3, FS_Surjection

\* The channels of a segment in their order.
LEMMA SegmentOrdered ==
  ASSUME NEW s, SegmentTyped(s)
  PROVE  /\ IsTable(Ascending(ToSet(SegmentChannels(s)))) /\ Ascending(ToSet(SegmentChannels(s))) # << >>
         /\ ToSet(Ascending(ToSet(SegmentChannels(s)))) = ToSet(SegmentChannels(s))
<1>1. IsFiniteSet(ToSet(SegmentChannels(s)))
  BY ElementsFinite DEF SegmentTyped
<1>2. /\ IsTable(Ascending(ToSet(SegmentChannels(s))))
      /\ ToSet(Ascending(ToSet(SegmentChannels(s)))) = ToSet(SegmentChannels(s))
  BY <1>1, AscendingHasAll DEF SegmentTyped
<1>3. ToSet(SegmentChannels(s)) # {}
  BY FirstAndRest DEF SegmentTyped
<1>4. ToSet(<< >>) = {}
  BY SmallTables
<1> QED
  BY <1>2, <1>3, <1>4

\* The voltages of a segment.
LEMMA SegmentVoltagesAre ==
  ASSUME NEW s, SegmentTyped(s)
  PROVE  /\ IsTable(SegmentVoltages(s)) /\ SegmentVoltages(s) # << >>
         /\ ToSet(SegmentVoltages(s)) \subseteq Int
BY VoltagesAre DEF SegmentTyped, SegmentVoltages

\* The checks of a ramp list.
ListChecks(segments, enables) ==
  FlattenSeq([k \in DOMAIN segments |->
    RampChecks(Ascending(ToSet(SegmentChannels(segments[k]))), SegmentVoltages(segments[k]),
               segments[k].current, enables)])

\* Among them is one for every voltage of every channel of every segment.
LEMMA ListChecksAre ==
  ASSUME NEW segments, IsTable(segments), \A s \in ToSet(segments) : SegmentTyped(s), NEW enables \in BOOLEAN
  PROVE  /\ IsTable(ListChecks(segments, enables))
         /\ \A x \in ToSet(ListChecks(segments, enables)) : x[1] \in {"limits", "confirm"}
         /\ \A s \in ToSet(segments) :
              \A c \in ToSet(SegmentChannels(s)), v \in ToSet(SegmentVoltages(s)) :
                /\ <<"limits", c, v, s.current>> \in ToSet(ListChecks(segments, enables))
                /\ enables => <<"confirm", c, v, s.current>> \in ToSet(ListChecks(segments, enables))
<1> DEFINE one(s) == RampChecks(Ascending(ToSet(SegmentChannels(s))), SegmentVoltages(s), s.current, enables)
           ss == [k \in DOMAIN segments |-> one(segments[k])]
<1>1. ListChecks(segments, enables) = FlattenSeq(ss)
  BY DEF ListChecks
<1>2. ASSUME NEW s \in ToSet(segments)
      PROVE  /\ IsTable(one(s)) /\ \A x \in ToSet(one(s)) : x[1] \in {"limits", "confirm"}
             /\ \A c \in ToSet(SegmentChannels(s)), v \in ToSet(SegmentVoltages(s)) :
                  /\ <<"limits", c, v, s.current>> \in ToSet(one(s))
                  /\ enables => <<"confirm", c, v, s.current>> \in ToSet(one(s))
  <2> DEFINE channels == Ascending(ToSet(SegmentChannels(s)))
  <2>1. IsTable(channels) /\ ToSet(channels) = ToSet(SegmentChannels(s)) /\ IsTable(SegmentVoltages(s))
    BY SegmentOrdered, SegmentVoltagesAre
  <2> HIDE DEF channels
  <2>2. /\ IsTable(RampChecks(channels, SegmentVoltages(s), s.current, enables))
        /\ \A x \in ToSet(RampChecks(channels, SegmentVoltages(s), s.current, enables)) : x[1] \in {"limits", "confirm"}
        /\ \A c \in ToSet(channels), v \in ToSet(SegmentVoltages(s)) :
             /\ <<"limits", c, v, s.current>>
                  \in ToSet(RampChecks(channels, SegmentVoltages(s), s.current, enables))
             /\ enables => <<"confirm", c, v, s.current>>
                             \in ToSet(RampChecks(channels, SegmentVoltages(s), s.current, enables))
    BY <2>1, RampChecksAre
  <2> QED
    BY <2>1, <2>2 DEF channels
<1>3. ss = [k \in DOMAIN segments |-> ss[k]]
      /\ \A k \in DOMAIN segments :
           /\ IsTable(ss[k]) /\ \A x \in ToSet(ss[k]) : x[1] \in {"limits", "confirm"}
           /\ \A c \in ToSet(SegmentChannels(segments[k])), v \in ToSet(SegmentVoltages(segments[k])) :
                /\ <<"limits", c, v, segments[k].current>> \in ToSet(ss[k])
                /\ enables => <<"confirm", c, v, segments[k].current>> \in ToSet(ss[k])
  <2> HIDE DEF one
  <2>1. \A k \in DOMAIN segments : segments[k] \in ToSet(segments)
    BY DEF ToSet
  <2> QED
    BY <1>2, <2>1
<1> HIDE DEF one, ss
<1>4. IsTable(FlattenSeq(ss)) /\ ToSet(FlattenSeq(ss)) = UNION {ToSet(ss[k]) : k \in DOMAIN segments}
  BY <1>3, EachTable
<1>5. \A x \in ToSet(FlattenSeq(ss)) : x[1] \in {"limits", "confirm"}
  BY <1>3, <1>4
<1>6. ASSUME NEW s \in ToSet(segments), NEW c \in ToSet(SegmentChannels(s)), NEW v \in ToSet(SegmentVoltages(s))
      PROVE  /\ <<"limits", c, v, s.current>> \in ToSet(FlattenSeq(ss))
             /\ enables => <<"confirm", c, v, s.current>> \in ToSet(FlattenSeq(ss))
  <2>1. PICK k \in DOMAIN segments : segments[k] = s
    BY DEF ToSet
  <2>2. /\ <<"limits", c, v, s.current>> \in ToSet(ss[k])
        /\ enables => <<"confirm", c, v, s.current>> \in ToSet(ss[k])
    BY <1>3, <2>1
  <2> QED
    BY <1>4, <2>2
<1> QED
  BY <1>1, <1>4, <1>5, <1>6

\* What one segment of a list writes.
Listed(segments, w) ==
  w[1] \in Setting =>
    \E s \in ToSet(segments) :
      /\ w[2] \in ToSet(SegmentChannels(s))
      /\ w[1] \in {"pair", "voltage"} => w[3] \in ToSet(SegmentVoltages(s))
      /\ w[1] \in {"pair", "current"} => w[4] = s.current

\* It is covered by the checks.
LEMMA ListCovered ==
  ASSUME NEW r, NEW segments, IsTable(segments), \A s \in ToSet(segments) : SegmentTyped(s),
         NEW enables \in BOOLEAN, NEW w, Listed(segments, w), w[1] \in Setting
  PROVE  \E x \in ToSet(ListChecks(segments, enables)) : Permits(r, x, w)
<1>1. PICK s \in ToSet(segments) : Ramping(SegmentChannels(s), SegmentVoltages(s), s.current, w)
  BY DEF Listed, Ramping
<1>2. /\ IsTable(SegmentVoltages(s)) /\ SegmentVoltages(s) # << >>
      /\ ToSet(SegmentVoltages(s)) \subseteq Int /\ s.current \in Int
  BY SegmentVoltagesAre DEF SegmentTyped
<1>3. \A c \in ToSet(SegmentChannels(s)), v \in ToSet(SegmentVoltages(s)) :
        <<"limits", c, v, s.current>> \in ToSet(ListChecks(segments, enables))
  BY ListChecksAre
<1> QED
  BY <1>1, <1>2, <1>3, RampCovered

\* The first setpoints of the channels of a list are of its segments.
LEMMA PrestageAre ==
  ASSUME NEW segments, IsTable(segments), \A s \in ToSet(segments) : SegmentTyped(s),
         NEW channels, IsTable(channels),
         ToSet(channels) = UNION {ToSet(SegmentChannels(s)) : s \in ToSet(segments)}
  PROVE  /\ IsTable(Prestage(segments, channels))
         /\ \A w \in ToSet(Prestage(segments, channels)) : Listed(segments, w)
<1> DEFINE having(c) == {k \in DOMAIN segments : c \in ToSet(SegmentChannels(segments[k]))}
           first == [c \in ToSet(channels) |-> segments[Min(having(c))]]
           one(c) == <<<<"current", c, NoValue, first[c].current>>,
                       <<"voltage", c, SegmentVoltages(first[c])[1], NoValue>>>>
           ss == [k \in DOMAIN channels |-> one(channels[k])]
           last == <<At("on", channels[1])>>
<1>1. Prestage(segments, channels) = FlattenSeq(ss) \o last
  BY DEF Prestage, Each
<1>2. ASSUME NEW c \in ToSet(channels)
      PROVE  first[c] \in ToSet(segments) /\ c \in ToSet(SegmentChannels(first[c]))
  <2>1. DOMAIN segments = 1..Len(segments) /\ Len(segments) \in Nat
    BY LenProperties DEF IsTable
  <2>2. PICK s \in ToSet(segments) : c \in ToSet(SegmentChannels(s))
    OBVIOUS
  <2>3. PICK k \in DOMAIN segments : segments[k] = s
    BY DEF ToSet
  <2>4. k \in having(c) /\ having(c) \subseteq Nat
    BY <2>1, <2>2, <2>3
  <2>5. Min(having(c)) \in having(c)
    <3> HIDE DEF having
    <3> QED
      BY <2>4, LeastExists DEF Min
  <2>6. first[c] = segments[Min(having(c))]
    OBVIOUS
  <2> HIDE DEF first
  <2> QED
    BY <2>5, <2>6 DEF ToSet
<1> HIDE DEF first
<1>3. ASSUME NEW c \in ToSet(channels)
      PROVE  IsTable(one(c)) /\ \A w \in ToSet(one(c)) : Listed(segments, w)
  <2> DEFINE a == <<"current", c, NoValue, first[c].current>>
             b == <<"voltage", c, SegmentVoltages(first[c])[1], NoValue>>
  <2>1. SegmentVoltages(first[c])[1] \in ToSet(SegmentVoltages(first[c]))
    BY <1>2, SegmentVoltagesAre, FirstAndRest
  <2>2. Listed(segments, a) /\ Listed(segments, b)
    BY <1>2, <2>1 DEF Listed
  <2>3. one(c) = <<a, b>>
    OBVIOUS
  <2> HIDE DEF a, b
  <2> QED
    BY <2>2, <2>3, SmallTables
<1>4. ss = [k \in DOMAIN channels |-> ss[k]]
      /\ \A k \in DOMAIN channels : IsTable(ss[k]) /\ \A w \in ToSet(ss[k]) : Listed(segments, w)
  <2> HIDE DEF one
  <2>1. \A k \in DOMAIN channels : channels[k] \in ToSet(channels)
    BY DEF ToSet
  <2> QED
    BY <1>3, <2>1
<1> HIDE DEF ss
<1>5. IsTable(FlattenSeq(ss)) /\ ToSet(FlattenSeq(ss)) = UNION {ToSet(ss[k]) : k \in DOMAIN channels}
  BY <1>4, EachTable
<1>6. IsTable(last) /\ \A w \in ToSet(last) : Listed(segments, w)
  BY SmallTables DEF At, Listed, Setting
<1> HIDE DEF last
<1>7. IsTable(FlattenSeq(ss) \o last) /\ ToSet(FlattenSeq(ss) \o last) = ToSet(FlattenSeq(ss)) \cup ToSet(last)
  BY <1>5, <1>6, JoinedTables
<1> QED
  BY <1>1, <1>4, <1>5, <1>6, <1>7

\* All checks of a ramp list come before its writes.
LEMMA RampListLaid ==
  ASSUME NEW r, NEW model, NEW d, NEW p, IsTable(d.segments),
         \A s \in ToSet(d.segments) : SegmentTyped(s), Loops(d, p) \in Nat, NEW channels, IsTable(channels),
         ToSet(channels) = UNION {ToSet(SegmentChannels(s)) : s \in ToSet(d.segments)}
  PROVE  Laid(r, RampListSteps(model, channels, d, p))
<1> DEFINE segments == d.segments
           enables == EnablesOutput(d)
           named(k) == ToSet(SegmentChannels(segments[k]))
           ordered(k) == Ascending(named(k))
           staged == enables /\ model = E3646A
           fresh(k) == Ascending(named(k) \ UNION {named(j) : j \in 1..k - 1})
           switches(k, loop) == IF enables /\ ~staged /\ loop = 1 THEN SwitchEach("on", fresh(k)) ELSE <<>>
           one(k, loop) == RampWrites(model, ordered(k), SegmentVoltages(segments[k]),
                                      segments[k].current, switches(k, loop))
           inner == [loop \in 1..Loops(d, p) |-> [k \in DOMAIN segments |-> one(k, loop)]]
           ss == [loop \in 1..Loops(d, p) |-> FlattenSeq(inner[loop])]
           checks == ListChecks(segments, enables)
           first == IF staged THEN Prestage(segments, channels) ELSE <<>>
<1>0. enables \in BOOLEAN
  BY DEF EnablesOutput
<1>1. RampListSteps(model, channels, d, p) = checks \o first \o FlattenSeq(ss)
  BY DEF RampListSteps, ListChecks
<1>2. IsTable(checks) /\ \A x \in ToSet(checks) : x[1] \notin Setting
  BY <1>0, ListChecksAre DEF Setting
<1>3. IsTable(first) /\ \A w \in ToSet(first) : Listed(segments, w)
  BY PrestageAre, SmallTables
<1>4. ASSUME NEW k \in DOMAIN segments, NEW loop
      PROVE  IsTable(one(k, loop)) /\ \A w \in ToSet(one(k, loop)) : Listed(segments, w)
  <2> DEFINE s == segments[k]
             on == switches(k, loop)
  <2>1. s \in ToSet(segments)
    BY DEF ToSet
  <2>2. /\ IsTable(ordered(k)) /\ ordered(k) # << >> /\ ToSet(ordered(k)) = ToSet(SegmentChannels(s))
    BY <2>1, SegmentOrdered
  <2>3. IsTable(SegmentVoltages(s)) /\ SegmentVoltages(s) # << >>
    BY <2>1, SegmentVoltagesAre
  <2>4. IsTable(on) /\ \A x \in ToSet(on) : x[1] \notin Setting
    <3>1. IsFiniteSet(named(k)) /\ named(k) \subseteq Int
      BY <2>1, ElementsFinite DEF SegmentTyped
    <3>2. named(k) \ UNION {named(j) : j \in 1..k - 1} \in SUBSET named(k)
      OBVIOUS
    <3>3. IsTable(fresh(k))
      <4> DEFINE rest == named(k) \ UNION {named(j) : j \in 1..k - 1}
      <4>1. IsFiniteSet(rest) /\ rest \subseteq Int
        <5> HIDE DEF rest
        <5> QED
          BY <3>1, <3>2, FS_Subset DEF rest
      <4> HIDE DEF rest
      <4>2. IsTable(Ascending(rest))
        BY <4>1, AscendingHasAll
      <4> QED
        BY <4>2 DEF rest
    <3> HIDE DEF fresh
    <3> QED
      BY <3>3, SwitchesAre, SmallTables DEF Setting
  <2> HIDE DEF on
  <2> DEFINE writes == RampWrites(model, ordered(k), SegmentVoltages(s), s.current, on)
  <2>5. IsTable(writes) /\ \A w \in ToSet(writes) : Ramping(ordered(k), SegmentVoltages(s), s.current, w)
    <3> HIDE DEF ordered, s
    <3> QED
      BY <2>2, <2>3, <2>4, RampWritesAre
  <2>6. one(k, loop) = writes
    BY DEF on
  <2> HIDE DEF writes, one, ordered
  <2> QED
    BY <2>1, <2>2, <2>5, <2>6 DEF Listed, Ramping
<1> HIDE DEF one
<1>5. ASSUME NEW loop \in 1..Loops(d, p)
      PROVE  IsTable(ss[loop]) /\ \A w \in ToSet(ss[loop]) : Listed(segments, w)
  <2> DEFINE tt == [k \in DOMAIN segments |-> one(k, loop)]
  <2>1. /\ tt = [k \in DOMAIN segments |-> tt[k]]
        /\ \A k \in DOMAIN segments : IsTable(tt[k]) /\ \A w \in ToSet(tt[k]) : Listed(segments, w)
    BY <1>4
  <2>2. ss[loop] = FlattenSeq(tt)
    OBVIOUS
  <2> HIDE DEF tt, ss
  <2>3. IsTable(FlattenSeq(tt)) /\ ToSet(FlattenSeq(tt)) = UNION {ToSet(tt[k]) : k \in DOMAIN segments}
    BY <2>1, EachTable
  <2>4. ASSUME NEW w \in ToSet(FlattenSeq(tt)) PROVE Listed(segments, w)
    <3>1. PICK k \in DOMAIN segments : w \in ToSet(tt[k])
      BY <2>3
    <3> QED
      BY <2>1, <3>1
  <2>5. IsTable(ss[loop]) /\ ToSet(ss[loop]) = ToSet(FlattenSeq(tt))
    BY <2>2, <2>3
  <2> QED
    BY <2>4, <2>5
<1>6. ss = [loop \in 1..Loops(d, p) |-> ss[loop]]
  OBVIOUS
<1> HIDE DEF ss
<1>7. IsTable(FlattenSeq(ss)) /\ \A w \in ToSet(FlattenSeq(ss)) : Listed(segments, w)
  <2>1. /\ FlattenSeq(ss) \in Seq(ToSet(FlattenSeq(ss)))
        /\ ToSet(FlattenSeq(ss)) = UNION {ToSet(ss[loop]) : loop \in 1..Loops(d, p)}
    <3>1. Len(ss) = Loops(d, p)
      BY <1>6
    <3>2. \A loop \in 1..Loops(d, p) : ss[loop] \in Seq(ToSet(ss[loop]))
      BY <1>5 DEF IsTable
    <3> QED
      BY <1>6, <3>1, <3>2, FlattenElements
  <2> QED
    BY <1>5, <2>1 DEF IsTable
<1> DEFINE later == FlattenSeq(ss)
<1>8. IsTable(later) /\ \A w \in ToSet(later) : Listed(segments, w)
  BY <1>7
<1>9. RampListSteps(model, channels, d, p) = checks \o first \o later
  BY <1>1
<1> HIDE DEF first, later
<1>10. \A w \in ToSet(first) \cup ToSet(later) : w[1] \in Setting =>
         \E x \in ToSet(checks) : Permits(r, x, w)
  <2>1. \A w \in ToSet(first) \cup ToSet(later) : Listed(segments, w)
    BY <1>3, <1>8
  <2> HIDE DEF enables
  <2> QED
    BY <1>0, <2>1, ListCovered DEF checks
<1> HIDE DEF checks
<1> QED
  BY <1>2, <1>3, <1>8, <1>9, <1>10, ChecksBefore

-----------------------------------------------------------------------------
(* Sequences                                                               *)

\* Parameters select channels: a list of numbers, a number, or all.
Selects(p) ==
  IF "channels" \in DOMAIN p
  THEN /\ IsTable(p["channels"][2]) /\ p["channels"][2] # << >>
       /\ \A item \in ToSet(p["channels"][2]) : item[2] \in Int
  ELSE p["channel"] = All \/ p["channel"][2] \in Int

\* The channels that are selected, of an instrument that has some.
LEMMA ChannelsTable ==
  ASSUME NEW p, Selects(p), NEW supported, supported \subseteq Int, IsFiniteSet(supported), supported # {}
  PROVE  IsTable(ChannelsOf(p, supported)) /\ ChannelsOf(p, supported) # << >>
<1> DEFINE list == ToSet(p["channels"][2])
           numbers == {item[2] : item \in list}
           selected == IF "channels" \in DOMAIN p THEN numbers
                       ELSE IF p["channel"] = All THEN supported ELSE {p["channel"][2]}
<1>1. ChannelsOf(p, supported) = Ascending(selected)
  BY DEF ChannelsOf
<1>2. selected \subseteq Int /\ IsFiniteSet(selected) /\ selected # {}
  <2>1. CASE "channels" \in DOMAIN p
    <3>1. IsFiniteSet(list) /\ list # {}
      BY <2>1, ElementsFinite, FirstAndRest DEF Selects
    <3>2. [item \in list |-> item[2]] \in Surjection(list, numbers)
      BY DEF Surjection
    <3>3. IsFiniteSet(numbers)
      <4> HIDE DEF list, numbers
      <4> QED
        BY <3>1, <3>2, FS_Surjection
    <3>4. selected = numbers
      BY <2>1
    <3> QED
      BY <2>1, <3>1, <3>3, <3>4 DEF Selects
  <2>2. CASE "channels" \notin DOMAIN p /\ p["channel"] = All
    BY <2>2
  <2>3. CASE "channels" \notin DOMAIN p /\ p["channel"] # All
    <3>1. selected = {p["channel"][2]}
      BY <2>3
    <3> QED
      BY <2>3, <3>1, FS_Singleton DEF Selects
  <2> QED
    BY <2>1, <2>2, <2>3
<1> HIDE DEF selected
<1>3. IsTable(Ascending(selected)) /\ ToSet(Ascending(selected)) = selected
  BY <1>2, AscendingHasAll
<1>4. ToSet(<< >>) = {}
  BY SmallTables
<1> QED
  BY <1>1, <1>2, <1>3, <1>4

\* The steps of a sequence that writes setpoints.
StepTyped(step) ==
  step.action \notin HostOnly =>
    /\ Selects(StepParameters(step))
    /\ Programs(step) =>
         StepParameters(step)["voltage"][2] \in Int /\ StepParameters(step)["current"][2] \in Int

\* What a step of a sequence writes.
Programmed(steps, supported, w) ==
  w[1] \in Setting =>
    \E k \in DOMAIN steps :
      /\ Programs(steps[k]) /\ w[2] \in ToSet(ChannelsOfStep(steps[k], supported))
      /\ w[1] \in {"pair", "voltage"} => w[3] = StepParameters(steps[k])["voltage"][2]
      /\ w[1] \in {"pair", "current"} => w[4] = StepParameters(steps[k])["current"][2]

\* A step writes what it programs.
LEMMA StepWrites ==
  ASSUME NEW steps, NEW k \in DOMAIN steps, StepTyped(steps[k]), NEW model,
         NEW supported, supported \subseteq Int, IsFiniteSet(supported), supported # {}
  PROVE  /\ IsTable(SequenceStep(model, steps[k], supported))
         /\ \A w \in ToSet(SequenceStep(model, steps[k], supported)) : Programmed(steps, supported, w)
<1> DEFINE step == steps[k]
           p == StepParameters(step)
           channels == ChannelsOfStep(step, supported)
           on(c) == IF Enables(step) THEN <<At("on", c)>> ELSE <<>>
           pair(c) == WritePair(model, c, p["voltage"][2], p["current"][2])
           one(c) == pair(c) \o on(c)
           ss == [j \in DOMAIN channels |-> one(channels[j])]
           P(w) == Programmed(steps, supported, w)
<1>1. CASE step.action \in HostOnly
  <2>1. SequenceStep(model, step, supported) = << >>
    BY <1>1 DEF SequenceStep
  <2> QED
    BY <2>1, SmallTables
<1>2. CASE step.action \notin HostOnly /\ ~(ToSet(channels) \subseteq supported)
  <2>1. SequenceStep(model, step, supported) = <<At("reject", channels[1])>>
    BY <1>2 DEF SequenceStep
  <2>2. P(At("reject", channels[1]))
    BY DEF Programmed, At, Setting
  <2> QED
    BY <2>1, <2>2, SmallTables
<1>3. CASE step.action \notin HostOnly /\ ToSet(channels) \subseteq supported
  <2>1. IsTable(channels)
    BY <1>3, ChannelsTable DEF StepTyped, ChannelsOfStep
  <2>2. CASE Programs(step)
    <3>1. SequenceStep(model, step, supported) = FlattenSeq(ss)
      BY <1>3, <2>2 DEF SequenceStep, Each, Programs
    <3>2. ASSUME NEW c \in ToSet(channels)
          PROVE  IsTable(one(c)) /\ \A w \in ToSet(one(c)) : P(w)
      <4>1. /\ IsTable(pair(c))
            /\ \A w \in ToSet(pair(c)) :
                 /\ w[2] = c
                 /\ w[1] \in {"pair", "voltage"} => w[3] = p["voltage"][2]
                 /\ w[1] \in {"pair", "current"} => w[4] = p["current"][2]
        BY PairWrites
      <4>2. IsTable(on(c)) /\ \A x \in ToSet(on(c)) : x[1] = "on"
        BY SmallTables DEF At
      <4>3. \A w \in ToSet(pair(c)) : P(w)
        BY <2>2, <4>1 DEF Programmed
      <4>4. \A w \in ToSet(on(c)) : P(w)
        BY <4>2 DEF Programmed, Setting
      <4> HIDE DEF pair, on, P
      <4>5. IsTable(pair(c) \o on(c)) /\ ToSet(pair(c) \o on(c)) = ToSet(pair(c)) \cup ToSet(on(c))
        BY <4>1, <4>2, JoinedTables
      <4> QED
        BY <4>3, <4>4, <4>5
    <3>3. ss = [j \in DOMAIN channels |-> ss[j]]
          /\ \A j \in DOMAIN channels : IsTable(ss[j]) /\ \A w \in ToSet(ss[j]) : P(w)
      <4> HIDE DEF one, P
      <4>1. \A j \in DOMAIN channels : channels[j] \in ToSet(channels)
        BY DEF ToSet
      <4> QED
        BY <3>2, <4>1
    <3> HIDE DEF ss, P, channels
    <3>4. IsTable(FlattenSeq(ss)) /\ ToSet(FlattenSeq(ss)) = UNION {ToSet(ss[j]) : j \in DOMAIN channels}
      BY <2>1, <3>3, EachTable
    <3>5. \A w \in ToSet(FlattenSeq(ss)) : P(w)
      BY <3>3, <3>4
    <3> QED
      BY <3>1, <3>4, <3>5 DEF P
  <2>3. CASE ~Programs(step)
    <3> DEFINE all == SwitchEach("on", channels)
               none == SwitchEach("off", channels)
    <3>1. SequenceStep(model, step, supported) \in {all \o none, all, none, << >>}
      BY <1>3, <2>3 DEF SequenceStep
    <3>2. /\ IsTable(all) /\ \A x \in ToSet(all) : x[1] \notin Setting
          /\ IsTable(none) /\ \A x \in ToSet(none) : x[1] \notin Setting
      <4> HIDE DEF channels
      <4> QED
        BY <2>1, SwitchesAre DEF Setting
    <3> HIDE DEF all, none
    <3>3. IsTable(all \o none) /\ ToSet(all \o none) = ToSet(all) \cup ToSet(none)
      BY <3>2, JoinedTables
    <3>4. \A s \in {all \o none, all, none, << >>} : IsTable(s) /\ \A x \in ToSet(s) : x[1] \notin Setting
      BY <3>2, <3>3, SmallTables
    <3>5. /\ IsTable(SequenceStep(model, step, supported))
          /\ \A x \in ToSet(SequenceStep(model, step, supported)) : x[1] \notin Setting
      BY <3>1, <3>4
    <3> QED
      BY <3>5 DEF Programmed
  <2> QED
    BY <2>2, <2>3
<1> QED
  BY <1>1, <1>2, <1>3

\* Tables of some kinds of steps, one after the other.
LEMMA EachOfKinds ==
  ASSUME NEW kinds, NEW items, IsTable(items), NEW ss, ss = [k \in DOMAIN items |-> ss[k]],
         \A k \in DOMAIN items : IsTable(ss[k]) /\ \A x \in ToSet(ss[k]) : x[1] \in kinds
  PROVE  IsTable(FlattenSeq(ss)) /\ \A x \in ToSet(FlattenSeq(ss)) : x[1] \in kinds
<1>1. IsTable(FlattenSeq(ss)) /\ ToSet(FlattenSeq(ss)) = UNION {ToSet(ss[k]) : k \in DOMAIN items}
  BY EachTable
<1> QED
  BY <1>1

\* Before the first step of a sequence every pair it programs is checked.
LEMMA SequenceChecksAre ==
  ASSUME NEW steps, IsTable(steps), \A step \in ToSet(steps) : StepTyped(step), NEW b,
         NEW supported, supported \subseteq Int, IsFiniteSet(supported), supported # {}
  PROVE  LET checks == SequenceChecks(steps, supported, b) IN
         /\ IsTable(checks) /\ \A x \in ToSet(checks) : x[1] \in {"limits", "channel"}
         /\ \A k \in DOMAIN steps : Programs(steps[k]) =>
              \A c \in ToSet(ChannelsOfStep(steps[k], supported)) :
                <<"limits", c, StepParameters(steps[k])["voltage"][2], StepParameters(steps[k])["current"][2]>>
                  \in ToSet(checks)
         /\ \A k \in DOMAIN steps : Enables(steps[k]) =>
              \A c \in ToSet(ChannelsOfStep(steps[k], supported)) :
                (\A j \in 1..k : ~(Programs(steps[j]) /\ c \in ToSet(ChannelsOfStep(steps[j], supported))))
                  => <<"limits", c, b.voltage[c], b.current[c]>> \in ToSet(checks)
<1> DEFINE channels(k) == ChannelsOfStep(steps[k], supported)
           programmed(k, c) == {j \in 1..k : Programs(steps[j]) /\ c \in ToSet(channels(j))}
           p(k, c) == StepParameters(steps[Max(programmed(k, c))])
           pair(k, c) == IF programmed(k, c) = {} THEN <<b.voltage[c], b.current[c]>>
                         ELSE <<p(k, c)["voltage"][2], p(k, c)["current"][2]>>
           check(k, c) == <<"limits", c, pair(k, c)[1], pair(k, c)[2]>>
           ofChannels(k) == [j \in DOMAIN channels(k) |-> <<check(k, channels(k)[j])>>]
           checks(k) == FlattenSeq(ofChannels(k))
           off == [k \in DOMAIN steps |->
                    IF steps[k].action = "output-off" THEN SwitchEach("channel", channels(k)) ELSE <<>>]
           one(k) == (IF Programs(steps[k]) THEN checks(k) ELSE <<>>)
                       \o (IF Enables(steps[k]) THEN checks(k) ELSE <<>>)
           all == [k \in DOMAIN steps |-> one(k)]
<1>1. SequenceChecks(steps, supported, b) = FlattenSeq(off) \o FlattenSeq(all)
  BY DEF SequenceChecks, Each
<1>2. DOMAIN steps = 1..Len(steps) /\ Len(steps) \in Nat /\ \A k \in DOMAIN steps : steps[k] \in ToSet(steps)
  BY LenProperties DEF IsTable, ToSet
<1>3. ASSUME NEW k \in DOMAIN steps, steps[k].action \notin HostOnly PROVE IsTable(channels(k))
  BY <1>2, <1>3, ChannelsTable DEF StepTyped, ChannelsOfStep
<1> HIDE DEF channels, check
<1>4. ASSUME NEW k \in DOMAIN steps, IsTable(channels(k))
      PROVE  /\ IsTable(checks(k)) /\ ToSet(checks(k)) = {check(k, c) : c \in ToSet(channels(k))}
  <2> DEFINE tt == ofChannels(k)
             items == channels(k)
  <2>1. /\ tt = [j \in DOMAIN items |-> tt[j]]
        /\ \A j \in DOMAIN items : IsTable(tt[j]) /\ ToSet(tt[j]) = {check(k, items[j])}
    BY SmallTables
  <2>2. checks(k) = FlattenSeq(tt)
    OBVIOUS
  <2> HIDE DEF tt, checks, items
  <2>3. IsTable(FlattenSeq(tt)) /\ ToSet(FlattenSeq(tt)) = UNION {ToSet(tt[j]) : j \in DOMAIN items}
    BY <1>4, <2>1, EachTable DEF items
  <2>4. ToSet(FlattenSeq(tt)) = {check(k, c) : c \in ToSet(items)}
    <3>1. ASSUME NEW x \in ToSet(FlattenSeq(tt)) PROVE x \in {check(k, c) : c \in ToSet(items)}
      <4>1. PICK j \in DOMAIN items : x = check(k, items[j])
        BY <2>1, <2>3
      <4> QED
        BY <4>1 DEF ToSet
    <3>2. ASSUME NEW c \in ToSet(items) PROVE check(k, c) \in ToSet(FlattenSeq(tt))
      <4>1. PICK j \in DOMAIN items : c = items[j]
        BY DEF ToSet
      <4> QED
        BY <2>1, <2>3, <4>1
    <3> QED
      BY <3>1, <3>2
  <2> QED
    BY <2>2, <2>3, <2>4 DEF items
<1> HIDE DEF checks
<1>5. \A k, c : check(k, c)[1] \in {"limits", "channel"}
  BY DEF check
<1>6. ASSUME NEW k \in DOMAIN steps
      PROVE  /\ IsTable(one(k)) /\ \A x \in ToSet(one(k)) : x[1] \in {"limits", "channel"}
             /\ Programs(steps[k]) \/ Enables(steps[k]) =>
                  \A c \in ToSet(channels(k)) : check(k, c) \in ToSet(one(k))
  <2>1. CASE Programs(steps[k]) \/ Enables(steps[k])
    <3>1. IsTable(checks(k)) /\ ToSet(checks(k)) = {check(k, c) : c \in ToSet(channels(k))}
      <4>1. steps[k].action \notin HostOnly
        BY <2>1 DEF Programs, Enables, HostOnly
      <4> QED
        BY <1>3, <1>4, <4>1
    <3> DEFINE first == IF Programs(steps[k]) THEN checks(k) ELSE <<>>
               second == IF Enables(steps[k]) THEN checks(k) ELSE <<>>
    <3>2. IsTable(first) /\ IsTable(second) /\ ToSet(first) \subseteq ToSet(checks(k))
          /\ ToSet(second) \subseteq ToSet(checks(k)) /\ (Programs(steps[k]) => first = checks(k))
          /\ (Enables(steps[k]) => second = checks(k))
      BY <3>1, SmallTables
    <3>3. one(k) = first \o second
      OBVIOUS
    <3> HIDE DEF first, second, one
    <3>4. IsTable(first \o second) /\ ToSet(first \o second) = ToSet(first) \cup ToSet(second)
      BY <3>2, JoinedTables
    <3>5. \A x \in ToSet(checks(k)) : x[1] \in {"limits", "channel"}
      BY <1>5, <3>1
    <3> QED
      BY <2>1, <3>1, <3>2, <3>3, <3>4, <3>5
  <2>2. CASE ~(Programs(steps[k]) \/ Enables(steps[k]))
    <3>1. one(k) = <<>> \o <<>>
      BY <2>2
    <3>2. IsTable(<<>> \o <<>>) /\ ToSet(<<>> \o <<>>) = {}
      BY JoinedTables, SmallTables
    <3> HIDE DEF one
    <3> QED
      BY <2>2, <3>1, <3>2
  <2> QED
    BY <2>1, <2>2
<1>7. IsTable(FlattenSeq(off)) /\ \A x \in ToSet(FlattenSeq(off)) : x[1] \in {"limits", "channel"}
  <2>1. ASSUME NEW k \in DOMAIN steps PROVE IsTable(off[k]) /\ \A x \in ToSet(off[k]) : x[1] \in {"limits", "channel"}
    <3>1. CASE steps[k].action = "output-off"
      <4>1. IsTable(channels(k))
        BY <1>3, <3>1 DEF HostOnly
      <4>2. off[k] = SwitchEach("channel", channels(k))
        BY <3>1
      <4> HIDE DEF off
      <4> QED
        BY <4>1, <4>2, SwitchesAre
    <3>2. CASE steps[k].action # "output-off"
      BY <3>2, SmallTables
    <3> QED
      BY <3>1, <3>2
  <2>2. off = [k \in DOMAIN steps |-> off[k]]
    OBVIOUS
  <2> HIDE DEF off
  <2> QED
    BY <2>1, <2>2, EachOfKinds
<1>8. /\ all = [k \in DOMAIN steps |-> all[k]]
      /\ \A k \in DOMAIN steps : all[k] = one(k)
  OBVIOUS
<1> HIDE DEF one, all, off
<1>9. IsTable(FlattenSeq(all)) /\ ToSet(FlattenSeq(all)) = UNION {ToSet(all[k]) : k \in DOMAIN steps}
  BY <1>6, <1>8, EachTable
<1>10. \A x \in ToSet(FlattenSeq(all)) : x[1] \in {"limits", "channel"}
  BY <1>6, <1>8, <1>9
<1>11. /\ IsTable(FlattenSeq(off) \o FlattenSeq(all))
       /\ ToSet(FlattenSeq(off) \o FlattenSeq(all)) = ToSet(FlattenSeq(off)) \cup ToSet(FlattenSeq(all))
  BY <1>7, <1>9, JoinedTables
<1>12. ASSUME NEW k \in DOMAIN steps, Programs(steps[k]), NEW c \in ToSet(channels(k))
       PROVE  <<"limits", c, StepParameters(steps[k])["voltage"][2], StepParameters(steps[k])["current"][2]>>
                \in ToSet(FlattenSeq(all))
  <2>1. k \in programmed(k, c) /\ programmed(k, c) \subseteq 1..k /\ k \in Nat
    BY <1>2, <1>12
  <2>2. Max(programmed(k, c)) = k
    <3> HIDE DEF programmed
    <3>1. Max(programmed(k, c)) \in programmed(k, c) /\ \A m \in programmed(k, c) : m <= Max(programmed(k, c))
      BY <2>1, GreatestExists
    <3> QED
      BY <2>1, <3>1
  <2>3. check(k, c) = <<"limits", c, StepParameters(steps[k])["voltage"][2], StepParameters(steps[k])["current"][2]>>
    <3> HIDE DEF programmed
    <3> QED
      BY <2>1, <2>2 DEF check
  <2>4. check(k, c) \in ToSet(all[k])
    BY <1>6, <1>8, <1>12
  <2> QED
    BY <1>9, <2>3, <2>4
<1>13. ASSUME NEW k \in DOMAIN steps, Programs(steps[k]), NEW c \in ToSet(ChannelsOfStep(steps[k], supported))
       PROVE  <<"limits", c, StepParameters(steps[k])["voltage"][2], StepParameters(steps[k])["current"][2]>>
                \in ToSet(FlattenSeq(off) \o FlattenSeq(all))
  BY <1>11, <1>12, <1>13 DEF channels
<1>14. ASSUME NEW k \in DOMAIN steps, Enables(steps[k]), NEW c \in ToSet(ChannelsOfStep(steps[k], supported)),
              \A j \in 1..k : ~(Programs(steps[j]) /\ c \in ToSet(ChannelsOfStep(steps[j], supported)))
       PROVE  <<"limits", c, b.voltage[c], b.current[c]>> \in ToSet(FlattenSeq(off) \o FlattenSeq(all))
  <2>1. programmed(k, c) = {} /\ c \in ToSet(channels(k))
    BY <1>14 DEF channels
  <2>2. check(k, c) = <<"limits", c, b.voltage[c], b.current[c]>>
    <3> HIDE DEF programmed
    <3> QED
      BY <2>1 DEF check
  <2>3. check(k, c) \in ToSet(all[k])
    BY <1>6, <1>8, <1>14, <2>1
  <2> QED
    BY <1>9, <1>11, <2>2, <2>3
<1> QED
  BY <1>1, <1>7, <1>10, <1>11, <1>13, <1>14

\* All checks of a sequence come before its steps.
LEMMA SequenceLaid ==
  ASSUME NEW r, NEW model, NEW d, NEW p, NEW b, IsTable(d.steps), Loops(d, p) \in Nat,
         \A step \in ToSet(d.steps) : StepTyped(step),
         ModelChannels[model] \subseteq Int, IsFiniteSet(ModelChannels[model]), ModelChannels[model] # {}
  PROVE  Laid(r, SequenceSteps(model, d, p, b))
<1> DEFINE steps == d.steps
           supported == ModelChannels[model]
           checks == SequenceChecks(steps, supported, b)
           tt == [k \in DOMAIN steps |-> SequenceStep(model, steps[k], supported)]
           ss == [loop \in 1..Loops(d, p) |-> FlattenSeq(tt)]
           P(w) == Programmed(steps, supported, w)
<1>1. SequenceSteps(model, d, p, b) = checks \o FlattenSeq(ss)
  BY DEF SequenceSteps, Each
<1>2. /\ IsTable(checks) /\ \A x \in ToSet(checks) : x[1] \notin Setting
      /\ \A k \in DOMAIN steps : Programs(steps[k]) =>
           \A c \in ToSet(ChannelsOfStep(steps[k], supported)) :
             <<"limits", c, StepParameters(steps[k])["voltage"][2], StepParameters(steps[k])["current"][2]>>
               \in ToSet(checks)
  BY SequenceChecksAre DEF Setting
<1>3. \A k \in DOMAIN steps : StepTyped(steps[k])
  BY DEF ToSet
<1>4. tt = [k \in DOMAIN steps |-> tt[k]] /\ \A k \in DOMAIN steps : IsTable(tt[k]) /\ \A w \in ToSet(tt[k]) : P(w)
  BY <1>3, StepWrites
<1>5. ss = [loop \in 1..Loops(d, p) |-> ss[loop]] /\ \A loop \in 1..Loops(d, p) : ss[loop] = FlattenSeq(tt)
  OBVIOUS
<1> HIDE DEF tt, checks, ss, P
<1>6. IsTable(FlattenSeq(tt)) /\ ToSet(FlattenSeq(tt)) = UNION {ToSet(tt[k]) : k \in DOMAIN steps}
  BY <1>4, EachTable
<1>7. \A w \in ToSet(FlattenSeq(tt)) : P(w)
  BY <1>4, <1>6
<1>8. IsTable(FlattenSeq(ss)) /\ \A w \in ToSet(FlattenSeq(ss)) : P(w)
  <2>1. Len(ss) = Loops(d, p)
    BY <1>5
  <2>2. \A loop \in 1..Loops(d, p) : ss[loop] \in Seq(ToSet(ss[loop]))
    BY <1>5, <1>6 DEF IsTable
  <2>3. /\ FlattenSeq(ss) \in Seq(ToSet(FlattenSeq(ss)))
        /\ ToSet(FlattenSeq(ss)) = UNION {ToSet(ss[loop]) : loop \in 1..Loops(d, p)}
    BY <1>5, <2>1, <2>2, FlattenElements
  <2> QED
    BY <1>5, <1>7, <2>3 DEF IsTable
<1>9. ASSUME NEW w \in ToSet(FlattenSeq(ss)), w[1] \in Setting
      PROVE  \E x \in ToSet(checks) : Permits(r, x, w)
  <2>1. PICK k \in DOMAIN steps :
          /\ Programs(steps[k]) /\ w[2] \in ToSet(ChannelsOfStep(steps[k], supported))
          /\ w[1] \in {"pair", "voltage"} => w[3] = StepParameters(steps[k])["voltage"][2]
          /\ w[1] \in {"pair", "current"} => w[4] = StepParameters(steps[k])["current"][2]
    BY <1>8, <1>9 DEF P, Programmed
  <2> DEFINE v == StepParameters(steps[k])["voltage"][2]
             i == StepParameters(steps[k])["current"][2]
  <2>2. v \in Int /\ i \in Int
    BY <1>3, <2>1 DEF StepTyped, Programs, HostOnly
  <2>3. <<"limits", w[2], v, i>> \in ToSet(checks)
    BY <1>2, <2>1
  <2> HIDE DEF v, i
  <2>4. Permits(r, <<"limits", w[2], v, i>>, w)
    BY <2>1, <2>2 DEF Permits, Covers, v, i
  <2> QED
    BY <2>3, <2>4
<1> QED
  BY <1>1, <1>2, <1>8, <1>9, ChecksFirst

-----------------------------------------------------------------------------
(* Limits: what is stated is in force, what passes is rated                *)

\* What the narrower layer states is in force, and the wider one where it is silent.
LEMMA Merged ==
  ASSUME NEW base, NEW override, NEW field
  PROVE  LET m == MergeLimits(base, override) IN
         /\ field \in DOMAIN m <=> field \in DOMAIN base \/ field \in DOMAIN override
         /\ field \in DOMAIN override => m[field] = override[field]
         /\ field \in DOMAIN base /\ field \notin DOMAIN override => m[field] = base[field]
BY DEF MergeLimits

\* The layer of a model is that of its last table.
LEMMA LastTable ==
  ASSUME NEW d \in Docs, NEW model, model # NoValue, NEW k \in DOMAIN Tables(d, "models"),
         Upper[Tables(d, "models")[k].name] = Upper[model],
         \A y \in DOMAIN Tables(d, "models") :
           Upper[Tables(d, "models")[y].name] = Upper[model] => y <= k
  PROVE  ModelLimits(d, model) = Tables(d, "models")[k].limits
<1> DEFINE models == Tables(d, "models")
           spelled == {y \in DOMAIN models : model # NoValue /\ Upper[models[y].name] = Upper[model]}
<1>1. models \in Seq(ToSet(models))
  BY DocsAssumption DEF IsTable
<1>2. DOMAIN models = 1..Len(models) /\ Len(models) \in Nat
  BY <1>1, LenProperties
<1>3. k \in spelled /\ spelled \subseteq 1..Len(models)
  BY <1>2
<1>4. Max(spelled) \in spelled /\ \A m \in spelled : m <= Max(spelled)
  <2> HIDE DEF spelled, models
  <2> QED
    BY <1>2, <1>3, GreatestExists
<1>5. Max(spelled) <= k /\ k <= Max(spelled) /\ k \in Int /\ Max(spelled) \in Int
  BY <1>2, <1>3, <1>4
<1>6. Max(spelled) = k
  BY <1>5
<1> QED
  BY <1>3, <1>6 DEF ModelLimits

\* No two entries of a document that parses are for one resource.
LEMMA OneEntry ==
  ASSUME NEW d \in Docs, DocumentParses(d), NEW resource, NEW alias,
         NEW e \in EntriesFor(d, resource, alias)
  PROVE  EntryFor(d, resource, alias) = e
<1> DEFINE entries == Tables(d, "resources")
<1>1. EntryFor(d, resource, alias) \in EntriesFor(d, resource, alias)
  BY DEF EntryFor
<1>2. PICK i \in DOMAIN entries : entries[i] = e
  BY DEF EntriesFor, ToSet
<1>3. PICK j \in DOMAIN entries : entries[j] = EntryFor(d, resource, alias)
  BY <1>1 DEF EntriesFor, ToSet
<1>4. i # j => entries[i].alias # entries[j].alias /\ entries[i].resource # entries[j].resource
  BY DEF DocumentParses, ResourcesParse
<1>5. \/ e.alias = EntryFor(d, resource, alias).alias
      \/ e.resource = EntryFor(d, resource, alias).resource
  BY <1>1 DEF EntriesFor
<1> QED
  BY <1>2, <1>3, <1>4, <1>5

\* The resource a request is looked up by.
Looked(r) == IF r.alias # NoValue THEN NoValue ELSE r.runtime.resource

\* A limit that is the most specific statement is the limit in force.
LEMMA StatedIsInForce ==
  ASSUME NEW d \in Docs, DocumentParses(d), NEW r, NEW c, bench.name # NoValue,
         NEW field, NEW limit \in Stated(d, r, c, field)
  PROVE  LET limits == EffectiveLimits(d, Looked(r), r.alias, bench.name, c) IN
         field \in DOMAIN limits /\ limits[field] = limit
<1> DEFINE entries == EntriesFor(d, Looked(r), r.alias)
           e0 == EntryFor(d, Looked(r), r.alias)
           global == GlobalLimits(d)
           model == ModelLimits(d, bench.name)
           base == MergeLimits(global, model)
           resource == MergeLimits(base, e0.limits)
           limits == EffectiveLimits(d, Looked(r), r.alias, bench.name, c)
           models == Tables(d, "models")
           spelled == {k \in DOMAIN models : Upper[models[k].name] = Upper[bench.name]}
           ofChannel == {e.channels[c][field] : e \in {x \in entries : c \in DOMAIN x.channels
                                                                    /\ field \in DOMAIN x.channels[c]}}
           ofResource == {e.limits[field] : e \in {x \in entries : field \in DOMAIN x.limits}}
           ofModel == {models[k].limits[field] : k \in {x \in spelled :
                         field \in DOMAIN models[x].limits /\ \A y \in spelled : y <= x}}
           ofAll == IF field \in DOMAIN global THEN {global[field]} ELSE {}
<1>1. entries = {e \in ToSet(Tables(d, "resources")) :
                   IF r.alias # NoValue THEN e.alias = r.alias ELSE e.resource = r.runtime.resource}
  BY DEF EntriesFor, Looked
<1>2. limit \in (IF ofChannel # {} THEN ofChannel ELSE IF ofResource # {} THEN ofResource
                 ELSE IF ofModel # {} THEN ofModel ELSE ofAll)
  BY <1>1 DEF Stated
<1>3. \A e \in entries : e = e0
  BY OneEntry
<1>4. limits = IF entries = {} THEN base ELSE MergeLimits(resource, ChannelLimits(e0, c))
  BY DEF EffectiveLimits
<1>5. ASSUME NEW m \in ofModel PROVE field \in DOMAIN model /\ model[field] = m
  <2>1. PICK k \in spelled : /\ m = models[k].limits[field] /\ field \in DOMAIN models[k].limits
                             /\ \A y \in spelled : y <= k
    OBVIOUS
  <2>2. model = models[k].limits
    BY <2>1, LastTable
  <2> QED
    BY <2>1, <2>2
<1>6. ofModel = {} => field \notin DOMAIN model
  <2> SUFFICES ASSUME field \in DOMAIN model PROVE ofModel # {}
    OBVIOUS
  <2>1. models \in Seq(ToSet(models))
    BY DocsAssumption DEF IsTable
  <2>2. DOMAIN models = 1..Len(models) /\ Len(models) \in Nat
    BY <2>1, LenProperties
  <2>3. spelled # {}
    <3>1. DOMAIN NoLimits = {}
      BY DEF NoLimits
    <3> QED
      BY <3>1 DEF ModelLimits
  <2>4. spelled \subseteq 1..Len(models)
    BY <2>2
  <2>5. Max(spelled) \in spelled /\ \A y \in spelled : y <= Max(spelled)
    <3> HIDE DEF spelled, models
    <3> QED
      BY <2>2, <2>3, <2>4, GreatestExists
  <2>6. model = models[Max(spelled)].limits
    BY <2>5, LastTable
  <2> QED
    BY <2>5, <2>6
<1> HIDE DEF ofModel, spelled, models, model, global
<1>7. ASSUME ofModel # {} \/ field \notin DOMAIN model, limit \in (IF ofModel # {} THEN ofModel ELSE ofAll)
      PROVE  field \in DOMAIN base /\ base[field] = limit
  BY <1>5, <1>6, <1>7, Merged
<1> HIDE DEF base, ofAll
<1>8. CASE entries = {}
  <2>1. ofChannel = {} /\ ofResource = {}
    BY <1>8
  <2> QED
    BY <1>2, <1>4, <1>6, <1>7, <1>8, <2>1
<1>9. CASE entries # {}
  <2>1. entries = {e0}
    BY <1>3, <1>9
  <2> DEFINE channel == ChannelLimits(e0, c)
  <2>2. limits = MergeLimits(resource, channel)
    BY <1>4, <1>9
  <2>3. ofChannel = IF c \in DOMAIN e0.channels /\ field \in DOMAIN e0.channels[c]
                    THEN {e0.channels[c][field]} ELSE {}
    BY <2>1
  <2>4. ofResource = IF field \in DOMAIN e0.limits THEN {e0.limits[field]} ELSE {}
    BY <2>1
  <2>5. DOMAIN NoLimits = {}
    BY DEF NoLimits
  <2>6. CASE field \in DOMAIN channel
    <3>1. limit = channel[field]
      BY <1>2, <2>3, <2>5, <2>6 DEF ChannelLimits
    <3> QED
      BY <2>2, <2>6, <3>1, Merged
  <2>7. CASE field \notin DOMAIN channel
    <3>1. ofChannel = {}
      BY <2>3, <2>7 DEF ChannelLimits
    <3>2. field \in DOMAIN resource /\ resource[field] = limit
      <4>1. CASE field \in DOMAIN e0.limits
        <5>1. limit = e0.limits[field]
          BY <1>2, <2>4, <3>1, <4>1
        <5> QED
          BY <4>1, <5>1, Merged
      <4>2. CASE field \notin DOMAIN e0.limits
        <5>1. limit \in (IF ofModel # {} THEN ofModel ELSE ofAll)
          BY <1>2, <2>4, <3>1, <4>2
        <5> QED
          <6>1. field \in DOMAIN base /\ base[field] = limit
            BY <1>6, <1>7, <5>1
          <6> QED
            BY <4>2, <6>1, Merged
      <4> QED
        BY <4>1, <4>2
    <3> QED
      BY <2>2, <2>7, <3>2, Merged
  <2> QED
    BY <2>6, <2>7
<1> QED
  BY <1>8, <1>9

\* The limits in force are numbers.
LEMMA LimitsAreNumbers ==
  ASSUME NEW d \in Docs, NEW resource, NEW alias, NEW model, NEW c
  PROVE  Numbers(EffectiveLimits(d, resource, alias, model, c))
<1> DEFINE entry == EntryFor(d, resource, alias)
           models == Tables(d, "models")
           spelled == {k \in DOMAIN models : model # NoValue /\ Upper[models[k].name] = Upper[model]}
<1>1. ASSUME NEW base, NEW override, Numbers(base), Numbers(override)
      PROVE  Numbers(MergeLimits(base, override))
  BY <1>1 DEF MergeLimits, Numbers
<1>2. Numbers(NoLimits)
  BY DEF Numbers, NoLimits
<1>3. Numbers(GlobalLimits(d)) /\ \A m \in ToSet(models) : Numbers(m.limits)
  BY DocsAssumption
<1>4. Numbers(ModelLimits(d, model))
  <2>1. CASE spelled = {}
    BY <1>2, <2>1 DEF ModelLimits
  <2>2. CASE spelled # {}
    <3>1. models \in Seq(ToSet(models))
      BY DocsAssumption DEF IsTable
    <3>2. spelled \subseteq 1..Len(models) /\ Len(models) \in Nat /\ DOMAIN models = 1..Len(models)
      BY <3>1, LenProperties
    <3>3. Max(spelled) \in spelled
      <4> HIDE DEF spelled, models
      <4> QED
        BY <2>2, <3>2, GreatestExists
    <3>4. models[Max(spelled)] \in ToSet(models)
      BY <3>3 DEF ToSet
    <3> QED
      BY <1>3, <2>2, <3>4 DEF ModelLimits
  <2> QED
    BY <2>1, <2>2
<1>5. CASE EntriesFor(d, resource, alias) = {}
  BY <1>1, <1>3, <1>4, <1>5 DEF EffectiveLimits
<1>6. CASE EntriesFor(d, resource, alias) # {}
  <2>1. entry \in ToSet(Tables(d, "resources"))
    BY <1>6 DEF EntryFor, EntriesFor
  <2>2. Numbers(entry.limits) /\ \A x \in DOMAIN entry.channels : Numbers(entry.channels[x])
    BY <2>1, DocsAssumption
  <2>3. Numbers(ChannelLimits(entry, c))
    BY <1>2, <2>2 DEF ChannelLimits
  <2>4. Numbers(MergeLimits(MergeLimits(MergeLimits(GlobalLimits(d), ModelLimits(d, model)), entry.limits),
                            ChannelLimits(entry, c)))
    BY <1>1, <1>3, <1>4, <2>2, <2>3
  <2> QED
    BY <1>6, <2>4 DEF EffectiveLimits
<1> QED
  BY <1>5, <1>6

\* What a check of limits asks of a configuration.
Passes(d, r, b, c, v, i) ==
  LET read == RequestSafetyLimits(d, r.configured, r.runtime.resource, r.alias, b.name, c) IN
  /\ read.ok
  /\ ValidateSetpoint(read.limits, c, v, i)
  /\ ValidateEffectiveSetpoint(Detected(b), read.limits, c, v, i)

\* The configuration a request is read with.
LEMMA ConfigurationRead ==
  ASSUME NEW d, NEW r, NEW model, NEW c, r.configured,
         RequestSafetyLimits(d, r.configured, r.runtime.resource, r.alias, model, c).ok
  PROVE  /\ DocumentParses(d)
         /\ RequestSafetyLimits(d, r.configured, r.runtime.resource, r.alias, model, c).limits
              = EffectiveLimits(d, Looked(r), r.alias, model, c)
<1>1. RequestSafetyLimits(d, r.configured, r.runtime.resource, r.alias, model, c)
        = ResolveSafetyConfig(d, Looked(r), r.alias, model, c)
  BY DEF RequestSafetyLimits, Looked
<1>2. ~Refused.ok
  BY DEF Refused
<1> DEFINE read == ResolveSafetyConfig(d, Looked(r), r.alias, model, c)
           refuses == \/ Looked(r) # NoValue /\ r.alias # NoValue
                      \/ ~DocumentParses(d)
                      \/ r.alias # NoValue /\ EntriesFor(d, Looked(r), r.alias) = {}
<1>3. /\ refuses => read = Refused
      /\ ~refuses => read.limits = EffectiveLimits(d, Looked(r), r.alias, model, c)
  BY DEF ResolveSafetyConfig
<1>4. ~refuses
  <2> HIDE DEF refuses
  <2> QED
    BY <1>1, <1>2, <1>3
<1> QED
  BY <1>1, <1>3, <1>4

\* A value that a configuration lets pass is not above what it states.
LEMMA PassedNotAbove ==
  ASSUME NEW d \in Docs, NEW r, NEW c, bench.name # NoValue, r.configured,
         RequestSafetyLimits(d, r.configured, r.runtime.resource, r.alias, bench.name, c).ok,
         NEW field, field # "allowed_channels", NEW value \in Int,
         Within(value, RequestSafetyLimits(d, r.configured, r.runtime.resource, r.alias,
                                           bench.name, c).limits, field)
  PROVE  ~Above(value, Stated(d, r, c, field))
<1> DEFINE limits == EffectiveLimits(d, Looked(r), r.alias, bench.name, c)
<1>1. DocumentParses(d) /\ Within(value, limits, field)
  BY ConfigurationRead
<1>2. ASSUME NEW limit \in Stated(d, r, c, field) PROVE ~(value > limit)
  <2>1. field \in DOMAIN limits /\ limits[field] = limit
    BY <1>1, StatedIsInForce
  <2>2. Numbers(limits)
    BY LimitsAreNumbers
  <2>3. limit \in Int
    BY <2>1, <2>2 DEF Numbers
  <2>4. value <= limit
    BY <1>1, <2>1 DEF Within
  <2> QED
    BY <2>3, <2>4
<1> QED
  BY <1>2 DEF Above

\* A value that is within the lower of two maxima is within the rating.
LEMMA LowerMaximum ==
  ASSUME NEW rating, NEW limits, Numbers(limits), NEW field, field # "allowed_channels",
         field \in DOMAIN rating, rating[field] \in Int, NEW value, value \in Int \/ limits = NoLimits,
         Within(value, EffectiveMax(rating, limits, field), field)
  PROVE  value <= rating[field]
<1>1. CASE field \in DOMAIN limits => rating[field] <= limits[field]
  BY <1>1 DEF Within, EffectiveMax
<1>2. CASE ~(field \in DOMAIN limits => rating[field] <= limits[field])
  <2>1. value <= limits[field] /\ limits[field] \in Int
    BY <1>2 DEF Within, EffectiveMax, Numbers
  <2>2. value \in Int
    BY <1>2 DEF NoLimits
  <2> QED
    BY <1>2, <2>1, <2>2
<1> QED
  BY <1>1, <1>2

\* Setpoints that pass are within the rating of the channel, together too.
LEMMA PassedIsRated ==
  ASSUME NEW limits, Numbers(limits), NEW c \in DOMAIN bench.on, NEW v, NEW i,
         bench.model \in DOMAIN Ratings => DOMAIN bench.on \subseteq DOMAIN Ratings[bench.model],
         ValidateEffectiveSetpoint(bench.model, limits, c, v, i)
  PROVE  /\ v \in Int \/ limits = NoLimits => Rated(c, v, NoValue)
         /\ i \in Int \/ limits = NoLimits => Rated(c, NoValue, i)
         /\ (v \in Int /\ i \in Int) \/ limits = NoLimits => Rated(c, v, i)
<1> SUFFICES ASSUME bench.model \in DOMAIN Ratings
             PROVE  /\ v \in Int \/ limits = NoLimits => Rated(c, v, NoValue)
                    /\ i \in Int \/ limits = NoLimits => Rated(c, NoValue, i)
                    /\ (v \in Int /\ i \in Int) \/ limits = NoLimits => Rated(c, v, i)
  BY DEF Rated
<1> DEFINE official == Ratings[bench.model][c]
           rating == RatingLayer(bench.model, c)
<1>1. c \in DOMAIN Ratings[bench.model]
  OBVIOUS
<1>2. rating = [max_voltage |-> official.voltage, max_current |-> official.current]
  BY <1>1 DEF RatingLayer
<1>3. official.voltage \in Int /\ official.current \in Int
  BY <1>1, RatingsAssumption
<1>4. rating # NoLimits
  <2>1. DOMAIN NoLimits = {} /\ DOMAIN rating # {}
    BY <1>2 DEF NoLimits
  <2> QED
    BY <2>1
<1>5. /\ v # NoValue => Within(v, EffectiveMax(rating, limits, "max_voltage"), "max_voltage")
      /\ i # NoValue => Within(i, EffectiveMax(rating, limits, "max_current"), "max_current")
      /\ v # NoValue /\ i # NoValue /\ rating # NoLimits => FitsRange(bench.model, c, v, i)
  BY DEF ValidateEffectiveSetpoint
<1>6. (v \in Int \/ limits = NoLimits) /\ v # NoValue => v <= official.voltage
  <2>1. "max_voltage" \in DOMAIN rating /\ rating["max_voltage"] = official.voltage
    BY <1>2
  <2> HIDE DEF rating, official
  <2> QED
    BY <1>3, <1>5, <2>1, LowerMaximum
<1>7. (i \in Int \/ limits = NoLimits) /\ i # NoValue => i <= official.current
  <2>1. "max_current" \in DOMAIN rating /\ rating["max_current"] = official.current
    BY <1>2
  <2> HIDE DEF rating, official
  <2> QED
    BY <1>3, <1>5, <2>1, LowerMaximum
<1>8. v # NoValue /\ i # NoValue =>
        official.ranges = {} \/ \E r \in official.ranges : v <= r.voltage /\ i <= r.current
  BY <1>4, <1>5 DEF FitsRange
<1> HIDE DEF official
<1> QED
  BY <1>6, <1>7, <1>8 DEF Rated, official

-----------------------------------------------------------------------------
(* What admission establishes                                              *)

\* The commands that may open an instrument here.
Opens(command) == command \in DirectOutputCommands \cup {"output-state"} \cup DocumentCommands

\* A request is a record, and what it runs with has a mode.
Shaped(r) == DOMAIN r = RequestFields /\ "mode" \in DOMAIN r.runtime

\* The values of parameters are of the types their tags say.
ParametersTyped(p) ==
  \A n \in DOMAIN p : Tagged(p[n]) /\ (n = "document" => DocumentTyped(p[n][2]))

\* What the argument parser has typed.
CliTyped(r) ==
  LET p == r.parameters IN
  Direct(r) /\ Mode(r) = "live" =>
    /\ "channel" \in DOMAIN p /\ "channels" \notin DOMAIN p
    /\ p["channel"] = All \/ p["channel"][1] = "int"
    /\ \A n \in {"voltage", "current"} \cap DOMAIN p : Number(p[n])
    /\ r.command \in {"apply", "smoke-output"} => {"voltage", "current"} \subseteq DOMAIN p
    /\ r.command = "smoke-output" => p["channel"] # All

\* What is known of the types of a request that is on its way.
WellTyped(r) ==
  /\ Shaped(r) /\ CliTyped(r)
  /\ Mode(r) = "live" /\ Opens(r.command) => ParametersTyped(r.parameters)

\* A request that is received is typed.
LEMMA RequestsWellTyped == ASSUME NEW r \in Requests PROVE WellTyped(r)
<1>1. Shaped(r) /\ ParametersTyped(r.parameters)
  BY RequestsAssumption DEF Shaped, ParametersTyped
<1>2. CliTyped(r)
  BY CliAssumption DEF CliTyped
<1> QED
  BY <1>1, <1>2 DEF WellTyped

\* Looking up an alias changes the resource only.
LEMMA ResolvedTyped ==
  ASSUME NEW r, WellTyped(r)
  PROVE  WellTyped(CliResolved(r)) /\ (Direct(CliResolved(r)) <=> Direct(r))
<1> DEFINE s == CliResolved(r)
<1>1. /\ DOMAIN s = RequestFields /\ DOMAIN s.runtime = DOMAIN r.runtime /\ s.adapter = r.adapter
      /\ s.command = r.command /\ s.parameters = r.parameters /\ s.runtime.mode = r.runtime.mode
  BY DEF CliResolved, WellTyped, Shaped, RequestFields
<1> HIDE DEF s
<1>2. Mode(s) = Mode(r) /\ (Direct(s) <=> Direct(r))
  BY <1>1 DEF Mode, Direct
<1> QED
  BY <1>1, <1>2 DEF WellTyped, Shaped, CliTyped, s

\* No identity that is resolved changes the mode.
LEMMA ModeKept ==
  ASSUME NEW runtime, "mode" \in DOMAIN runtime
  PROVE  /\ ResolveNoHardware(runtime).mode = runtime.mode /\ "mode" \in DOMAIN ResolveNoHardware(runtime)
         /\ \A d : /\ PreparedRuntime(runtime, d).mode = runtime.mode
                   /\ "mode" \in DOMAIN PreparedRuntime(runtime, d)
<1>1. ASSUME NEW rt, "mode" \in DOMAIN rt
      PROVE  ResolveNoHardware(rt).mode = rt.mode /\ "mode" \in DOMAIN ResolveNoHardware(rt)
  BY <1>1 DEF ResolveNoHardware
<1>2. ASSUME NEW d
      PROVE  "mode" \in DOMAIN PlannedWith(runtime, d) /\ PlannedWith(runtime, d).mode = runtime.mode
  BY DEF PlannedWith
<1>3. ASSUME NEW d
      PROVE  /\ PreparedRuntime(runtime, d).mode = runtime.mode
             /\ "mode" \in DOMAIN PreparedRuntime(runtime, d)
  BY <1>1, <1>2 DEF PreparedRuntime
<1> QED
  BY <1>1, <1>3

\* The parameters of these commands are normalized to themselves.
LEMMA NormalizedAsGiven ==
  ASSUME NEW command, Opens(command), NEW raw
  PROVE  LET p == Normalized(command, raw) IN
         /\ p = Renamed(Contracts[command], raw)
         /\ DOMAIN p = DOMAIN raw /\ \A n \in DOMAIN raw : p[n] = raw[n]
<1>1. command \notin ProtectionCommands /\ command \notin SemanticDefaults
  BY DEF Opens, DirectOutputCommands, DocumentCommands, ProtectionCommands, SemanticDefaults
<1>2. Normalized(command, raw) = Renamed(Contracts[command], raw)
  BY <1>1 DEF Normalized, Materialized
<1>3. \A n : Canonical(Contracts[command], n) = n
  BY ContractsAssumption DEF Opens, Canonical
<1>4. DOMAIN Renamed(Contracts[command], raw) = DOMAIN raw
  BY <1>3 DEF Renamed
<1>5. ASSUME NEW n \in DOMAIN raw PROVE Renamed(Contracts[command], raw)[n] = raw[n]
  BY <1>3 DEF Renamed
<1> QED
  BY <1>2, <1>4, <1>5

\* Admission keeps what a request is for and how it is run, and the types of
\* what it is given.
LEMMA AdmittedTyped ==
  ASSUME NEW r, WellTyped(r), file \in Files
  PROVE  LET a == Admitted(r) IN
         /\ Shaped(a) /\ a.adapter = r.adapter /\ a.command = r.command /\ Mode(a) = Mode(r)
         /\ Mode(r) = "live" /\ Opens(r.command) => ParametersTyped(a.parameters)
<1> DEFINE a == Admitted(r)
           p == CanonicalChannels(r, Normalized(r.command, r.parameters))
<1>1. /\ DOMAIN a = RequestFields /\ a.adapter = r.adapter /\ a.command = r.command
      /\ a.runtime = AdmittedRuntime(r, p)
      /\ a.parameters = IF r.command \in DocumentCommands THEN Materialize(p) ELSE p
  BY DEF Admitted, WellTyped, Shaped, RequestFields
<1>2. "mode" \in DOMAIN r.runtime
  BY DEF WellTyped, Shaped
<1> HIDE DEF a, p
<1>3. AdmittedRuntime(r, p).mode = r.runtime.mode /\ "mode" \in DOMAIN AdmittedRuntime(r, p)
  <2>1. GatedRuntime(r).mode = r.runtime.mode /\ "mode" \in DOMAIN GatedRuntime(r)
    BY <1>2, ModeKept DEF GatedRuntime
  <2>2. \A d : SequenceRuntime(r, d).mode = r.runtime.mode /\ "mode" \in DOMAIN SequenceRuntime(r, d)
    BY <1>2, <2>1 DEF SequenceRuntime
  <2> QED
    BY <1>2, <2>1, <2>2, ModeKept DEF AdmittedRuntime
<1>4. ASSUME Mode(r) = "live", Opens(r.command) PROVE ParametersTyped(a.parameters)
  <2>1. p = Normalized(r.command, r.parameters)
    BY <1>4 DEF p, CanonicalChannels, Gated
  <2>2. DOMAIN p = DOMAIN r.parameters /\ \A n \in DOMAIN p : p[n] = r.parameters[n]
    BY <1>4, <2>1, NormalizedAsGiven
  <2>3. ParametersTyped(p)
    BY <1>4, <2>2 DEF WellTyped, ParametersTyped
  <2>4. CASE r.command \in DocumentCommands
    <3>1. DocumentTyped(DocumentOf(p))
      BY <2>3, FilesAssumption DEF ParametersTyped, DocumentOf, FromFile
    <3>2. Tagged(<<"obj", DocumentOf(p)>>)
      BY DEF Tagged
    <3>3. /\ DOMAIN Materialize(p) = {"document"} \cup (DOMAIN p \ {"file", "snapshot"})
          /\ Materialize(p)["document"] = <<"obj", DocumentOf(p)>>
          /\ \A n \in DOMAIN p \ {"file", "snapshot", "document"} : Materialize(p)[n] = p[n]
      BY DEF Materialize
    <3>4. a.parameters = Materialize(p)
      BY <1>1, <2>4
    <3>5. ASSUME NEW n \in DOMAIN Materialize(p)
          PROVE  Tagged(Materialize(p)[n]) /\ (n = "document" => DocumentTyped(Materialize(p)[n][2]))
      <4>1. CASE n = "document"
        BY <3>1, <3>2, <3>3, <4>1
      <4>2. CASE n # "document"
        BY <2>3, <3>3, <4>2 DEF ParametersTyped
      <4> QED
        BY <4>1, <4>2
    <3> QED
      BY <3>4, <3>5 DEF ParametersTyped
  <2>5. CASE r.command \notin DocumentCommands
    BY <1>1, <2>3, <2>5
  <2> QED
    BY <2>4, <2>5
<1>5. Shaped(a) /\ Mode(a) = Mode(r)
  BY <1>1, <1>3 DEF Shaped, Mode
<1> QED
  BY <1>1, <1>4, <1>5 DEF a

\* The setpoints of an output command are numbers.
SetpointsTyped(p) == \A n \in {"voltage", "current"} \cap DOMAIN p : p[n][2] \in Int

\* What is switched on is given a pair, a test one channel.
PairGiven(r) ==
  LET p == r.parameters IN
  /\ r.command \in {"apply", "smoke-output"} => {"voltage", "current"} \subseteq DOMAIN p
  /\ r.command = "smoke-output" => "channels" \notin DOMAIN p /\ p["channel"] # All

\* The documents of a list and of a sequence, as their plans ensure.
ListTyped(d, p) ==
  IsTable(d.segments) /\ (\A s \in ToSet(d.segments) : SegmentTyped(s)) /\ Loops(d, p) \in Nat

SequenceTyped(d, p) ==
  IsTable(d.steps) /\ (\A step \in ToSet(d.steps) : StepTyped(step)) /\ Loops(d, p) \in Nat

\* What admission ensures of a request that opens an instrument.
Ready(r) ==
  LET p == r.parameters
      d == p["document"][2]
  IN /\ Opens(r.command)
     /\ IsOutput(r) =>
          /\ Selects(p) /\ SetpointsTyped(p) /\ PairGiven(r)
          /\ r.command = "ramp" => RampTyped(p)
     /\ r.command = "ramp-list" => ListTyped(d, p)
     /\ r.command = "sequence" => SequenceTyped(d, p)
     /\ IsRestore(r) => SnapshotValid(registry, d)

\* A number that a field accepts, a channel, and so on, of a value that is typed.
LEMMA Accepted ==
  ASSUME NEW field, NEW value, Tagged(value), FieldAccepts(field, value)
  PROVE  /\ field.kind \in {"nonnegative_number", "positive_number", "range_int"} => value[2] \in Int
         /\ field.kind = "positive_number" => value[2] > 0
         /\ field.kind = "range_int" => value[2] \in Nat
         /\ field.kind = "channel" => value = All \/ value[2] \in Int
         /\ field.kind = "channel" /\ ~field.all => value # All
         /\ field.kind = "channel_list" =>
              /\ IsTable(value[2]) /\ value[2] # << >>
              /\ \A item \in ToSet(value[2]) : item[2] \in Int
<1>1. field.kind = "nonnegative_number" => value[2] \in Int
  BY DEF FieldAccepts, Tagged, Number
<1>2. field.kind = "positive_number" => value[2] \in Int /\ value[2] > 0
  BY DEF FieldAccepts, Tagged, Number
<1>3. field.kind = "range_int" => value[2] \in Nat
  BY DEF FieldAccepts, Tagged, ExactInt
<1>4. /\ field.kind = "channel" => value = All \/ value[2] \in Int
      /\ field.kind = "channel" /\ ~field.all => value # All
  <2>1. field.kind = "channel" => (field.all /\ value = All) \/ ExactInt(value, 1)
    BY DEF FieldAccepts
  <2>2. All[1] # "int"
    BY DEF All
  <2> QED
    BY <2>1, <2>2 DEF Tagged, ExactInt
<1>5. field.kind = "channel_list" =>
        IsTable(value[2]) /\ value[2] # << >> /\ \A item \in ToSet(value[2]) : item[2] \in Int
  BY DEF FieldAccepts, Tagged, ListOf
<1> QED
  BY <1>1, <1>2, <1>3, <1>4, <1>5

\* What a contract says of the parameters it admits.
LEMMA AdmittedValues ==
  ASSUME NEW contract, DOMAIN contract.aliases = {}, TypedFields(contract.fields),
         NEW raw, \A n \in DOMAIN raw : Tagged(raw[n]), ParametersAdmitted(contract, raw)
  PROVE  /\ DOMAIN raw \subseteq DOMAIN contract.fields /\ RequiredOf(contract.fields) \subseteq DOMAIN raw
         /\ \A n \in {"voltage", "current", "start_voltage", "stop_voltage", "step_voltage"} \cap DOMAIN raw :
              raw[n][2] \in Int
         /\ "step_voltage" \in DOMAIN raw => raw["step_voltage"][2] > 0
         /\ "loop_count" \in DOMAIN raw => raw["loop_count"][2] \in Nat
         /\ "channel" \in DOMAIN raw =>
              /\ raw["channel"] = All \/ raw["channel"][2] \in Int
              /\ ~contract.fields["channel"].all => raw["channel"] # All
         /\ "channels" \in DOMAIN raw =>
              /\ IsTable(raw["channels"][2]) /\ raw["channels"][2] # << >>
              /\ \A item \in ToSet(raw["channels"][2]) : item[2] \in Int
<1> DEFINE given == Renamed(contract, raw)
<1>1. \A n : Canonical(contract, n) = n
  BY DEF Canonical
<1>2. DOMAIN given = DOMAIN raw /\ \A n \in DOMAIN raw : given[n] = raw[n]
  BY <1>1 DEF Renamed
<1> HIDE DEF given
<1>3. /\ DOMAIN raw \subseteq DOMAIN contract.fields
      /\ \A n \in DOMAIN raw : FieldAccepts(contract.fields[n], raw[n])
      /\ \A n \in DOMAIN contract.fields : contract.fields[n].required => n \in DOMAIN raw
  BY <1>2 DEF ParametersAdmitted, given
<1>4. RequiredOf(contract.fields) \subseteq DOMAIN raw
  BY <1>3 DEF RequiredOf
<1>5. /\ \A n \in {"voltage", "current", "start_voltage", "stop_voltage"} \cap DOMAIN raw :
           contract.fields[n].kind = "nonnegative_number"
      /\ "step_voltage" \in DOMAIN raw => contract.fields["step_voltage"].kind = "positive_number"
      /\ "channel" \in DOMAIN raw => contract.fields["channel"].kind = "channel"
      /\ "channels" \in DOMAIN raw => contract.fields["channels"].kind = "channel_list"
      /\ "loop_count" \in DOMAIN raw => contract.fields["loop_count"].kind = "range_int"
  BY <1>3 DEF TypedFields
<1>6. \A n \in {"voltage", "current", "start_voltage", "stop_voltage", "step_voltage"} \cap DOMAIN raw :
        raw[n][2] \in Int
  BY <1>3, <1>5, Accepted
<1>7. "step_voltage" \in DOMAIN raw => raw["step_voltage"][2] > 0
  BY <1>3, <1>5, Accepted
<1>8. "loop_count" \in DOMAIN raw => raw["loop_count"][2] \in Nat
  BY <1>3, <1>5, Accepted
<1>9. "channel" \in DOMAIN raw =>
        /\ raw["channel"] = All \/ raw["channel"][2] \in Int
        /\ ~contract.fields["channel"].all => raw["channel"] # All
  BY <1>3, <1>5, Accepted
<1>10. "channels" \in DOMAIN raw =>
         /\ IsTable(raw["channels"][2]) /\ raw["channels"][2] # << >>
         /\ \A item \in ToSet(raw["channels"][2]) : item[2] \in Int
  BY <1>3, <1>5, Accepted
<1> QED
  BY <1>3, <1>4, <1>6, <1>7, <1>8, <1>9, <1>10

\* The parameters of a step of an admitted sequence.
LEMMA StepsTyped ==
  ASSUME NEW step, \A n \in DOMAIN step.parameters : Tagged(step.parameters[n]), StepAdmitted(step)
  PROVE  StepTyped(step)
<1> DEFINE contract == ActionContracts[step.action]
           raw == step.parameters
           given == Renamed(contract, raw)
           p == StepParameters(step)
<1> SUFFICES ASSUME step.action \notin HostOnly
             PROVE  Selects(p) /\ (Programs(step) => p["voltage"][2] \in Int /\ p["current"][2] \in Int)
  BY DEF StepTyped
<1>1. /\ DOMAIN contract.aliases = {} /\ TypedFields(contract.fields)
      /\ "channels" \notin DOMAIN contract.fields
      /\ "channel" \in DOMAIN contract.fields /\ contract.fields["channel"].default = <<Exact(1)>>
      /\ step.action \in {"set", "apply"} => {"voltage", "current"} \subseteq RequiredOf(contract.fields)
  BY ContractsAssumption DEF StepAdmitted
<1>2. ParametersAdmitted(contract, raw)
  BY DEF StepAdmitted
<1>3. /\ DOMAIN raw \subseteq DOMAIN contract.fields /\ RequiredOf(contract.fields) \subseteq DOMAIN raw
      /\ \A n \in {"voltage", "current"} \cap DOMAIN raw : raw[n][2] \in Int
      /\ "channel" \in DOMAIN raw => raw["channel"] = All \/ raw["channel"][2] \in Int
  <2> HIDE DEF contract, raw
  <2>1. \A n \in DOMAIN raw : Tagged(raw[n])
    BY DEF raw
  <2> QED
    BY <1>1, <1>2, <2>1, AdmittedValues
<1>4. DOMAIN given = DOMAIN raw /\ \A n \in DOMAIN raw : given[n] = raw[n]
  <2>1. \A n : Canonical(contract, n) = n
    BY <1>1 DEF Canonical
  <2> HIDE DEF contract, raw
  <2> QED
    BY <2>1 DEF Renamed
<1>5. p = WithDefaults(contract, given)
  BY DEF StepParameters
<1> HIDE DEF contract, raw, given, p
<1>6. /\ DOMAIN p \subseteq DOMAIN contract.fields
      /\ DOMAIN raw \subseteq DOMAIN p /\ \A n \in DOMAIN raw : p[n] = raw[n]
  BY <1>3, <1>4, <1>5 DEF WithDefaults
<1>7. "channel" \notin DOMAIN raw => p["channel"] = Exact(1)
  BY <1>1, <1>4, <1>5 DEF WithDefaults
<1>8. p["channel"] = All \/ p["channel"][2] \in Int
  BY <1>3, <1>6, <1>7 DEF Exact
<1>9. Selects(p)
  BY <1>1, <1>6, <1>8 DEF Selects
<1>10. Programs(step) => p["voltage"][2] \in Int /\ p["current"][2] \in Int
  BY <1>1, <1>3, <1>6 DEF Programs
<1> QED
  BY <1>9, <1>10

\* What the parser of the command line has typed is ready.
LEMMA DirectReady ==
  ASSUME NEW r, WellTyped(r), Mode(r) = "live", Direct(r)
  PROVE  Ready(r)
<1> DEFINE p == r.parameters
<1>1. Opens(r.command) /\ ~IsRestore(r) /\ r.command \notin {"ramp", "ramp-list", "sequence"}
  BY DEF Direct, Opens, IsRestore, DirectOutputCommands
<1>2. \A n \in DOMAIN p : Tagged(p[n])
  BY <1>1 DEF WellTyped, ParametersTyped
<1>3. /\ "channel" \in DOMAIN p /\ "channels" \notin DOMAIN p
      /\ p["channel"] = All \/ p["channel"][1] = "int"
      /\ \A n \in {"voltage", "current"} \cap DOMAIN p : Number(p[n])
  BY DEF WellTyped, CliTyped
<1>4. Selects(p)
  BY <1>2, <1>3 DEF Selects, Tagged
<1>5. SetpointsTyped(p)
  BY <1>2, <1>3 DEF SetpointsTyped, Number, Tagged
<1>6. PairGiven(r)
  BY <1>3 DEF WellTyped, CliTyped, PairGiven
<1> QED
  BY <1>1, <1>4, <1>5, <1>6 DEF Ready

\* What an admission makes of the parameters of a live request.
LEMMA AdmittedParameters ==
  ASSUME NEW r, WellTyped(r), Mode(r) = "live", Opens(r.command), AdmissionHolds(r)
  PROVE  LET p == Normalized(r.command, r.parameters)
             q == Admitted(r).parameters
             contract == Contracts[r.command]
         IN /\ q = IF r.command \in DocumentCommands THEN Materialize(p) ELSE p
            /\ DOMAIN p = DOMAIN r.parameters /\ \A n \in DOMAIN p : p[n] = r.parameters[n]
            /\ ParametersAdmitted(contract, r.parameters)
            /\ CommandAdmits(r, p)
            /\ \A n \in DOMAIN p : Tagged(p[n])
<1> DEFINE p == Normalized(r.command, r.parameters)
           q == Admitted(r).parameters
<1>1. r.command \notin ProtectionCommands
  BY DEF Opens, DirectOutputCommands, DocumentCommands, ProtectionCommands
<1>2. DOMAIN p = DOMAIN r.parameters /\ \A n \in DOMAIN p : p[n] = r.parameters[n]
  BY NormalizedAsGiven
<1>3. ParametersAdmitted(Contracts[r.command], r.parameters) /\ CommandAdmits(r, p)
  BY <1>1 DEF AdmissionHolds, RequestNormalizes
<1>4. q = IF r.command \in DocumentCommands THEN Materialize(p) ELSE p
  <2>1. CanonicalChannels(r, p) = p
    BY DEF CanonicalChannels, Gated
  <2> QED
    BY <2>1 DEF Admitted, WellTyped, Shaped, RequestFields
<1>5. \A n \in DOMAIN p : Tagged(p[n])
  BY <1>2 DEF WellTyped, ParametersTyped
<1> QED
  BY <1>2, <1>3, <1>4, <1>5

\* The contract of a command that opens an instrument.
LEMMA OpensContract ==
  ASSUME NEW command, Opens(command)
  PROVE  LET fields == Contracts[command].fields IN
         /\ DOMAIN Contracts[command].aliases = {} /\ TypedFields(fields)
         /\ "channels" \in DOMAIN fields => command = "ramp"
         /\ command \in {"ramp", "ramp-list", "sequence"} \/ "channel" \in RequiredOf(fields)
         /\ command \in {"apply", "smoke-output"} => {"voltage", "current"} \subseteq RequiredOf(fields)
         /\ command = "smoke-output" => ~fields["channel"].all
BY ContractsAssumption DEF Opens

\* An output command that Core has admitted is ready.
LEMMA OutputReady ==
  ASSUME NEW r, WellTyped(r), Mode(r) = "live", IsOutput(r), AdmissionHolds(r),
         Admitted(r).command = r.command
  PROVE  Ready(Admitted(r))
<1> DEFINE a == Admitted(r)
           p == Normalized(r.command, r.parameters)
           raw == r.parameters
           contract == Contracts[r.command]
<1>1. Opens(r.command) /\ r.command \notin DocumentCommands
  BY DEF IsOutput, Opens, DirectOutputCommands, DocumentCommands
<1>2. /\ a.parameters = p /\ DOMAIN p = DOMAIN raw /\ \A n \in DOMAIN p : p[n] = raw[n]
      /\ ParametersAdmitted(contract, raw)
      /\ \A n \in DOMAIN raw : Tagged(raw[n])
  BY <1>1, AdmittedParameters
<1>3. /\ DOMAIN contract.aliases = {} /\ TypedFields(contract.fields)
      /\ "channels" \in DOMAIN contract.fields => r.command = "ramp"
      /\ r.command = "ramp" \/ "channel" \in RequiredOf(contract.fields)
      /\ r.command \in {"apply", "smoke-output"} => {"voltage", "current"} \subseteq RequiredOf(contract.fields)
      /\ r.command = "smoke-output" => ~contract.fields["channel"].all
  BY <1>1, OpensContract DEF DocumentCommands
<1> HIDE DEF a, p, raw
<1>4. /\ DOMAIN raw \subseteq DOMAIN contract.fields /\ RequiredOf(contract.fields) \subseteq DOMAIN raw
      /\ \A n \in {"voltage", "current", "start_voltage", "stop_voltage", "step_voltage"} \cap DOMAIN raw :
           raw[n][2] \in Int
      /\ "step_voltage" \in DOMAIN raw => raw["step_voltage"][2] > 0
      /\ "channel" \in DOMAIN raw =>
           /\ raw["channel"] = All \/ raw["channel"][2] \in Int
           /\ ~contract.fields["channel"].all => raw["channel"] # All
      /\ "channels" \in DOMAIN raw =>
           /\ IsTable(raw["channels"][2]) /\ raw["channels"][2] # << >>
           /\ \A item \in ToSet(raw["channels"][2]) : item[2] \in Int
  <2> HIDE DEF contract
  <2> QED
    BY <1>2, <1>3, AdmittedValues
<1>5. "channels" \in DOMAIN raw \/ "channel" \in DOMAIN raw
  <2>1. CASE r.command = "ramp"
    <3> DEFINE group == {"channel", "channels"}
    <3>1. group \in contract.exactlyOne
      BY <2>1, ContractsAssumption
    <3>2. Cardinality(group \cap DOMAIN raw) = 1
      <4> HIDE DEF group, contract
      <4> QED
        BY <1>2, <3>1 DEF ParametersAdmitted, Present
    <3>3. group \cap DOMAIN raw # {}
      BY <3>2, FS_EmptySet
    <3> QED
      BY <3>3
  <2>2. CASE r.command # "ramp"
    BY <1>3, <1>4, <2>2
  <2> QED
    BY <2>1, <2>2
<1>6. Selects(p)
  BY <1>2, <1>4, <1>5 DEF Selects
<1>7. SetpointsTyped(p)
  BY <1>2, <1>4 DEF SetpointsTyped
<1>8. r.command = "ramp" => RampTyped(p)
  <2>1. r.command = "ramp" =>
          {"start_voltage", "stop_voltage", "step_voltage", "current"} \subseteq RequiredOf(contract.fields)
    BY ContractsAssumption
  <2> HIDE DEF contract
  <2> QED
    BY <1>2, <1>4, <2>1 DEF RampTyped
<1>9. a.command = r.command
  BY DEF a
<1>10. ~IsRestore(a) /\ a.command \notin {"ramp-list", "sequence"} /\ Opens(a.command)
  BY <1>1, <1>9 DEF IsRestore, DocumentCommands
<1>11. PairGiven(a)
  <2> HIDE DEF contract
  <2>1. r.command \in {"apply", "smoke-output"} => {"voltage", "current"} \subseteq DOMAIN raw
    BY <1>3, <1>4
  <2>2. r.command = "smoke-output" => "channels" \notin DOMAIN raw /\ "channel" \in DOMAIN raw /\ raw["channel"] # All
    BY <1>3, <1>4
  <2> QED
    BY <1>2, <1>9, <2>1, <2>2 DEF PairGiven
<1>12. Ready(a)
  BY <1>2, <1>6, <1>7, <1>8, <1>9, <1>10, <1>11 DEF Ready
<1> QED
  BY <1>12 DEF a

\* The loops are a number where the counts that are given are.
LEMMA LoopsNatural ==
  ASSUME NEW d, LoopCountHolds(d), NEW p, "loop_count" \in DOMAIN p => p["loop_count"][2] \in Nat
  PROVE  Loops(d, p) \in Nat
<1>1. CASE "loop_count" \in DOMAIN p
  <2>1. Loops(d, p) = p["loop_count"][2]
    BY <1>1 DEF Loops
  <2> QED
    BY <1>1, <2>1
<1>2. CASE "loop_count" \notin DOMAIN p /\ "loop_count" \in DOMAIN d
  <2>1. Loops(d, p) = d.loop_count
    BY <1>2 DEF Loops
  <2>2. d.loop_count \in 1..MaxLoopCount
    BY <1>2 DEF LoopCountHolds
  <2>3. MaxLoopCount \in Int
    BY DEF MaxLoopCount
  <2> QED
    BY <2>1, <2>2, <2>3
<1>3. CASE "loop_count" \notin DOMAIN p /\ "loop_count" \notin DOMAIN d
  <2>1. Loops(d, p) = 1
    BY <1>3 DEF Loops
  <2> QED
    BY <2>1
<1> QED
  BY <1>1, <1>2, <1>3

\* A document command carries its document, which is typed, and a number of loops.
LEMMA DocumentReady ==
  ASSUME NEW r, WellTyped(r), Mode(r) = "live", r.command \in DocumentCommands, AdmissionHolds(r),
         file \in Files
  PROVE  LET p == Normalized(r.command, r.parameters)
             q == Admitted(r).parameters
             d == DocumentOf(p)
         IN /\ q["document"][2] = d /\ DocumentTyped(d) /\ CommandAdmits(r, p)
            /\ LoopCountHolds(d) => Loops(d, q) \in Nat
<1> DEFINE p == Normalized(r.command, r.parameters)
           q == Admitted(r).parameters
           d == DocumentOf(p)
           raw == r.parameters
           contract == Contracts[r.command]
<1>1. Opens(r.command)
  BY DEF Opens
<1>2. /\ q = Materialize(p) /\ DOMAIN p = DOMAIN raw /\ \A n \in DOMAIN p : p[n] = raw[n]
      /\ ParametersAdmitted(contract, raw) /\ CommandAdmits(r, p)
      /\ \A n \in DOMAIN raw : Tagged(raw[n])
  BY <1>1, AdmittedParameters
<1>3. DocumentTyped(d)
  BY <1>1, <1>2, FilesAssumption DEF DocumentOf, FromFile, WellTyped, ParametersTyped
<1>4. /\ q["document"] = <<"obj", d>>
      /\ "loop_count" \in DOMAIN q <=> "loop_count" \in DOMAIN p
      /\ "loop_count" \in DOMAIN p => q["loop_count"] = p["loop_count"]
  BY <1>2 DEF Materialize
<1> HIDE DEF p, q, d, raw
<1>5. "loop_count" \in DOMAIN raw => raw["loop_count"][2] \in Nat
  <2>1. DOMAIN contract.aliases = {} /\ TypedFields(contract.fields)
    BY <1>1, OpensContract
  <2> HIDE DEF contract
  <2> QED
    BY <1>2, <2>1, AdmittedValues
<1>6. LoopCountHolds(d) => Loops(d, q) \in Nat
  <2>1. "loop_count" \in DOMAIN q => q["loop_count"][2] \in Nat
    BY <1>2, <1>4, <1>5
  <2> QED
    BY <2>1, LoopsNatural
<1>7. q["document"][2] = d
  BY <1>4
<1> QED
  BY <1>2, <1>3, <1>6, <1>7 DEF p, q, d

\* A document that Core has admitted is ready.
LEMMA DocumentsReady ==
  ASSUME NEW r, WellTyped(r), Mode(r) = "live", r.command \in DocumentCommands, AdmissionHolds(r),
         file \in Files, Admitted(r).command = r.command
  PROVE  Ready(Admitted(r))
<1> DEFINE a == Admitted(r)
           p == Normalized(r.command, r.parameters)
           q == a.parameters
           d == DocumentOf(p)
<1>1. /\ q["document"][2] = d /\ DocumentTyped(d) /\ CommandAdmits(r, p)
      /\ LoopCountHolds(d) => Loops(d, q) \in Nat
  BY DocumentReady
<1>2. a.command = r.command /\ Opens(a.command) /\ ~IsOutput(a)
  BY DEF IsOutput, Opens, DirectOutputCommands, DocumentCommands
<1> HIDE DEF a, p, d
<1>3. ASSUME r.command = "ramp-list" PROVE ListTyped(d, q)
  <2>1. PICK planned, config : RampListPlanned(planned, d, p, config)
    BY <1>1, <1>3 DEF CommandAdmits, d
  <2>2. "segments" \in DOMAIN d /\ LoopCountHolds(d)
    BY <2>1 DEF RampListPlanned, ListFields
  <2>3. IsTable(d.segments)
    BY <1>1, <2>2 DEF DocumentTyped
  <2>4. ASSUME NEW s \in ToSet(d.segments) PROVE SegmentTyped(s)
    <3>1. SegmentPlanned(d.version, s, planned, config)
      BY <2>1, <2>4 DEF RampListPlanned
    <3>2. /\ DOMAIN s = SegmentFields \cup {Selector(d.version)}
          /\ SegmentChannels(s) # << >> /\ s.step_voltage > 0
      BY <3>1 DEF SegmentPlanned
    <3>3. /\ "channels" \in DOMAIN s => s.channels \in Seq(Int)
          /\ \A n \in DOMAIN s \ {"channels"} : s[n] \in Int
      BY <1>1, <2>2, <2>4 DEF DocumentTyped
    <3>4. \A n \in {"start_voltage", "stop_voltage", "step_voltage", "current"} : s[n] \in Int
      BY <3>2, <3>3 DEF SegmentFields
    <3>5. IsTable(SegmentChannels(s)) /\ ToSet(SegmentChannels(s)) \subseteq Int
      <4>1. CASE "channels" \in DOMAIN s
        BY <3>3, <4>1, OwnElements DEF SegmentChannels, IsTable
      <4>2. CASE "channels" \notin DOMAIN s
        <5>1. "channel" \in DOMAIN s
          BY <3>2, <4>2 DEF Selector
        <5>2. s.channel \in Int
          BY <3>3, <5>1
        <5> QED
          BY <4>2, <5>2, SmallTables DEF SegmentChannels
      <4> QED
        BY <4>1, <4>2
    <3> QED
      BY <3>2, <3>4, <3>5 DEF SegmentTyped
  <2> QED
    BY <1>1, <2>2, <2>3, <2>4 DEF ListTyped
<1>4. ASSUME r.command = "sequence" PROVE SequenceTyped(d, q)
  <2>1. PICK runtime, limit : SequencePlanned(runtime, d, p, limit)
    BY <1>1, <1>4 DEF CommandAdmits, SequencePlannedWith, d
  <2>2. "steps" \in DOMAIN d /\ LoopCountHolds(d) /\ \A step \in ToSet(d.steps) : StepAdmitted(step)
    BY <2>1 DEF SequencePlanned, SequenceFields
  <2>3. IsTable(d.steps)
    BY <1>1, <2>2 DEF DocumentTyped
  <2>4. ASSUME NEW step \in ToSet(d.steps) PROVE StepTyped(step)
    <3>1. \A n \in DOMAIN step.parameters : Tagged(step.parameters[n])
      BY <1>1, <2>2 DEF DocumentTyped
    <3> QED
      BY <2>2, <3>1, StepsTyped
  <2> QED
    BY <1>1, <2>2, <2>3, <2>4 DEF SequenceTyped
<1>5. ASSUME r.command = "restore-from-snapshot" PROVE SnapshotValid(registry, d)
  BY <1>1, <1>5 DEF CommandAdmits, d
<1>6. Ready(a)
  BY <1>1, <1>2, <1>3, <1>4, <1>5 DEF Ready, IsRestore
<1> QED
  BY <1>6 DEF a

\* The types of the request on its way, and what admission made of it.
TypedInv ==
  /\ file \in Files /\ doc \in Docs
  /\ pc \in {"received", "admitted"} => WellTyped(request)
  /\ pc \in {"opening"} \cup Sessions => Ready(request)

\* The first admission.
LEMMA AdmitTyped == ASSUME TypedInv, Admit PROVE TypedInv'
<1> DEFINE r == CliResolved(request)
<1>1. /\ pc = "received" /\ UNCHANGED <<registry, doc, file>>
      /\ \/ pc' = "refused"
         \/ pc' = "admitted" /\ request' = IF Direct(r) THEN r ELSE Admitted(r)
  BY DEF Admit
<1>2. pc' = "admitted" => WellTyped(r)
  BY <1>1, ResolvedTyped DEF TypedInv
<1> HIDE DEF r
<1>3. ASSUME pc' = "admitted" PROVE WellTyped(request')
  <2>1. CASE Direct(r)
    BY <1>1, <1>2, <1>3, <2>1
  <2>2. CASE ~Direct(r)
    <3> DEFINE a == Admitted(r)
    <3>1. /\ Shaped(a) /\ a.adapter = r.adapter /\ a.command = r.command /\ Mode(a) = Mode(r)
          /\ Mode(r) = "live" /\ Opens(r.command) => ParametersTyped(a.parameters)
      BY <1>2, <1>3, AdmittedTyped DEF TypedInv
    <3>2. request' = a
      BY <1>1, <1>3, <2>2
    <3> HIDE DEF a
    <3>3. ~Direct(a)
      BY <2>2, <3>1 DEF Direct
    <3> QED
      BY <3>1, <3>2, <3>3 DEF WellTyped, CliTyped
  <2> QED
    BY <2>1, <2>2
<1>4. WellTyped(request)' <=> WellTyped(request')
  BY DEF WellTyped, CliTyped, Shaped, Mode, Direct
<1> QED
  BY <1>1, <1>3, <1>4 DEF TypedInv, Sessions

\* The second one, after which the instrument may be opened.
LEMMA StartTyped == ASSUME TypedInv, Start PROVE TypedInv'
<1> DEFINE r == IF Direct(request) THEN request ELSE Admitted(request)
<1>1. /\ pc = "admitted" /\ UNCHANGED <<registry, doc, file>>
      /\ \/ pc' = "refused"
         \/ /\ Direct(request) \/ AdmissionHolds(request)
            /\ request' = r /\ pc' = Dispatch(r)
  BY DEF Start
<1>2. \A s : Dispatch(s) \in {"planned", "refused", "dispatched", "opening"}
  BY DEF Dispatch, Opening
<1>3. WellTyped(request)
  BY <1>1 DEF TypedInv
<1>4. ASSUME pc' = "opening" PROVE Ready(request')
  <2>1. /\ Direct(request) \/ AdmissionHolds(request)
        /\ request' = r /\ Dispatch(r) = "opening"
    BY <1>1, <1>4
  <2>2. Mode(r) = "live" /\ (IsOutput(r) \/ r.command \in DocumentCommands)
    <3> HIDE DEF r
    <3> QED
      BY <2>1 DEF Dispatch, Opening, IsRestore, PlanOnly, DocumentCommands
  <2>3. CASE Direct(request)
    BY <1>3, <2>1, <2>2, <2>3, DirectReady
  <2>4. CASE ~Direct(request)
    <3>1. r = Admitted(request) /\ AdmissionHolds(request)
      BY <2>1, <2>4
    <3>2. r.command = request.command /\ Mode(r) = Mode(request)
      BY <1>3, <3>1, AdmittedTyped DEF TypedInv
    <3> HIDE DEF r
    <3>3. IsOutput(request) \/ request.command \in DocumentCommands
      BY <2>2, <3>2 DEF IsOutput
    <3>4. file \in Files
      BY DEF TypedInv
    <3> QED
      BY <1>3, <2>1, <2>2, <3>1, <3>2, <3>3, <3>4, OutputReady, DocumentsReady
  <2> QED
    BY <2>3, <2>4
<1>5. Ready(request)' <=> Ready(request')
  BY <1>1 DEF Ready, IsOutput, IsRestore, SnapshotValid, PairGiven
<1> QED
  BY <1>1, <1>2, <1>4, <1>5 DEF TypedInv, Sessions

\* The other steps leave the request alone, or have none.
LEMMA OtherStepsTyped ==
  ASSUME TypedInv,
         \/ Import \/ Receive \/ Open \/ CheckLimits \/ CheckConfirmation \/ CheckChannel \/ CheckRestore
         \/ Write \/ Raise \/ Reject \/ Return \/ NextRequest \/ EditFiles \/ UNCHANGED vars
  PROVE  TypedInv'
<1>1. CASE Receive
  <2>1. request' \in Requests /\ pc' = "received" /\ UNCHANGED <<doc, file>>
    BY <1>1 DEF Receive
  <2>2. WellTyped(request')
    BY <2>1, RequestsWellTyped
  <2>3. WellTyped(request)' <=> WellTyped(request')
    BY DEF WellTyped, CliTyped, Shaped, Mode, Direct
  <2> QED
    BY <2>1, <2>2, <2>3 DEF TypedInv, Sessions
<1>2. ASSUME UNCHANGED <<registry, request>> PROVE (Ready(request)' <=> Ready(request)) /\ (WellTyped(request)' <=> WellTyped(request))
  BY <1>2 DEF WellTyped, CliTyped, Shaped, Mode, Direct, Ready, IsOutput, IsRestore, SnapshotValid, PairGiven
<1>3. CASE Open \/ CheckLimits \/ CheckConfirmation \/ CheckChannel \/ CheckRestore \/ Write \/ Raise \/ Reject
  <2>1. /\ pc \in {"opening"} \cup Sessions /\ pc' \in {"refused"} \cup Sessions
        /\ UNCHANGED <<registry, request, doc, file>>
    BY <1>3 DEF Open, CheckLimits, CheckConfirmation, CheckChannel, CheckRestore, Check, Write, Raise,
                Reject, Sessions
  <2> QED
    BY <1>2, <2>1 DEF TypedInv, Sessions
<1>4. CASE Import \/ Return \/ NextRequest
  BY <1>4 DEF Import, Return, NextRequest, TypedInv, Sessions
<1>5. CASE EditFiles \/ UNCHANGED vars
  <2>1. UNCHANGED <<registry, request, pc>> /\ doc' \in Docs /\ file' \in Files
    BY <1>5 DEF EditFiles, vars, TypedInv
  <2> QED
    BY <1>2, <2>1 DEF TypedInv, Sessions
<1> QED
  BY <1>1, <1>3, <1>4, <1>5

\* The types hold in every reachable state.
THEOREM RequestTyped == Spec => []TypedInv
<1>1. Init => TypedInv
  BY DEF Init, TypedInv, Sessions
<1>2. TypedInv /\ [Next]_vars => TypedInv'
  BY AdmitTyped, StartTyped, OtherStepsTyped DEF Next
<1> QED
  BY <1>1, <1>2, PTL DEF Spec

-----------------------------------------------------------------------------
(* What a session checks before it writes                                  *)

\* The model an instrument was identified as has channels.
LEMMA IdentifiedChannels ==
  ASSUME NEW r, NEW b, IdentityHolds(r, b)
  PROVE  LET supported == ModelChannels[Detected(b)] IN
         supported \subseteq Int /\ IsFiniteSet(supported) /\ supported # {}
<1>1. Detected(b) \in Drivers
  BY DEF IdentityHolds, DriverFor
<1> QED
  BY <1>1, ModelsAssumption

\* The channels of a ramp list.
LEMMA ListedChannels ==
  ASSUME NEW segments, IsTable(segments), \A s \in ToSet(segments) : SegmentTyped(s)
  PROVE  LET all == UNION {ToSet(SegmentChannels(s)) : s \in ToSet(segments)} IN
         IsTable(Ascending(all)) /\ ToSet(Ascending(all)) = all
<1> DEFINE sets == {ToSet(SegmentChannels(s)) : s \in ToSet(segments)}
<1>1. IsFiniteSet(ToSet(segments))
  BY ElementsFinite
<1>2. [s \in ToSet(segments) |-> ToSet(SegmentChannels(s))] \in Surjection(ToSet(segments), sets)
  BY DEF Surjection
<1>3. IsFiniteSet(sets)
  <2> HIDE DEF sets
  <2> QED
    BY <1>1, <1>2, FS_Surjection
<1>4. \A T \in sets : IsFiniteSet(T) /\ T \subseteq Int
  BY ElementsFinite DEF SegmentTyped
<1> HIDE DEF sets
<1>5. IsFiniteSet(UNION sets) /\ UNION sets \subseteq Int
  BY <1>3, <1>4, FS_UNION
<1> QED
  BY <1>5, AscendingHasAll DEF sets

\* The channels of a restore.
LEMMA RestoredChannels ==
  ASSUME NEW d, SnapshotValid(registry, d), NEW selected,
         ModelChannels[d.resolved] \subseteq Int, IsFiniteSet(ModelChannels[d.resolved])
  PROVE  IsTable(RestoreChannels(d, selected))
<1> DEFINE all == ChannelsIn(d.readback)
           some == IF selected[1] = "str" THEN all ELSE all \cap {selected[2]}
<1>1. all \subseteq ModelChannels[d.resolved]
  BY DEF SnapshotValid, SectionValid, ChannelsIn
<1>2. RestoreChannels(d, selected) = Ascending(some)
  BY DEF RestoreChannels
<1> HIDE DEF all
<1>3. some \in SUBSET ModelChannels[d.resolved]
  BY <1>1
<1> HIDE DEF some
<1>4. some \subseteq Int /\ IsFiniteSet(some)
  BY <1>3, FS_Subset
<1> QED
  BY <1>2, <1>4, AscendingHasAll

\* Whatever a session is for, the check that a write of a setpoint needs comes before it.
LEMMA StepsLaid ==
  ASSUME NEW r, Ready(r), NEW b, IdentityHolds(r, b)
  PROVE  Laid(r, StepsOf(r, b))
<1> DEFINE p == r.parameters
           d == p["document"][2]
           model == Detected(b)
           supported == ModelChannels[model]
           channels == SessionChannels(r, b)
           v == Setpoint(p, "voltage")
           i == Setpoint(p, "current")
<1>1. supported \subseteq Int /\ IsFiniteSet(supported) /\ supported # {}
  BY IdentifiedChannels
<1>2. CASE IsOutput(r)
  <2>1. /\ r.command \in {"set", "apply", "smoke-output", "output-on", "cycle-output", "output-off", "safe-off",
                          "output-state", "ramp"}
        /\ Selects(p) /\ SetpointsTyped(p) /\ (r.command = "ramp" => RampTyped(p))
    BY <1>2 DEF Ready, IsOutput, DirectOutputCommands
  <2>2. channels = ChannelsOf(p, supported)
    BY <2>1 DEF SessionChannels
  <2> HIDE DEF supported
  <2>3. IsTable(channels) /\ channels # << >>
    BY <1>1, <2>1, <2>2, ChannelsTable
  <2>4. v \in Int \cup {NoValue} /\ i \in Int \cup {NoValue}
    BY <2>1 DEF Setpoint, SetpointsTyped
  <2> HIDE DEF channels, v, i, p, model
  <2>5. StepsOf(r, b) =
          CASE r.command = "set"          -> SetSteps(model, channels[1], v, i)
            [] r.command = "apply"        -> ApplySteps(model, channels, p, v, i)
            [] r.command = "smoke-output" -> SmokeSteps(model, channels, channels[1], v, i)
            [] r.command = "output-on"    -> CheckProgrammed(channels, b) \o SwitchEach("on", channels)
            [] r.command = "cycle-output" -> CheckProgrammed(channels, b) \o SwitchEach("on", channels)
                                               \o SwitchEach("off", channels)
            [] r.command = "output-off"   -> SwitchEach("channel", channels) \o SwitchEach("off", channels)
            [] r.command = "safe-off"     -> SwitchEach("off", channels)
            [] r.command = "output-state" -> SwitchEach("channel", channels)
            [] r.command = "ramp"         -> RampSteps(model, channels, p)
    BY <2>1 DEF StepsOf, channels, v, i, p, model
  <2>6. CASE r.command = "set"
    BY <2>4, <2>5, <2>6, SetLaid
  <2>7. CASE r.command = "apply"
    BY <2>3, <2>4, <2>5, <2>7, ApplyLaid
  <2>8. CASE r.command = "smoke-output"
    BY <2>4, <2>5, <2>8, SmokeLaid
  <2>9. CASE r.command \in {"output-on", "cycle-output", "output-off", "safe-off", "output-state"}
    <3>1. /\ Laid(r, CheckProgrammed(channels, b) \o SwitchEach("on", channels))
          /\ Laid(r, CheckProgrammed(channels, b) \o SwitchEach("on", channels) \o SwitchEach("off", channels))
          /\ Laid(r, SwitchEach("channel", channels) \o SwitchEach("off", channels))
          /\ Laid(r, SwitchEach("off", channels)) /\ Laid(r, SwitchEach("channel", channels))
      BY <2>3, SwitchingLaid
    <3> QED
      BY <2>5, <2>9, <3>1
  <2>10. CASE r.command = "ramp"
    BY <2>1, <2>3, <2>5, <2>10, RampLaid
  <2> QED
    BY <2>1, <2>6, <2>7, <2>8, <2>9, <2>10
<1>3. CASE r.command = "ramp-list"
  <2>1. ListTyped(d, p)
    BY <1>3 DEF Ready
  <2>2. channels = Ascending(UNION {ToSet(SegmentChannels(s)) : s \in ToSet(d.segments)})
    BY <1>3 DEF SessionChannels
  <2>3. StepsOf(r, b) = RampListSteps(model, channels, d, p)
    BY <1>3 DEF StepsOf
  <2> HIDE DEF channels, model, d, p
  <2>4. /\ IsTable(channels)
        /\ ToSet(channels) = UNION {ToSet(SegmentChannels(s)) : s \in ToSet(d.segments)}
    BY <2>1, <2>2, ListedChannels DEF ListTyped
  <2> QED
    BY <2>1, <2>3, <2>4, RampListLaid DEF ListTyped
<1>4. CASE r.command = "sequence"
  <2>1. SequenceTyped(d, p)
    BY <1>4 DEF Ready
  <2>2. StepsOf(r, b) = SequenceSteps(model, d, p, b)
    BY <1>4 DEF StepsOf
  <2> HIDE DEF model, d, p
  <2> QED
    BY <1>1, <2>1, <2>2, SequenceLaid DEF SequenceTyped
<1>5. CASE IsRestore(r)
  <2>1. r.command = "restore-from-snapshot" /\ SnapshotValid(registry, d) /\ d.resolved = model
    BY <1>5 DEF Ready, IsRestore, IdentityHolds, SameInstrument
  <2>2. channels = RestoreChannels(d, p["channel"]) /\ StepsOf(r, b) = RestoreSteps(d, channels, p)
    BY <2>1 DEF SessionChannels, StepsOf
  <2> HIDE DEF channels
  <2>3. IsTable(channels)
    BY <1>1, <2>1, <2>2, RestoredChannels
  <2> QED
    BY <2>1, <2>2, <2>3, RestoreLaid
<1>6. IsOutput(r) \/ r.command \in {"ramp-list", "sequence"} \/ IsRestore(r)
  BY DEF Ready, Opens, IsOutput, IsRestore, DocumentCommands
<1> QED
  BY <1>2, <1>3, <1>4, <1>5, <1>6

\* What has been checked allows the write w: its setpoints passed a check, or
\* all that the document recorded fit the ratings.
Met(r, done, w) ==
  \/ \E k \in done : Covers(k[1], k[2], k[3], w)
  \/ /\ Recorded(r, w)
     /\ LET d == r.parameters["document"][2] IN
        RestoreSetpointsFit(d, RestoreChannels(d, r.parameters["channel"]))

\* Every write of a setpoint that remains is allowed, or follows the check it needs.
Grounded(r, done, s) ==
  /\ IsTable(s)
  /\ \A n \in 1..Len(s) :
       s[n][1] \in Setting => Met(r, done, s[n]) \/ \E m \in 1..n - 1 : Permits(r, s[m], s[n])

\* A script of a session is grounded before anything is checked.
LEMMA LaidGrounded == ASSUME NEW r, NEW done, NEW s, Laid(r, s) PROVE Grounded(r, done, s)
BY DEF Laid, Grounded

\* Nothing needs a check where no setpoint is written.
LEMMA NothingGrounded ==
  ASSUME NEW r, NEW done, NEW s, IsTable(s), \A x \in ToSet(s) : x[1] \notin Setting
  PROVE  Grounded(r, done, s)
BY NothingWritten, LaidGrounded

\* The first write of a setpoint that remains is allowed.
LEMMA HeadMet ==
  ASSUME NEW r, NEW done, NEW s, Grounded(r, done, s), s # << >>, s[1][1] \in Setting
  PROVE  Met(r, done, s[1])
<1>1. 1 \in 1..Len(s)
  BY FirstAndRest DEF Grounded, IsTable
<1> QED
  BY <1>1 DEF Grounded

\* After its first element a script is grounded in what that has established.
LEMMA TailGrounded ==
  ASSUME NEW r, NEW done, NEW s, Grounded(r, done, s), s # << >>,
         NEW after, done \subseteq after,
         \A w : w[1] \in Setting /\ Permits(r, s[1], w) => Met(r, after, w)
  PROVE  Grounded(r, after, Tail(s))
<1> DEFINE t == Tail(s)
<1>1. s \in Seq(ToSet(s)) /\ Len(s) \in Nat /\ 1 \in 1..Len(s)
  BY FirstAndRest, LenProperties DEF Grounded, IsTable
<1>2. Len(t) = Len(s) - 1 /\ \A n \in 1..Len(t) : t[n] = s[n + 1]
  BY <1>1
<1>3. IsTable(t)
  BY FirstAndRest DEF Grounded
<1> HIDE DEF t
<1>4. ASSUME NEW w, Met(r, done, w) PROVE Met(r, after, w)
  BY <1>4 DEF Met
<1>5. ASSUME NEW n \in 1..Len(t), t[n][1] \in Setting
      PROVE  Met(r, after, t[n]) \/ \E m \in 1..n - 1 : Permits(r, t[m], t[n])
  <2>1. n + 1 \in 1..Len(s) /\ t[n] = s[n + 1] /\ n \in Nat
    BY <1>1, <1>2
  <2>2. Met(r, done, t[n]) \/ \E m \in 1..(n + 1) - 1 : Permits(r, s[m], t[n])
    BY <1>5, <2>1 DEF Grounded
  <2>3. CASE Met(r, done, t[n])
    BY <1>4, <2>3
  <2>4. ASSUME NEW m \in 1..(n + 1) - 1, Permits(r, s[m], t[n])
        PROVE  Met(r, after, t[n]) \/ \E x \in 1..n - 1 : Permits(r, t[x], t[n])
    <3>1. CASE m = 1
      BY <1>5, <2>4, <3>1
    <3>2. CASE m # 1
      <4>1. m - 1 \in 1..n - 1 /\ m - 1 \in 1..Len(t) /\ (m - 1) + 1 = m
        BY <1>1, <1>2, <2>1, <3>2
      <4>2. t[m - 1] = s[m]
        BY <1>2, <4>1
      <4> QED
        BY <2>4, <4>1, <4>2
    <3> QED
      BY <3>1, <3>2
  <2> QED
    BY <2>2, <2>3, <2>4
<1> QED
  BY <1>3, <1>5 DEF Grounded, t

\* The outputs of an instrument that is open, and which ratings they have.
Fitted(b) ==
  /\ b.name # NoValue
  /\ DOMAIN b.voltage = DOMAIN b.on /\ DOMAIN b.current = DOMAIN b.on
  /\ IsFiniteSet(DOMAIN b.on) /\ DOMAIN b.on \subseteq Nat
  /\ b.model \in DOMAIN Ratings => DOMAIN b.on \subseteq DOMAIN Ratings[b.model]

\* What is known of the work of a session: the checks that are recorded passed,
\* and what remains is grounded in them.
Working ==
  /\ Fitted(bench) /\ IsTable(enabled)
  /\ \A k \in checked : k[4] \in Docs /\ Passes(k[4], request, bench, k[1], k[2], k[3])
  /\ Grounded(request, checked, todo)

WorkInv ==
  /\ pc \in {"import", "idle", "received", "admitted", "opening"} => checked = {} /\ enabled = <<>>
  /\ pc \in Sessions => Working

\* A call sets what it is told to set, of the channel it is told.
LEMMA EffectSets ==
  ASSUME NEW b, DOMAIN b = {"model", "maker", "name", "serial", "voltage", "current", "on"},
         NEW step, step[1] \in Writes
  PROVE  LET e == Effect(b, step) IN
         /\ DOMAIN e.voltage = DOMAIN b.voltage /\ DOMAIN e.current = DOMAIN b.current
         /\ DOMAIN e.on = DOMAIN b.on
         /\ \A c \in DOMAIN b.voltage : e.voltage[c] # b.voltage[c] =>
              step[1] \in {"pair", "voltage"} /\ step[2] = c /\ e.voltage[c] = step[3]
         /\ \A c \in DOMAIN b.current : e.current[c] # b.current[c] =>
              step[1] \in {"pair", "current"} /\ step[2] = c /\ e.current[c] = step[4]
BY DEF Effect, Writes

\* A call leaves the outputs of the instrument what they are.
LEMMA EffectFits ==
  ASSUME NEW b, DOMAIN b = {"model", "maker", "name", "serial", "voltage", "current", "on"},
         Fitted(b), NEW step, step[1] \in Writes
  PROVE  Fitted(Effect(b, step))
<1> DEFINE e == Effect(b, step)
<1>1. e.model = b.model /\ e.name = b.name
  BY EffectKeepsIdentity
<1>2. DOMAIN e.voltage = DOMAIN b.voltage /\ DOMAIN e.current = DOMAIN b.current /\ DOMAIN e.on = DOMAIN b.on
  BY EffectSets
<1> HIDE DEF e
<1> QED
  BY <1>1, <1>2 DEF Fitted, e

\* What a check makes of an instrument depends on what it answers to *IDN? only.
LEMMA PassesKept ==
  ASSUME UNCHANGED <<registry, request>>, bench'.maker = bench.maker, bench'.name = bench.name,
         NEW k, Passes(k[4], request, bench, k[1], k[2], k[3])
  PROVE  Passes(k[4], request, bench, k[1], k[2], k[3])'
<1>1. Detected(bench)' = Detected(bench)
  BY DEF Detected
<1> QED
  BY <1>1 DEF Passes

\* A session starts with nothing checked and a script that is laid out.
LEMMA OpenWorks == ASSUME IdentityInv, TypedInv, WorkInv, Open PROVE WorkInv'
<1>1. PICK b \in Benches :
        /\ bench' = b
        /\ IF IdentityHolds(request, b) /\ ChannelsSupported(request, b) /\ LoopTimingHolds(request)
           THEN pc' = "session" /\ todo' = StepsOf(request, b)
           ELSE pc' = "refused" /\ UNCHANGED todo
  BY DEF Open
<1>2. pc = "opening" /\ UNCHANGED <<registry, request, enabled, checked>>
  BY DEF Open
<1>3. checked = {} /\ enabled = <<>>
  BY <1>2 DEF WorkInv
<1>4. CASE pc' = "session"
  <2>1. IdentityHolds(request, b) /\ todo' = StepsOf(request, b)
    BY <1>1, <1>4
  <2>2. Ready(request)
    BY <1>2 DEF TypedInv
  <2>3. Laid(request, todo')
    BY <2>1, <2>2, StepsLaid
  <2>4. Grounded(request, {}, todo')
    BY <2>3, LaidGrounded
  <2>5. Fitted(b)
    BY BenchesAssumption DEF Fitted
  <2>6. IsTable(enabled)
    BY <1>3, SmallTables
  <2>7. Working'
    BY <1>1, <1>2, <1>3, <2>4, <2>5, <2>6 DEF Working
  <2> QED
    BY <1>4, <2>7 DEF WorkInv
<1>5. CASE pc' = "refused"
  BY <1>5 DEF WorkInv, Sessions
<1> QED
  BY <1>1, <1>4, <1>5

\* A check that is passed is recorded, or grounds a restore.
LEMMA ChecksWork ==
  ASSUME IdentityInv, TypedInv, WorkInv, CheckLimits \/ CheckRestore \/ CheckConfirmation \/ CheckChannel
  PROVE  WorkInv'
<1>1. /\ pc = "session" /\ todo # <<>> /\ UNCHANGED <<registry, doc, request, bench, enabled>>
      /\ \/ pc' = "refused"
         \/ pc' = "session" /\ todo' = Tail(todo)
  BY DEF CheckLimits, CheckRestore, CheckConfirmation, CheckChannel, Check
<1>2. Working
  BY <1>1 DEF WorkInv, Sessions
<1>3. CASE pc' = "refused"
  BY <1>3 DEF WorkInv, Sessions
<1>4. ASSUME pc' = "session",
             checked \subseteq checked',
             \A k \in checked' \ checked : k[4] \in Docs /\ Passes(k[4], request, bench, k[1], k[2], k[3]),
             \A w : w[1] \in Setting /\ Permits(request, todo[1], w) => Met(request, checked', w)
      PROVE  WorkInv'
  <2>1. todo' = Tail(todo)
    BY <1>1, <1>4
  <2>2. Grounded(request, checked', todo')
    BY <1>1, <1>2, <1>4, <2>1, TailGrounded DEF Working
  <2>3. ASSUME NEW k \in checked'
        PROVE  k[4] \in Docs /\ Passes(k[4], request, bench, k[1], k[2], k[3])'
    <3>1. k[4] \in Docs /\ Passes(k[4], request, bench, k[1], k[2], k[3])
      BY <1>2, <1>4 DEF Working
    <3> QED
      BY <1>1, <3>1, PassesKept
  <2>4. Working'
    BY <1>1, <1>2, <2>2, <2>3 DEF Working
  <2> QED
    BY <1>4, <2>4 DEF WorkInv
<1>5. CASE CheckLimits /\ pc' = "session"
  <2> DEFINE x == todo[1]
             limits == Read(x[2])
  <2>1. /\ x[1] = "limits" /\ checked' = checked \cup {<<x[2], x[3], x[4], doc>>}
        /\ limits.ok /\ ValidateSetpoint(limits.limits, x[2], x[3], x[4])
        /\ ValidateEffectiveSetpoint(Detected(bench), limits.limits, x[2], x[3], x[4])
    BY <1>5 DEF CheckLimits, Check, NextStep, Seen
  <2>2. Passes(doc, request, bench, x[2], x[3], x[4])
    BY <2>1 DEF Passes, Read, SafetyLimits
  <2>3. doc \in Docs
    BY DEF TypedInv
  <2>4. \A k \in checked' \ checked : k[4] \in Docs /\ Passes(k[4], request, bench, k[1], k[2], k[3])
    BY <2>1, <2>2, <2>3
  <2>5. ASSUME NEW w, Permits(request, todo[1], w) PROVE Met(request, checked', w)
    <3>1. Covers(x[2], x[3], x[4], w)
      BY <2>1, <2>5 DEF Permits
    <3>2. <<x[2], x[3], x[4], doc>> \in checked'
      BY <2>1
    <3> QED
      BY <3>1, <3>2 DEF Met
  <2> HIDE DEF x, limits
  <2>6. checked \subseteq checked'
    BY <2>1
  <2> QED
    BY <1>4, <1>5, <2>4, <2>5, <2>6
<1>6. CASE CheckRestore /\ pc' = "session"
  <2>1. /\ todo[1][1] = "fit" /\ checked' = checked
        /\ RestoreSetpointsFit(request.parameters["document"][2], SessionChannels(request, bench))
    BY <1>6 DEF CheckRestore, Check
  <2>2. ASSUME NEW w, Permits(request, todo[1], w) PROVE Met(request, checked', w)
    <3>1. Recorded(request, w)
      BY <2>1, <2>2 DEF Permits
    <3>2. SessionChannels(request, bench)
            = RestoreChannels(request.parameters["document"][2], request.parameters["channel"])
      BY <3>1 DEF Recorded, SessionChannels
    <3> QED
      BY <2>1, <3>1, <3>2 DEF Met
  <2> QED
    BY <1>4, <1>6, <2>1, <2>2
<1>7. CASE (CheckConfirmation \/ CheckChannel) /\ pc' = "session"
  <2>1. todo[1][1] \in {"confirm", "channel"} /\ checked' = checked
    BY <1>7 DEF CheckConfirmation, CheckChannel, Check
  <2>2. \A w : ~Permits(request, todo[1], w)
    BY <2>1 DEF Permits
  <2> QED
    BY <1>4, <1>7, <2>1, <2>2
<1> QED
  BY <1>1, <1>3, <1>5, <1>6, <1>7

\* What follows a failure sets nothing, or is what a sequence had left to do.
LEMMA FailureGrounded ==
  ASSUME IdentityInv, Working, pc \in Sessions, todo # <<>>,
         NextStep[1] \in Writes \/ NextStep[1] = "reject"
  PROVE  Grounded(request, checked, AfterFailure)
<1>1. \A w : ~Permits(request, todo[1], w)
  BY DEF Permits, NextStep, Writes
<1>2. Grounded(request, checked, Tail(todo))
  BY <1>1, TailGrounded DEF Working
<1>3. IsTable(Ascending(DOMAIN bench.on))
  <2>1. IsFiniteSet(DOMAIN bench.on) /\ DOMAIN bench.on \subseteq Int
    BY DEF Working, Fitted
  <2> QED
    BY <2>1, AscendingHasAll
<1>4. ASSUME NEW channels, IsTable(channels)
      PROVE  Grounded(request, checked, SwitchEach("off", channels))
  BY <1>4, SwitchesAre, NothingGrounded DEF Setting
<1>5. Grounded(request, checked, <<>>)
  BY SmallTables, NothingGrounded
<1> DEFINE all == Ascending(DOMAIN bench.on)
<1>6. AfterFailure \in {SwitchEach("off", all), SwitchEach("off", enabled), Tail(todo), <<>>}
  BY DEF AfterFailure
<1> HIDE DEF all
<1>7. Grounded(request, checked, SwitchEach("off", all)) /\ Grounded(request, checked, SwitchEach("off", enabled))
  BY <1>3, <1>4 DEF Working, all
<1> QED
  BY <1>2, <1>5, <1>6, <1>7

\* A call that returns or raises leaves what remains grounded, and what was
\* checked passed.
LEMMA CallsWork == ASSUME IdentityInv, WorkInv, Write \/ Raise \/ Reject PROVE WorkInv'
<1>1. /\ pc \in Sessions /\ pc' \in Sessions /\ todo # <<>> /\ UNCHANGED <<registry, request, checked>>
      /\ NextStep[1] \in Writes \/ NextStep[1] = "reject"
  BY DEF Write, Raise, Reject, Sessions
<1>2. bench' = bench \/ (NextStep[1] \in Writes /\ bench' = Effect(bench, NextStep))
  BY DEF Write, Raise, Reject
<1>3. Working /\ Identified
  BY <1>1 DEF WorkInv, IdentityInv
<1>4. /\ Fitted(bench') /\ bench'.maker = bench.maker /\ bench'.name = bench.name
  BY <1>2, <1>3, EffectFits, EffectKeepsIdentity DEF Working, Identified
<1>5. \A k \in checked : k[4] \in Docs /\ Passes(k[4], request, bench, k[1], k[2], k[3])'
  BY <1>1, <1>3, <1>4, PassesKept DEF Working
<1>6. IsTable(enabled')
  <2>1. CASE Write /\ NextStep[1] = "on"
    <3>1. enabled' = Append(enabled, NextStep[2])
      BY <2>1 DEF Write
    <3>2. enabled \in Seq(ToSet(enabled) \cup {NextStep[2]})
      BY <1>3, WiderElements DEF Working, IsTable
    <3>3. enabled' \in Seq(ToSet(enabled) \cup {NextStep[2]})
      BY <3>1, <3>2
    <3> QED
      BY <3>3, OwnElements DEF IsTable
  <2>2. CASE ~(Write /\ NextStep[1] = "on")
    <3>1. enabled' = enabled
      BY <2>2 DEF Write, Raise, Reject
    <3> QED
      BY <1>3, <3>1 DEF Working
  <2> QED
    BY <2>1, <2>2
<1>7. Grounded(request, checked, todo')
  <2>1. CASE Write
    <3>1. todo' = Tail(todo) /\ todo[1][1] \in Writes
      BY <2>1 DEF Write, NextStep
    <3>2. \A w : ~Permits(request, todo[1], w)
      BY <3>1 DEF Permits, Writes
    <3> QED
      BY <1>1, <1>3, <3>1, <3>2, TailGrounded DEF Working
  <2>2. CASE Raise \/ Reject
    <3>1. todo' = AfterFailure
      BY <2>2 DEF Raise, Reject
    <3> QED
      BY <1>1, <1>3, <3>1, FailureGrounded
  <2> QED
    BY <2>1, <2>2
<1>8. Working'
  BY <1>1, <1>4, <1>5, <1>6, <1>7 DEF Working
<1>9. pc' \notin {"import", "idle", "received", "admitted", "opening"}
  BY <1>1 DEF Sessions
<1> QED
  BY <1>8, <1>9 DEF WorkInv

\* The other steps do nothing with the instrument.
LEMMA OtherStepsWork ==
  ASSUME WorkInv,
         Import \/ Receive \/ Admit \/ Start \/ Return \/ NextRequest \/ EditFiles \/ UNCHANGED vars
  PROVE  WorkInv'
<1>1. CASE Import \/ Receive \/ Return \/ NextRequest
  BY <1>1 DEF Import, Receive, Return, NextRequest, WorkInv, Sessions
<1>2. CASE Admit
  <2>1. pc = "received" /\ pc' \in {"admitted", "refused"} /\ UNCHANGED <<checked, enabled>>
    BY <1>2 DEF Admit
  <2> QED
    BY <2>1 DEF WorkInv, Sessions
<1>3. CASE Start
  <2>1. \A s : Dispatch(s) \in {"planned", "refused", "dispatched", "opening"}
    BY DEF Dispatch, Opening
  <2>2. /\ pc = "admitted" /\ UNCHANGED <<checked, enabled>>
        /\ pc' \in {"planned", "refused", "dispatched", "opening"}
    BY <1>3, <2>1 DEF Start
  <2> QED
    BY <2>2 DEF WorkInv, Sessions
<1>4. CASE EditFiles \/ UNCHANGED vars
  <2>1. UNCHANGED <<registry, request, pc, bench, todo, enabled, checked>>
    BY <1>4 DEF EditFiles, vars
  <2>2. ASSUME Working PROVE Working'
    <3>1. \A k \in checked : k[4] \in Docs /\ Passes(k[4], request, bench, k[1], k[2], k[3])'
      BY <2>1, <2>2, PassesKept DEF Working
    <3> QED
      BY <2>1, <2>2, <3>1 DEF Working
  <2> QED
    BY <2>1, <2>2 DEF WorkInv
<1> QED
  BY <1>1, <1>2, <1>3, <1>4

\* The three invariants together.
LimitsInv == IdentityInv /\ TypedInv /\ WorkInv

\* They hold in every reachable state.
LEMMA LimitsKept == Spec => []LimitsInv
<1>1. Init => WorkInv
  BY DEF Init, WorkInv, Sessions
<1>2. IdentityInv /\ TypedInv /\ WorkInv /\ [Next]_vars => WorkInv'
  BY OpenWorks, ChecksWork, CallsWork, OtherStepsWork DEF Next
<1>3. Spec => []IdentityInv
  BY IdentityKept
<1>4. Spec => []TypedInv
  BY RequestTyped
<1> QED
  BY <1>1, <1>2, <1>3, <1>4, PTL DEF Spec, LimitsInv

\* What WrittenWithinLimits asks of a step.
WrittenStep ==
  (pc \in Sessions) => \A c \in DOMAIN bench.on :
    LET v == IF bench'.voltage[c] # bench.voltage[c] THEN bench'.voltage[c] ELSE NoValue
        i == IF bench'.current[c] # bench.current[c] THEN bench'.current[c] ELSE NoValue
    IN /\ Rated(c, v, i)
       /\ {v, i} # {NoValue} /\ request.configured
            /\ request.command # "restore-from-snapshot" =>
            \E k \in checked :
              /\ k[1] = c
              /\ v # NoValue => k[2] = v /\ ~Above(v, Stated(k[4], request, c, "max_voltage"))
              /\ i # NoValue => k[3] = i /\ ~Above(i, Stated(k[4], request, c, "max_current"))

\* The limits of a configuration that could be read, or of none, are numbers.
LEMMA ReadNumbers ==
  ASSUME NEW d \in Docs, NEW r, NEW model, NEW c,
         RequestSafetyLimits(d, r.configured, r.runtime.resource, r.alias, model, c).ok
  PROVE  Numbers(RequestSafetyLimits(d, r.configured, r.runtime.resource, r.alias, model, c).limits)
<1>1. CASE r.configured
  <2>1. RequestSafetyLimits(d, r.configured, r.runtime.resource, r.alias, model, c).limits
          = EffectiveLimits(d, Looked(r), r.alias, model, c)
    BY <1>1, ConfigurationRead
  <2> QED
    BY <2>1, LimitsAreNumbers
<1>2. CASE ~r.configured
  BY <1>2 DEF RequestSafetyLimits, Numbers, NoLimits
<1> QED
  BY <1>1, <1>2

\* Setpoints that were checked are within the rating and the stated limits.
LEMMA CheckedIsWithin ==
  ASSUME Working, Identified, NEW c \in DOMAIN bench.on, NEW k \in checked, k[1] = c,
         NEW v, v # NoValue => k[2] = v /\ v \in Int,
         NEW i, i # NoValue => k[3] = i /\ i \in Int
  PROVE  /\ Rated(c, v, i)
         /\ request.configured =>
              /\ v # NoValue => ~Above(v, Stated(k[4], request, c, "max_voltage"))
              /\ i # NoValue => ~Above(i, Stated(k[4], request, c, "max_current"))
<1> DEFINE read == RequestSafetyLimits(k[4], request.configured, request.runtime.resource, request.alias,
                                       bench.name, c)
<1>1. /\ k[4] \in Docs /\ read.ok /\ ValidateSetpoint(read.limits, c, k[2], k[3])
      /\ ValidateEffectiveSetpoint(bench.model, read.limits, c, k[2], k[3])
  BY DEF Working, Passes, Identified
<1>2. bench.name # NoValue /\ (bench.model \in DOMAIN Ratings => DOMAIN bench.on \subseteq DOMAIN Ratings[bench.model])
  BY DEF Working, Fitted
<1>3. Numbers(read.limits)
  BY <1>1, ReadNumbers
<1> HIDE DEF read
<1>4. /\ k[2] \in Int => Rated(c, k[2], NoValue)
      /\ k[3] \in Int => Rated(c, NoValue, k[3])
      /\ k[2] \in Int /\ k[3] \in Int => Rated(c, k[2], k[3])
  BY <1>1, <1>2, <1>3, PassedIsRated
<1>5. Rated(c, NoValue, NoValue)
  BY DEF Rated
<1>6. Rated(c, v, i)
  <2>1. CASE v = NoValue /\ i = NoValue
    BY <1>5, <2>1
  <2>2. CASE v # NoValue /\ i = NoValue
    BY <1>4, <2>2
  <2>3. CASE v = NoValue /\ i # NoValue
    BY <1>4, <2>3
  <2>4. CASE v # NoValue /\ i # NoValue
    BY <1>4, <2>4
  <2> QED
    BY <2>1, <2>2, <2>3, <2>4
<1>7. ASSUME request.configured, v # NoValue PROVE ~Above(v, Stated(k[4], request, c, "max_voltage"))
  <2>1. Within(v, read.limits, "max_voltage") /\ v \in Int
    BY <1>1, <1>7 DEF ValidateSetpoint
  <2> QED
    BY <1>1, <1>2, <1>7, <2>1, PassedNotAbove DEF read
<1>8. ASSUME request.configured, i # NoValue PROVE ~Above(i, Stated(k[4], request, c, "max_current"))
  <2>1. Within(i, read.limits, "max_current") /\ i \in Int
    BY <1>1, <1>8 DEF ValidateSetpoint
  <2> QED
    BY <1>1, <1>2, <1>8, <2>1, PassedNotAbove DEF read
<1> QED
  BY <1>6, <1>7, <1>8

\* A call that sets nothing leaves nothing to ask.
LEMMA UnchangedIsWithin ==
  ASSUME bench' = bench \/ ~(NextStep[1] \in Setting), Identified, Working, Write \/ Raise \/ bench' = bench
  PROVE  WrittenStep
<1>1. bench' = bench \/ (NextStep[1] \in Writes \ Setting /\ bench' = Effect(bench, NextStep))
  BY DEF Write, Raise
<1>2. \A c \in DOMAIN bench.on : bench'.voltage[c] = bench.voltage[c] /\ bench'.current[c] = bench.current[c]
  BY <1>1, EffectSets DEF Setting, Identified, Working, Fitted
<1> QED
  BY <1>2 DEF WrittenStep, Rated

\* A call that sets something sets what was checked.
LEMMA SetIsWithin ==
  ASSUME Identified, Working, pc \in Sessions, todo # <<>>, NextStep[1] \in Setting,
         bench' = Effect(bench, NextStep)
  PROVE  WrittenStep
<1> DEFINE w == NextStep
           v(c) == IF bench'.voltage[c] # bench.voltage[c] THEN bench'.voltage[c] ELSE NoValue
           i(c) == IF bench'.current[c] # bench.current[c] THEN bench'.current[c] ELSE NoValue
<1>1. Met(request, checked, w)
  BY HeadMet DEF Working, NextStep
<1>2. ASSUME NEW c \in DOMAIN bench.on
      PROVE  /\ v(c) # NoValue => w[1] \in {"pair", "voltage"} /\ w[2] = c /\ v(c) = w[3]
             /\ i(c) # NoValue => w[1] \in {"pair", "current"} /\ w[2] = c /\ i(c) = w[4]
  <2>1. w[1] \in Writes /\ c \in DOMAIN bench.voltage /\ c \in DOMAIN bench.current
    BY DEF Setting, Writes, Working, Fitted
  <2> HIDE DEF w
  <2> QED
    BY <2>1, EffectSets DEF Identified, w
<1> HIDE DEF w, v, i
<1>3. ASSUME NEW c \in DOMAIN bench.on
      PROVE  /\ Rated(c, v(c), i(c))
             /\ {v(c), i(c)} # {NoValue} /\ request.configured
                  /\ request.command # "restore-from-snapshot" =>
                  \E k \in checked :
                    /\ k[1] = c
                    /\ v(c) # NoValue => k[2] = v(c) /\ ~Above(v(c), Stated(k[4], request, c, "max_voltage"))
                    /\ i(c) # NoValue => k[3] = i(c) /\ ~Above(i(c), Stated(k[4], request, c, "max_current"))
  <2>1. CASE v(c) = NoValue /\ i(c) = NoValue
    BY <2>1 DEF Rated
  <2>2. CASE (v(c) # NoValue \/ i(c) # NoValue) /\ \E k \in checked : Covers(k[1], k[2], k[3], w)
    <3>1. PICK k \in checked : Covers(k[1], k[2], k[3], w)
      BY <2>2
    <3>2. /\ k[1] = c /\ (v(c) # NoValue => k[2] = v(c) /\ v(c) \in Int)
          /\ i(c) # NoValue => k[3] = i(c) /\ i(c) \in Int
      BY <1>2, <2>2, <3>1 DEF Covers
    <3> QED
      BY <3>2, CheckedIsWithin
  <2>3. CASE (v(c) # NoValue \/ i(c) # NoValue) /\ ~\E k \in checked : Covers(k[1], k[2], k[3], w)
    <3> DEFINE d == request.parameters["document"][2]
               channels == RestoreChannels(d, request.parameters["channel"])
               record == RecordOf(d.readback, c)
    <3>1. Recorded(request, w) /\ RestoreSetpointsFit(d, channels)
      BY <1>1, <2>3 DEF Met
    <3>2. w[2] = c
      BY <1>2, <2>3
    <3>3. /\ request.command = "restore-from-snapshot" /\ c \in ToSet(channels)
          /\ w[1] \in {"voltage", "current"}
          /\ w[1] = "voltage" => w[3] = record.voltage
          /\ w[1] = "current" => w[4] = record.current
      BY <3>1, <3>2 DEF Recorded
    <3>4. ValidateEffectiveSetpoint(d.resolved, NoLimits, c, record.voltage, record.current)
      BY <3>1, <3>3 DEF RestoreSetpointsFit
    <3>5. bench.model = d.resolved
      BY <3>3 DEF Identified, SameInstrument
    <3>6. Numbers(NoLimits)
      BY DEF Numbers, NoLimits
    <3> HIDE DEF d, channels, record
    <3>7. Rated(c, record.voltage, NoValue) /\ Rated(c, NoValue, record.current)
      BY <3>4, <3>5, <3>6, PassedIsRated DEF Working, Fitted
    <3>8. \/ v(c) = record.voltage /\ i(c) = NoValue
          \/ v(c) = NoValue /\ i(c) = record.current
      BY <1>2, <2>3, <3>3
    <3> QED
      BY <3>3, <3>7, <3>8
  <2> QED
    BY <2>1, <2>2, <2>3
<1> QED
  BY <1>3 DEF WrittenStep, v, i

\* Every step writes within the limits.
LEMMA StepsWrite == ASSUME LimitsInv, [Next]_vars PROVE WrittenStep
<1> SUFFICES ASSUME pc \in Sessions PROVE WrittenStep
  BY DEF WrittenStep
<1>1. Working /\ Identified
  BY DEF LimitsInv, WorkInv, IdentityInv
<1>2. CASE bench' = bench
  BY <1>1, <1>2, UnchangedIsWithin
<1>3. CASE bench' # bench
  <2>1. pc \notin {"opening", "refused", "planned", "dispatched", "done", "failed"}
    BY DEF Sessions
  <2>2. (Write \/ Raise) /\ todo # <<>> /\ bench' = Effect(bench, NextStep)
    BY <1>3, <2>1 DEF Next, vars, Import, Receive, Admit, Start, Open, CheckLimits, CheckRestore,
       CheckConfirmation, CheckChannel, Check, Write, Raise, Reject, Return, NextRequest, EditFiles
  <2>3. CASE NextStep[1] \in Setting
    BY <1>1, <2>2, <2>3, SetIsWithin
  <2>4. CASE NextStep[1] \notin Setting
    BY <1>1, <2>2, <2>4, UnchangedIsWithin
  <2> QED
    BY <2>3, <2>4
<1> QED
  BY <1>2, <1>3

\* No setpoint reaches a supply above its official rating, nor above the most
\* specific limit of a configuration it was checked against.
THEOREM WrittenWithin == Spec => WrittenWithinLimits
<1>1. LimitsInv /\ [Next]_vars => [WrittenStep]_vars
  BY StepsWrite
<1>2. Spec => []LimitsInv
  BY LimitsKept
<1> QED
  BY <1>1, <1>2, PTL DEF Spec, WrittenWithinLimits, WrittenStep

-----------------------------------------------------------------------------
(* What has been admitted is admitted again *)

\* Parameters as their normalization leaves them.
Normal(command, p) ==
  LET contract == Contracts[command]
      fields == contract.fields
  IN /\ command \in DOMAIN Contracts /\ p = [n \in DOMAIN p |-> p[n]] /\ DOMAIN p \subseteq DOMAIN fields
     /\ command \in ProtectionCommands => "all" \notin DOMAIN p
     /\ command \in SemanticDefaults => Defaulted(contract) \subseteq DOMAIN p
     /\ \A n \in DOMAIN p : FieldAccepts(fields[n], p[n])
     /\ \A group \in contract.exclusive : Present(group, p) <= 1
     /\ \A group \in contract.exactlyOne : Present(group, p) = 1
     /\ \A group \in contract.atLeastOne : Present(group, p) >= 1
     /\ \A n \in DOMAIN fields : fields[n].required => n \in DOMAIN p
     /\ \A d \in contract.depends : d[1] \in DOMAIN p => d[2] \in DOMAIN p
     /\ command = "ramp" /\ "channels" \in DOMAIN p => Distinct(p["channels"][2])
     /\ command = "trigger-fire" /\ p["wait_complete"] = Yes => "channel" \in DOMAIN p

\* A command's table, as TablesAssumption has it.
LEMMA TableOf ==
  ASSUME NEW command \in DOMAIN Contracts
  PROVE  LET contract == Contracts[command]
             aliases == DOMAIN contract.aliases
             meant == {contract.aliases[a] : a \in aliases}
             defaulted == Defaulted(contract)
         IN /\ \A a \in aliases \cup contract.removed : a \notin DOMAIN contract.fields
            /\ meant \subseteq DOMAIN contract.fields
            /\ command \in ProtectionCommands => "all" \notin meant \cup defaulted
            /\ \A n \in defaulted : FieldAccepts(contract.fields[n], contract.fields[n].default[1])
            /\ \A group \in contract.exclusive :
                 \/ group \cap (aliases \cup meant \cup defaulted) = {}
                 \/ \E a \in aliases : group = {a, contract.aliases[a]}
            /\ \A group \in contract.exactlyOne : group \cap (aliases \cup meant \cup defaulted) = {}
            /\ \A group \in contract.atLeastOne : group \cap defaulted = {}
            /\ \A d \in contract.depends : d[1] \notin defaulted
<1>1. (DOMAIN Contracts[command].aliases \cup Contracts[command].removed) \cap DOMAIN Contracts[command].fields = {}
  BY TablesAssumption
<1>2. \A a \in DOMAIN Contracts[command].aliases \cup Contracts[command].removed :
        a \notin DOMAIN Contracts[command].fields
  BY <1>1
<1> QED
  BY <1>2, TablesAssumption

\* Where no parameter goes by an alias, renaming changes nothing.
LEMMA NothingRenamed ==
  ASSUME NEW contract, NEW p, p = [n \in DOMAIN p |-> p[n]], DOMAIN p \cap DOMAIN contract.aliases = {}
  PROVE  Renamed(contract, p) = p
<1>1. \A n \in DOMAIN p : Canonical(contract, n) = n
  BY DEF Canonical
<1>2. {Canonical(contract, k) : k \in DOMAIN p} = DOMAIN p
  BY <1>1
<1>3. \A n \in DOMAIN p : (CHOOSE k \in DOMAIN p : Canonical(contract, k) = n) = n
  BY <1>1
<1>4. Renamed(contract, p) = [n \in DOMAIN p |-> p[CHOOSE k \in DOMAIN p : Canonical(contract, k) = n]]
  BY <1>2 DEF Renamed
<1> QED
  BY <1>3, <1>4

\* What is normal is admitted as it is.
LEMMA NormalStays ==
  ASSUME NEW command, NEW p, Normal(command, p)
  PROVE  RequestNormalizes(command, p) /\ Normalized(command, p) = p
<1> DEFINE contract == Contracts[command]
<1>1. command \in DOMAIN Contracts /\ p = [n \in DOMAIN p |-> p[n]] /\ DOMAIN p \subseteq DOMAIN contract.fields
      /\ (command \in ProtectionCommands => "all" \notin DOMAIN p)
      /\ (command \in SemanticDefaults => Defaulted(contract) \subseteq DOMAIN p)
  BY DEF Normal
<1>2. \A a \in DOMAIN contract.aliases \cup contract.removed : a \notin DOMAIN p
  BY <1>1, TableOf
<1>3. Renamed(contract, p) = p
  <2>1. DOMAIN p \cap DOMAIN contract.aliases = {}
    BY <1>2
  <2> HIDE DEF contract
  <2> QED
    BY <1>1, <2>1, NothingRenamed
<1>4. ParametersAdmitted(contract, p)
  <2>1. DOMAIN p \cap contract.removed = {}
    BY <1>2
  <2> QED
    BY <1>1, <1>3, <2>1 DEF Normal, ParametersAdmitted
<1>5. command \in ProtectionCommands => SelectorNormalizes(p) /\ NormalizeSelector(p) = p
  BY <1>1 DEF SelectorNormalizes, NormalizeSelector
<1>6. Materialized(command, contract, p) = p
  <2>1. CASE command \in SemanticDefaults
    <3>1. {n \in DOMAIN contract.fields \ DOMAIN p : contract.fields[n].default # <<>>} = {}
      BY <1>1, <2>1 DEF Defaulted
    <3>2. WithDefaults(contract, p) =
            [n \in DOMAIN p \cup {} |-> IF n \in DOMAIN p THEN p[n] ELSE contract.fields[n].default[1]]
      BY <3>1 DEF WithDefaults
    <3>3. DOMAIN p \cup {} = DOMAIN p
      OBVIOUS
    <3> HIDE DEF contract
    <3>4. WithDefaults(contract, p) = p
      BY <1>1, <3>2, <3>3
    <3> QED
      BY <2>1, <3>4 DEF Materialized
  <2> QED
    BY <2>1 DEF Materialized
<1>7. (IF command \in ProtectionCommands THEN NormalizeSelector(p) ELSE p) = p
  BY <1>5
<1>8. Normalized(command, p) = p
  BY <1>3, <1>6, <1>7 DEF Normalized
<1> QED
  BY <1>1, <1>4, <1>5, <1>7, <1>8 DEF RequestNormalizes, Normal

\* At most one element of a pair is among elements that lack its first.
LEMMA PairWithoutFirst ==
  ASSUME NEW a, NEW b, NEW S, a \notin S
  PROVE  Cardinality({a, b} \cap S) <= 1
<1>1. CASE b \in S
  <2>1. {a, b} \cap S = {b}
    BY <1>1
  <2> QED
    BY <2>1, FS_Singleton
<1>2. CASE b \notin S
  <2>1. {a, b} \cap S = {}
    BY <1>2
  <2> QED
    BY <2>1, FS_EmptySet
<1> QED
  BY <1>1, <1>2

\* The parameters a request is normalized from, its selector replaced.
Selected(command, raw) == IF command \in ProtectionCommands THEN NormalizeSelector(raw) ELSE raw

\* Which parameters normalization yields: the renamed ones and defaults.
LEMMA NormalizedAre ==
  ASSUME NEW command \in DOMAIN Contracts, NEW raw
  PROVE  LET contract == Contracts[command]
             given == Renamed(contract, Selected(command, raw))
             p == Normalized(command, raw)
         IN /\ p = [n \in DOMAIN p |-> p[n]]
            /\ DOMAIN given = {Canonical(contract, k) : k \in DOMAIN Selected(command, raw)}
            /\ DOMAIN given \subseteq DOMAIN p /\ \A n \in DOMAIN given : p[n] = given[n]
            /\ \A n \in DOMAIN p \ DOMAIN given :
                 n \in Defaulted(contract) /\ p[n] = contract.fields[n].default[1]
            /\ command \in SemanticDefaults => Defaulted(contract) \subseteq DOMAIN p
<1> DEFINE contract == Contracts[command]
           given == Renamed(contract, Selected(command, raw))
           p == Normalized(command, raw)
<1>1. /\ DOMAIN given = {Canonical(contract, k) : k \in DOMAIN Selected(command, raw)}
      /\ given = [n \in DOMAIN given |-> given[n]]
  BY DEF Renamed
<1>2. p = Materialized(command, contract, given)
  BY DEF Normalized, Selected
<1> HIDE DEF contract, given, p
<1>3. CASE command \in SemanticDefaults
  <2> DEFINE missing == {n \in DOMAIN contract.fields \ DOMAIN given : contract.fields[n].default # <<>>}
  <2>1. p = [n \in DOMAIN given \cup missing |->
               IF n \in DOMAIN given THEN given[n] ELSE contract.fields[n].default[1]]
    BY <1>2, <1>3 DEF Materialized, WithDefaults
  <2>2. \A n : n \in missing <=> n \in Defaulted(contract) /\ n \notin DOMAIN given
    BY DEF Defaulted
  <2> HIDE DEF missing
  <2>3. DOMAIN p = DOMAIN given \cup missing /\ p = [n \in DOMAIN p |-> p[n]]
    BY <2>1
  <2>4. \A n \in DOMAIN given : p[n] = given[n]
    BY <2>1
  <2>5. \A n \in missing : n \notin DOMAIN given => p[n] = contract.fields[n].default[1]
    BY <2>1
  <2> QED
    BY <1>1, <2>2, <2>3, <2>4, <2>5 DEF contract, given, p
<1>4. CASE command \notin SemanticDefaults
  <2>1. p = given
    BY <1>2, <1>4 DEF Materialized
  <2> QED
    BY <1>1, <1>4, <2>1 DEF contract, given, p
<1> QED
  BY <1>3, <1>4

\* What has been normalized is normal.
LEMMA NormalizedIsNormal ==
  ASSUME NEW command, NEW raw, RequestNormalizes(command, raw)
  PROVE  Normal(command, Normalized(command, raw))
<1> DEFINE contract == Contracts[command]
           fields == contract.fields
           selected == Selected(command, raw)
           given == Renamed(contract, selected)
           p == Normalized(command, raw)
           aliases == DOMAIN contract.aliases
           meant == {contract.aliases[a] : a \in aliases}
           defaulted == Defaulted(contract)
<1>1. command \in DOMAIN Contracts /\ ParametersAdmitted(contract, selected)
  BY DEF RequestNormalizes, Selected
<1>2. /\ DOMAIN given \subseteq DOMAIN fields
      /\ \A n \in DOMAIN given : FieldAccepts(fields[n], given[n])
      /\ \A group \in contract.exclusive : Present(group, selected) <= 1
      /\ \A group \in contract.exactlyOne : Present(group, selected) = 1
      /\ \A group \in contract.atLeastOne : Present(group, given) >= 1
      /\ \A n \in DOMAIN fields : fields[n].required => n \in DOMAIN given
      /\ \A d \in contract.depends : d[1] \in DOMAIN given => d[2] \in DOMAIN given
  BY <1>1 DEF ParametersAdmitted
<1>3. /\ p = [n \in DOMAIN p |-> p[n]]
      /\ DOMAIN given = {Canonical(contract, k) : k \in DOMAIN selected}
      /\ DOMAIN given \subseteq DOMAIN p /\ \A n \in DOMAIN given : p[n] = given[n]
      /\ \A n \in DOMAIN p \ DOMAIN given : n \in defaulted /\ p[n] = fields[n].default[1]
      /\ command \in SemanticDefaults => defaulted \subseteq DOMAIN p
  BY <1>1, NormalizedAre
<1>4. /\ \A a \in aliases \cup contract.removed : a \notin DOMAIN fields
      /\ command \in ProtectionCommands => "all" \notin meant \cup defaulted
      /\ \A n \in defaulted : FieldAccepts(fields[n], fields[n].default[1])
      /\ \A group \in contract.exclusive :
           \/ group \cap (aliases \cup meant \cup defaulted) = {}
           \/ \E a \in aliases : group = {a, contract.aliases[a]}
      /\ \A group \in contract.exactlyOne : group \cap (aliases \cup meant \cup defaulted) = {}
      /\ \A group \in contract.atLeastOne : group \cap defaulted = {}
      /\ \A d \in contract.depends : d[1] \notin defaulted
  BY <1>1, TableOf
<1>5. /\ defaulted \subseteq DOMAIN fields
      /\ \A k : Canonical(contract, k) = k \/ Canonical(contract, k) \in meant
      /\ \A k : k \notin aliases => Canonical(contract, k) = k
  BY DEF Defaulted, Canonical
<1>6. \A group : Present(group, p) = Cardinality(group \cap DOMAIN p)
              /\ Present(group, given) = Cardinality(group \cap DOMAIN given)
              /\ Present(group, selected) = Cardinality(group \cap DOMAIN selected)
  BY DEF Present
<1>7. command \in ProtectionCommands => "all" \notin DOMAIN selected
  <2>1. "all" \notin DOMAIN NormalizeSelector(raw)
    BY DEF NormalizeSelector
  <2> QED
    BY <2>1 DEF Selected
<1>8. /\ command = "ramp" /\ "channels" \in DOMAIN p => Distinct(p["channels"][2])
      /\ command = "trigger-fire" /\ p["wait_complete"] = Yes => "channel" \in DOMAIN p
  BY DEF RequestNormalizes
<1> HIDE DEF contract, fields, selected, given, p, aliases, meant, defaulted
<1>9. \A n : n \notin aliases \cup meant \cup defaulted => (n \in DOMAIN p <=> n \in DOMAIN selected)
  BY <1>3, <1>5
<1>10. DOMAIN p \subseteq DOMAIN fields /\ \A n \in DOMAIN p : FieldAccepts(fields[n], p[n])
  BY <1>2, <1>3, <1>4, <1>5
<1>11. command \in ProtectionCommands => "all" \notin DOMAIN p
  BY <1>3, <1>4, <1>5, <1>7
<1>12. ASSUME NEW group \in contract.exclusive PROVE Present(group, p) <= 1
  <2>1. CASE group \cap (aliases \cup meant \cup defaulted) = {}
    <3>1. group \cap DOMAIN p = group \cap DOMAIN selected
      BY <1>9, <2>1
    <3> QED
      BY <1>2, <1>6, <3>1
  <2>2. CASE \E a \in aliases : group = {a, contract.aliases[a]}
    <3>1. PICK a \in aliases : group = {a, contract.aliases[a]}
      BY <2>2
    <3>2. a \notin DOMAIN p
      BY <1>4, <1>10
    <3>3. Cardinality({a, contract.aliases[a]} \cap DOMAIN p) <= 1
      BY <3>2, PairWithoutFirst
    <3> QED
      BY <1>6, <3>1, <3>3
  <2> QED
    BY <1>4, <2>1, <2>2
<1>13. ASSUME NEW group \in contract.exactlyOne PROVE Present(group, p) = 1
  <2>1. group \cap DOMAIN p = group \cap DOMAIN selected
    BY <1>4, <1>9
  <2> QED
    BY <1>2, <1>6, <2>1
<1>14. ASSUME NEW group \in contract.atLeastOne PROVE Present(group, p) >= 1
  <2>1. group \cap DOMAIN p = group \cap DOMAIN given
    BY <1>3, <1>4
  <2> QED
    BY <1>2, <1>6, <2>1
<1>15. \A n \in DOMAIN fields : fields[n].required => n \in DOMAIN p
  BY <1>2, <1>3
<1>16. \A d \in contract.depends : d[1] \in DOMAIN p => d[2] \in DOMAIN p
  BY <1>2, <1>3, <1>4
<1> QED
  BY <1>1, <1>3, <1>8, <1>10, <1>11, <1>12, <1>13, <1>14, <1>15, <1>16
     DEF Normal, contract, fields, p, defaulted

\* The options of a request that is run in one of the three modes.
IsRuntime(runtime) ==
  /\ DOMAIN runtime = RuntimeFields
  /\ runtime = [n \in DOMAIN runtime |-> runtime[n]]
  /\ runtime.mode \in {"live", "dry_run", "simulate"}

\* A planning identity that has been resolved is resolved to itself.
LEMMA ResolvedAgain ==
  ASSUME NEW runtime, IsRuntime(runtime), NoHardwareResolves(runtime)
  PROVE  LET resolved == ResolveNoHardware(runtime) IN
         IsRuntime(resolved) /\ NoHardwareResolves(resolved) /\ ResolveNoHardware(resolved) = resolved
<1> DEFINE resolved == ResolveNoHardware(runtime)
           model == ReconcilePlanningModel(runtime.planning, runtime.resource)
           inferred == InferredModel(runtime.resource)
           again == InferredModel(resolved.resource)
<1>1. CASE runtime.mode = "live"
  BY <1>1 DEF ResolveNoHardware
<1>2. CASE runtime.mode # "live"
  <2>1. /\ DOMAIN resolved = DOMAIN runtime /\ resolved = [n \in DOMAIN resolved |-> resolved[n]]
        /\ resolved.mode = runtime.mode /\ resolved.planning = model
        /\ resolved.expected = runtime.expected /\ resolved.profile = runtime.profile
        /\ resolved.resource = IF runtime.mode = "simulate" /\ runtime.resource = NoModel
                               THEN SimulatedResource[model] ELSE runtime.resource
    BY <1>2 DEF ResolveNoHardware, IsRuntime, RuntimeFields
  <2>2. /\ MaybeModel(runtime.planning) /\ MaybeModel(runtime.expected)
        /\ runtime.profile \in {NoModel, Profile} /\ runtime.expected = NoModel
        /\ PlanningModelsAgree(runtime.planning, runtime.resource)
        /\ runtime.mode = "dry_run" =>
             /\ NoModel \in {runtime.planning, runtime.profile}
             /\ runtime.profile # NoModel => inferred = NoModel
        /\ runtime.mode = "simulate" =>
             /\ runtime.profile = NoModel /\ model # NoModel
             /\ runtime.resource = NoModel \/ inferred # NoModel
        /\ model # NoModel \/ runtime.profile # NoModel
    BY <1>2 DEF NoHardwareResolves, ValidateRuntimeIdentity, ExecutionMode, IsRuntime, RuntimeFields
  <2>3. /\ model = IF runtime.planning # NoModel THEN runtime.planning ELSE inferred
        /\ MaybeModel(inferred) /\ (NoModel \in {runtime.planning, inferred} \/ runtime.planning = inferred)
    BY <2>2 DEF ReconcilePlanningModel, PlanningModelsAgree
  <2> HIDE DEF model, inferred, resolved
  <2>4. MaybeModel(model) /\ (inferred \in {NoModel, model})
    BY <2>2, <2>3
  <2>5. again = inferred \/ again = model
    <3>1. CASE runtime.mode = "simulate" /\ runtime.resource = NoModel
      <4>1. model \in ActiveModels
        BY <2>2, <2>4, <3>1 DEF MaybeModel
      <4> QED
        BY <2>1, <3>1, <4>1, SimulatorsAssumption
    <3>2. CASE ~(runtime.mode = "simulate" /\ runtime.resource = NoModel)
      BY <2>1, <3>2 DEF inferred
    <3> QED
      BY <3>1, <3>2
  <2> HIDE DEF again
  <2>6. MaybeModel(again) /\ again \in {NoModel, model}
    BY <2>3, <2>4, <2>5
  <2>7. PlanningModelsAgree(resolved.planning, resolved.resource)
    BY <2>1, <2>6 DEF PlanningModelsAgree, again
  <2>8. ReconcilePlanningModel(resolved.planning, resolved.resource) = model
    <3>1. CASE model # NoModel
      BY <2>1, <3>1 DEF ReconcilePlanningModel
    <3>2. CASE model = NoModel
      BY <2>1, <2>6, <3>2 DEF ReconcilePlanningModel, again
    <3> QED
      BY <3>1, <3>2
  <2>9. runtime.mode = "simulate" => resolved.resource = NoModel \/ again # NoModel
    <3>1. CASE runtime.mode = "simulate" /\ runtime.resource = NoModel
      <4>1. model \in ActiveModels
        BY <2>2, <2>4, <3>1 DEF MaybeModel
      <4>2. again = model
        BY <2>1, <3>1, <4>1, SimulatorsAssumption DEF again
      <4> QED
        BY <2>2, <3>1, <4>2
    <3>2. CASE runtime.mode = "simulate" /\ runtime.resource # NoModel
      BY <2>1, <2>2, <3>2 DEF inferred, again
    <3> QED
      BY <3>1, <3>2
  <2>10. runtime.mode = "dry_run" =>
           /\ NoModel \in {model, runtime.profile}
           /\ runtime.profile # NoModel => again = NoModel
    BY <2>2, <2>3, <2>6
  <2>11. ValidateRuntimeIdentity(resolved)
    BY <1>2, <2>1, <2>2, <2>4, <2>7, <2>10 DEF ValidateRuntimeIdentity, ExecutionMode, IsRuntime, RuntimeFields, again
  <2>12. NoHardwareResolves(resolved)
    BY <2>1, <2>2, <2>8, <2>9, <2>11 DEF NoHardwareResolves, again
  <2>13. runtime.mode = "simulate" => resolved.resource # NoModel
         \/ SimulatedResource[model] = resolved.resource
    BY <2>1
  <2>14. ResolveNoHardware(resolved) = resolved
    <3>1. ResolveNoHardware(resolved) =
            [resolved EXCEPT !.planning = model, !.resource =
               IF runtime.mode = "simulate" /\ @ = NoModel THEN SimulatedResource[model] ELSE @]
      BY <1>2, <2>1, <2>8 DEF ResolveNoHardware
    <3>2. (IF runtime.mode = "simulate" /\ resolved.resource = NoModel
           THEN SimulatedResource[model] ELSE resolved.resource) = resolved.resource
      BY <2>1, <2>13
    <3>3. [resolved EXCEPT !.planning = model, !.resource =
             IF runtime.mode = "simulate" /\ @ = NoModel THEN SimulatedResource[model] ELSE @] = resolved
      BY <2>1, <3>2
    <3> QED
      BY <3>1, <3>3
  <2>15. IsRuntime(resolved)
    BY <2>1 DEF IsRuntime, RuntimeFields
  <2> QED
    BY <2>12, <2>14, <2>15 DEF resolved
<1> QED
  BY <1>1, <1>2 DEF IsRuntime, RuntimeFields

\* The gate holds for the runtime it has let pass, which it no longer changes.
LEMMA GateAgain ==
  ASSUME NEW r, IsRuntime(r.runtime), GateHolds(r),
         NEW a, a.runtime = GatedRuntime(r), a.command = r.command
  PROVE  GateHolds(a) /\ GatedRuntime(a) = a.runtime /\ Mode(a) = Mode(r) /\ IsRuntime(a.runtime)
<1>1. CASE Gated(r)
  <2>1. /\ NoHardwareResolves(r.runtime) /\ a.runtime = ResolveNoHardware(r.runtime)
        /\ Supports(PlanningIdentity(a.runtime), r.command, Mode(r))
    BY <1>1 DEF GateHolds, GatedRuntime
  <2>2. IsRuntime(a.runtime) /\ NoHardwareResolves(a.runtime) /\ ResolveNoHardware(a.runtime) = a.runtime
    BY <2>1, ResolvedAgain
  <2>3. Mode(a) = Mode(r)
    BY <2>1, ModeKept DEF Mode, IsRuntime, RuntimeFields
  <2> QED
    BY <1>1, <2>1, <2>2, <2>3 DEF GateHolds, GatedRuntime, Gated
<1>2. CASE ~Gated(r)
  BY <1>2 DEF GateHolds, GatedRuntime, Gated, Mode
<1> QED
  BY <1>1, <1>2

\* What a restore is prepared with, it is prepared with again.
LEMMA PreparedAgain ==
  ASSUME NEW runtime, IsRuntime(runtime), NEW d, d.resolved \in Restorable, RestorePrepared(runtime, d)
  PROVE  LET prepared == PreparedRuntime(runtime, d) IN
         RestorePrepared(prepared, d) /\ PreparedRuntime(prepared, d) = prepared /\ IsRuntime(prepared)
<1> DEFINE planned == PlannedWith(runtime, d)
           prepared == PreparedRuntime(runtime, d)
<1>1. CASE runtime.mode = "live"
  BY <1>1 DEF PreparedRuntime, RestorePrepared
<1>2. CASE runtime.mode # "live"
  <2>1. /\ DOMAIN planned = DOMAIN runtime /\ planned = [n \in DOMAIN planned |-> planned[n]]
        /\ planned.mode = runtime.mode /\ planned.planning = d.resolved /\ planned.profile = runtime.profile
    BY DEF PlannedWith, IsRuntime, RuntimeFields
  <2>2. IsRuntime(planned) /\ NoHardwareResolves(planned) /\ runtime.profile = NoModel
    BY <1>2, <2>1 DEF RestorePrepared, IsRuntime, RuntimeFields
  <2>3. d.resolved # NoModel
    BY SimulatorsAssumption
  <2>4. prepared = ResolveNoHardware(planned)
    BY <1>2 DEF PreparedRuntime
  <2> HIDE DEF planned
  <2>5. IsRuntime(prepared) /\ NoHardwareResolves(prepared) /\ ResolveNoHardware(prepared) = prepared
    BY <2>2, <2>4, ResolvedAgain
  <2>6. /\ prepared.planning = d.resolved /\ prepared.mode = runtime.mode
        /\ prepared.profile = runtime.profile
    BY <1>2, <2>1, <2>2, <2>3, <2>4 DEF ResolveNoHardware, ReconcilePlanningModel, IsRuntime, RuntimeFields
  <2> HIDE DEF prepared
  <2>7. PlannedWith(prepared, d) = prepared
    BY <2>5, <2>6 DEF PlannedWith, IsRuntime, RuntimeFields
  <2>8. RestorePrepared(prepared, d) /\ PreparedRuntime(prepared, d) = prepared
    BY <1>2, <2>2, <2>5, <2>6, <2>7 DEF RestorePrepared, PreparedRuntime
  <2> QED
    BY <2>5, <2>8 DEF prepared
<1> QED
  BY <1>1, <1>2

\* The channels of a ramp in their order are the same channels.
LEMMA OrderedChannels ==
  ASSUME NEW value, Tagged(value), ListOf(value, Nat \ {0})
  PROVE  LET named == {item[2] : item \in ToSet(value[2])}
             ordered == Ascending(named)
             list == <<"list", [k \in DOMAIN ordered |-> Exact(ordered[k])]>>
         IN ListOf(list, Nat \ {0}) /\ Distinct(list[2]) /\ {item[2] : item \in ToSet(list[2])} = named
<1> DEFINE items == ToSet(value[2])
           named == {item[2] : item \in items}
           ordered == Ascending(named)
           entries == [k \in DOMAIN ordered |-> Exact(ordered[k])]
           image == {Exact(c) : c \in named}
<1>1. IsTable(value[2]) /\ value[2] # << >> /\ \A item \in items : item[2] \in Nat \ {0}
  BY DEF Tagged, ListOf
<1>2. IsFiniteSet(items)
  BY <1>1, ElementsFinite
<1>3. IsFiniteSet(named)
  <2> DEFINE second == [item \in items |-> item[2]]
  <2>1. second \in Surjection(items, named)
    <3> HIDE DEF items
    <3>1. second \in [items -> named] /\ \A n \in named : \E item \in items : second[item] = n
      OBVIOUS
    <3> QED
      BY <3>1 DEF Surjection
  <2> HIDE DEF items, named, second
  <2> QED
    BY <1>2, <2>1, FS_Surjection
<1>4. named \subseteq Nat \ {0} /\ named # {}
  <2>1. value[2] \in Seq(items) /\ Len(value[2]) \in Nat /\ DOMAIN value[2] = 1..Len(value[2])
    BY <1>1, LenProperties DEF IsTable
  <2>2. 1 \in DOMAIN value[2]
    BY <1>1, <2>1, EmptySeq
  <2>3. value[2][1] \in items
    BY <2>2 DEF ToSet
  <2> QED
    BY <1>1, <2>3
<1> HIDE DEF items, named
<1>5. IsTable(ordered) /\ ToSet(ordered) = named /\ Len(ordered) = Cardinality(named)
  <2>1. named \subseteq Int
    BY <1>4
  <2> QED
    BY <1>3, <2>1, AscendingHasAll
<1>6. ordered \in Seq(named) /\ Len(ordered) \in Nat /\ DOMAIN ordered = 1..Len(ordered)
  <2>1. ordered \in Seq(named)
    BY <1>5 DEF IsTable
  <2> HIDE DEF ordered
  <2> QED
    BY <2>1, LenProperties
<1> HIDE DEF ordered
<1>7. ToSet(entries) = image
  <2>1. named = {ordered[k] : k \in DOMAIN ordered}
    BY <1>5 DEF ToSet
  <2>2. ToSet(entries) = {Exact(ordered[k]) : k \in DOMAIN ordered}
    BY DEF ToSet
  <2> QED
    BY <2>1, <2>2
<1>8. {item[2] : item \in image} = named /\ \A item \in image : item[1] = "int" /\ item[2] \in Nat \ {0}
  <2>1. \A c \in named : Exact(c)[1] = "int" /\ Exact(c)[2] = c
    BY DEF Exact
  <2>2. \A item \in image : item[1] = "int" /\ item[2] \in named
    BY <2>1
  <2>3. \A c \in named : \E item \in image : item[2] = c
    <3>1. \A c \in named : Exact(c) \in image
      OBVIOUS
    <3> HIDE DEF image
    <3> QED
      BY <2>1, <3>1
  <2> HIDE DEF image
  <2> QED
    BY <1>4, <2>2, <2>3
<1>9. entries # << >> /\ Len(entries) = Cardinality(named)
  <2>1. entries \in [1..Len(ordered) -> image]
    BY <1>6, <1>7 DEF ToSet
  <2>2. entries \in Seq(image) /\ Len(entries) = Len(ordered)
    <3> HIDE DEF entries, image
    <3> QED
      BY <1>6, <2>1, SeqDef, LenProperties
  <2>3. PICK c : c \in named
    BY <1>4
  <2>4. PICK k \in DOMAIN ordered : ordered[k] = c
    BY <1>5, <2>3 DEF ToSet
  <2>5. Len(ordered) # 0
    BY <1>6, <2>4
  <2> HIDE DEF entries, image
  <2> QED
    BY <1>5, <2>2, <2>5, EmptySeq
<1>10. Cardinality(image) = Cardinality(named)
  <2> DEFINE f == [c \in named |-> Exact(c)]
  <2>1. f \in Bijection(named, image)
    <3>1. f \in [named -> image] /\ \A c, e \in named : f[c] = f[e] => c = e
      BY DEF Exact
    <3>2. \A item \in image : \E c \in named : f[c] = item
      OBVIOUS
    <3> QED
      BY <3>1, <3>2 DEF Bijection, Injection, Surjection, IsInjective
  <2> HIDE DEF f, image
  <2>2. ExistsBijection(named, image)
    BY <2>1 DEF ExistsBijection
  <2> QED
    BY <1>3, <2>2, FS_Bijection
<1> HIDE DEF entries, image
<1>11. Distinct(entries)
  BY <1>7, <1>9, <1>10 DEF Distinct
<1>12. ListOf(<<"list", entries>>, Nat \ {0}) /\ {item[2] : item \in ToSet(entries)} = named
  BY <1>7, <1>8, <1>9 DEF ListOf
<1> QED
  BY <1>11, <1>12 DEF items, named, ordered, entries

\* A ramp's parameters with its channels in their order are normal, and mean
\* what they meant; once more changes nothing.
LEMMA OrderedIsNormal ==
  ASSUME NEW r, r.command = "ramp", NEW p, Normal("ramp", p), \A n \in DOMAIN p : Tagged(p[n])
  PROVE  LET q == CanonicalChannels(r, p) IN
         /\ Normal("ramp", q) /\ DOMAIN q = DOMAIN p /\ \A n \in DOMAIN p \ {"channels"} : q[n] = p[n]
         /\ "channels" \in DOMAIN p => \A supported : ChannelsOf(q, supported) = ChannelsOf(p, supported)
         /\ \A a : a.command = "ramp" /\ (Gated(a) <=> Gated(r)) => CanonicalChannels(a, q) = q
<1> DEFINE q == CanonicalChannels(r, p)
           named == {item[2] : item \in ToSet(p["channels"][2])}
           ordered == Ascending(named)
           list == <<"list", [k \in DOMAIN ordered |-> Exact(ordered[k])]>>
           fields == Contracts["ramp"].fields
<1>1. CASE ~(Gated(r) /\ "channels" \in DOMAIN p)
  BY <1>1 DEF CanonicalChannels
<1>2. CASE Gated(r) /\ "channels" \in DOMAIN p
  <2>1. \A supported : ChannelsOf(p, supported) = ordered
    BY <1>2 DEF ChannelsOf
  <2>2. q = [p EXCEPT !["channels"] = list]
    <3>1. ChannelsOf(p, {}) = ordered
      BY <2>1
    <3> HIDE DEF ordered
    <3> QED
      BY <1>2, <3>1 DEF CanonicalChannels
  <2>3. /\ DOMAIN q = DOMAIN p /\ q["channels"] = list /\ \A n \in DOMAIN p \ {"channels"} : q[n] = p[n]
        /\ q = [n \in DOMAIN q |-> q[n]]
    BY <1>2, <2>2
  <2>4. fields["channels"].kind = "channel_list"
    <3>1. TypedFields(fields)
      BY ContractsAssumption DEF DirectOutputCommands
    <3>2. "channels" \in DOMAIN fields
      BY <1>2 DEF Normal
    <3> HIDE DEF fields
    <3> QED
      BY <3>1, <3>2 DEF TypedFields
  <2>5. Tagged(p["channels"]) /\ ListOf(p["channels"], Nat \ {0})
    <3>1. FieldAccepts(fields["channels"], p["channels"])
      BY <1>2 DEF Normal
    <3> HIDE DEF fields
    <3> QED
      BY <1>2, <2>4, <3>1 DEF FieldAccepts
  <2>6. /\ ListOf(list, Nat \ {0}) /\ Distinct(list[2])
        /\ {item[2] : item \in ToSet(list[2])} = named
    BY <2>5, OrderedChannels
  <2> HIDE DEF q, list, named
  <2>7. \A supported : ChannelsOf(q, supported) = ordered
    BY <1>2, <2>3, <2>6 DEF ChannelsOf
  <2>8. ASSUME NEW a, a.command = "ramp", Gated(a) <=> Gated(r) PROVE CanonicalChannels(a, q) = q
    <3>1. CanonicalChannels(a, q) = [q EXCEPT !["channels"] = list]
      <4>1. ChannelsOf(q, {}) = ordered
        BY <2>7
      <4> HIDE DEF ordered
      <4> QED
        BY <1>2, <2>3, <2>8, <4>1 DEF CanonicalChannels, list
    <3> QED
      BY <2>3, <3>1
  <2>9. Normal("ramp", q)
    <3> HIDE DEF fields
    <3>1. FieldAccepts(fields["channels"], list)
      BY <2>4, <2>6 DEF FieldAccepts
    <3>2. \A n \in DOMAIN q : FieldAccepts(fields[n], q[n])
      BY <2>3, <3>1 DEF Normal, fields
    <3>3. \A group : Present(group, q) = Present(group, p)
      BY <2>3 DEF Present
    <3> QED
      BY <2>3, <2>6, <3>2, <3>3 DEF Normal, fields
  <2> QED
    BY <2>1, <2>3, <2>7, <2>8, <2>9 DEF q
<1> QED
  BY <1>1, <1>2

\* The parameters that carry the document are normal, and carry it again.
LEMMA MaterializedIsNormal ==
  ASSUME NEW command \in DocumentCommands, NEW p, Normal(command, p)
  PROVE  LET q == Materialize(p) IN
         /\ Normal(command, q) /\ DOMAIN q = {"document"} \cup (DOMAIN p \ {"file", "snapshot"})
         /\ \A n \in DOMAIN q \ {"document"} : q[n] = p[n]
         /\ DocumentOf(q) = DocumentOf(p) /\ Materialize(q) = q
<1> DEFINE contract == Contracts[command]
           fields == contract.fields
           q == Materialize(p)
           value == <<"obj", DocumentOf(p)>>
<1>1. /\ DOMAIN q = {"document"} \cup (DOMAIN p \ {"file", "snapshot"})
      /\ q["document"] = value /\ \A n \in DOMAIN q \ {"document"} : q[n] = p[n]
      /\ q = [n \in DOMAIN q |-> q[n]]
  BY DEF Materialize
<1>2. DocumentOf(q) = DocumentOf(p)
  BY <1>1 DEF DocumentOf, FromFile
<1>3. Materialize(q) = q
  <2>1. {"document"} \cup (DOMAIN q \ {"file", "snapshot"}) = DOMAIN q
    BY <1>1
  <2>2. Materialize(q) = [n \in DOMAIN q |-> IF n = "document" THEN value ELSE q[n]]
    BY <1>2, <2>1 DEF Materialize
  <2> HIDE DEF q, value
  <2> QED
    BY <1>1, <2>2
<1>4. /\ contract.exclusive # {}
      /\ \A group \in contract.exclusive : group \subseteq {"document", "file", "snapshot"}
      /\ contract.exactlyOne = {} /\ contract.atLeastOne = {} /\ contract.depends = {}
      /\ "document" \in DOMAIN fields /\ fields["document"].kind = "object"
      /\ \A n \in {"file", "snapshot"} : n \in DOMAIN fields => ~fields[n].required
  BY DocumentTablesAssumption
<1>5. command \notin ProtectionCommands /\ command \notin SemanticDefaults
      /\ command \notin {"ramp", "trigger-fire"}
  BY DEF DocumentCommands, ProtectionCommands, SemanticDefaults
<1>6. /\ DOMAIN p \subseteq DOMAIN fields /\ command \in DOMAIN Contracts
      /\ \A n \in DOMAIN p : FieldAccepts(fields[n], p[n])
      /\ \A n \in DOMAIN fields : fields[n].required => n \in DOMAIN p
  BY DEF Normal
<1> HIDE DEF contract, fields, q
<1>7. FieldAccepts(fields["document"], value)
  BY <1>4 DEF FieldAccepts
<1>8. DOMAIN q \subseteq DOMAIN fields /\ \A n \in DOMAIN q : FieldAccepts(fields[n], q[n])
  BY <1>1, <1>4, <1>6, <1>7
<1>9. ASSUME NEW group \in contract.exclusive PROVE Present(group, q) <= 1
  <2>1. group \cap DOMAIN q \subseteq {"document"}
    BY <1>1, <1>4
  <2>2. group \cap DOMAIN q = {} \/ group \cap DOMAIN q = {"document"}
    BY <2>1
  <2> QED
    BY <2>2, FS_EmptySet, FS_Singleton DEF Present
<1>10. \A n \in DOMAIN fields : fields[n].required => n \in DOMAIN q
  BY <1>1, <1>4, <1>6
<1>11. Normal(command, q)
  BY <1>1, <1>4, <1>5, <1>6, <1>8, <1>9, <1>10 DEF Normal, contract, fields
<1> QED
  BY <1>1, <1>2, <1>3, <1>11 DEF q

\* No limits are held to when there are none to hold to.
LEMMA WeakerSetpoint ==
  ASSUME NEW limits, NEW c, NEW v, NEW i, ValidateSetpoint(limits, c, v, i)
  PROVE  ValidateSetpoint(NoLimits, c, v, i)
BY DEF ValidateSetpoint, ValidateChannel, Within, NoLimits

\* A sequence that is planned with some limits is planned without limits, and
\* for parameters that ask for as many loops.
LEMMA SequenceAgain ==
  ASSUME NEW runtime, NEW d, NEW p, NEW q, NEW limit, NEW other, other \in {limit, Unlimited},
         Loops(d, q) = Loops(d, p), SequencePlanned(runtime, d, p, limit)
  PROVE  SequencePlanned(runtime, d, q, other)
<1>1. ASSUME NEW step \in ToSet(d.steps) PROVE StepPlanned(runtime, step, other)
  <2>1. StepPlanned(runtime, step, limit)
    BY DEF SequencePlanned
  <2>2. CASE other = limit
    BY <2>1, <2>2
  <2>3. CASE other = Unlimited
    <3>1. other.ok /\ other.limits = NoLimits /\ \A c : ValidateChannel(other.limits, c)
      BY <2>3 DEF Unlimited, ValidateChannel, NoLimits
    <3>2. \A c, v, i : ValidateSetpoint(limit.limits, c, v, i) => ValidateSetpoint(other.limits, c, v, i)
      BY <3>1, WeakerSetpoint
    <3> QED
      BY <2>1, <3>1, <3>2 DEF StepPlanned
  <2> QED
    BY <2>2, <2>3
<1> QED
  BY <1>1 DEF SequencePlanned

\* So is a ramp list.
LEMMA RampListAgain ==
  ASSUME NEW r, NEW d, NEW p, NEW config, RampListPlanned(r, d, p, config),
         NEW a, a.runtime = r.runtime, NEW q, Loops(d, q) = Loops(d, p), NEW other,
         \/ ~a.configured
         \/ a.configured = r.configured /\ a.alias = r.alias /\ other = config
  PROVE  RampListPlanned(a, d, q, other)
<1>1. ASSUME NEW s, SegmentHolds(s, r, config) PROVE SegmentHolds(s, a, other)
  <2> SUFFICES ASSUME NEW c \in ToSet(SegmentChannels(s))
               PROVE  /\ ListLimits(a, other, c).ok
                      /\ \A v \in ToSet(SegmentVoltages(s)) :
                           ValidateSetpoint(ListLimits(a, other, c).limits, c, v, s.current)
    BY DEF SegmentHolds
  <2>1. /\ ListLimits(r, config, c).ok
        /\ \A v \in ToSet(SegmentVoltages(s)) :
             ValidateSetpoint(ListLimits(r, config, c).limits, c, v, s.current)
    BY <1>1 DEF SegmentHolds
  <2>2. CASE ~a.configured
    <3>1. ListLimits(a, other, c) = Unlimited
      BY <2>2 DEF ListLimits
    <3> QED
      BY <2>1, <3>1, WeakerSetpoint DEF Unlimited
  <2>3. CASE a.configured = r.configured /\ a.alias = r.alias /\ other = config
    <3>1. ListLimits(a, other, c) = ListLimits(r, config, c)
      BY <2>3 DEF ListLimits
    <3> QED
      BY <2>1, <3>1
  <2> QED
    BY <2>2, <2>3
<1>2. \A version, s : SegmentPlanned(version, s, r, config) => SegmentPlanned(version, s, a, other)
  BY <1>1 DEF SegmentPlanned
<1> QED
  BY <1>2 DEF RampListPlanned

\* What the other checks look at is kept when a document is carried and
\* channels are ordered.
LEMMA ParametersStillHold ==
  ASSUME NEW command \in DocumentCommands \cup {"ramp"}, NEW p, ParametersHold(command, p),
         NEW q, \A n : n \notin {"document", "channels", "file", "snapshot"} =>
                  (n \in DOMAIN q <=> n \in DOMAIN p) /\ (n \in DOMAIN q => q[n] = p[n])
  PROVE  ParametersHold(command, q)
<1>1. command \notin {"set", "trigger-step", "trigger-list"}
  BY DEF DocumentCommands
<1>2. \A n \in {"voltages", "currents", "completion_pulse_channel", "completion_pulse_pins"} :
        (n \in DOMAIN q <=> n \in DOMAIN p) /\ (n \in DOMAIN q => q[n] = p[n])
  OBVIOUS
<1>3. ConstraintsHold(q)
  BY <1>2 DEF ParametersHold, ConstraintsHold, NonNegativeList
<1>4. GeneralWorkflowHolds(command, q)
  BY <1>1, <1>2 DEF ParametersHold, GeneralWorkflowHolds
<1> QED
  BY <1>1, <1>3, <1>4 DEF ParametersHold

\* A request is a record with options for its run.
IsRequest(r) == DOMAIN r = RequestFields /\ r = [n \in DOMAIN r |-> r[n]] /\ IsRuntime(r.runtime)

\* What of a request its admission has left.
Carried(r) ==
  /\ IsRequest(r) /\ Normal(r.command, r.parameters)
  /\ r.command \in DocumentCommands => "document" \in DOMAIN r.parameters

\* A request like another but for its configuration, and for the parameters and
\* the runtime that its admission has replaced.
Like(a, r) ==
  /\ DOMAIN a = RequestFields /\ a = [n \in DOMAIN a |-> a[n]] /\ a.command = r.command
  /\ \/ a.configured = r.configured /\ a.alias = r.alias
     \/ ~a.configured

\* The limits of a plan depend on what admission keeps of a request.
LEMMA SequenceLimitsLike ==
  ASSUME NEW r, NEW a, IsRequest(r), Like(a, r), NEW runtime
  PROVE  SequenceLimits([a EXCEPT !.runtime = runtime])
           \in {SequenceLimits([r EXCEPT !.runtime = runtime]), Unlimited}
<1> DEFINE s == [r EXCEPT !.runtime = runtime]
           b == [a EXCEPT !.runtime = runtime]
<1>1. /\ s.configured = r.configured /\ s.alias = r.alias /\ s.runtime = runtime
      /\ b.configured = a.configured /\ b.alias = a.alias /\ b.runtime = runtime
  BY DEF IsRequest, Like, RequestFields
<1> HIDE DEF s, b
<1>2. SequenceLimits(b) \in {SequenceLimits(s), Unlimited}
  BY <1>1 DEF Like, SequenceLimits
<1> QED
  BY <1>2 DEF s, b

\* The admission of a sequence, again.
LEMMA SequenceAdmitsAgain ==
  ASSUME NEW r, IsRequest(r), r.command = "sequence",
         NEW p, Normal("sequence", p), CommandAdmits(r, p),
         NEW a, Like(a, r), a.runtime = AdmittedRuntime(r, p)
  PROVE  /\ CommandAdmits(a, Materialize(p)) /\ AdmittedRuntime(a, Materialize(p)) = a.runtime
         /\ Mode(a) = Mode(r) /\ IsRuntime(a.runtime)
<1> DEFINE q == Materialize(p)
           d == DocumentOf(p)
<1>1. /\ DocumentOf(q) = d /\ DOMAIN q = {"document"} \cup (DOMAIN p \ {"file", "snapshot"})
      /\ \A n \in DOMAIN q \ {"document"} : q[n] = p[n]
  BY MaterializedIsNormal DEF DocumentCommands
<1> HIDE DEF q, d
<1>2. DocumentGiven(q) /\ Loops(d, q) = Loops(d, p)
  BY <1>1 DEF DocumentGiven, Loops
<1>3. /\ Pulses(d) => GateHolds(r)
      /\ SequencePlannedWith(r, SequenceRuntime(r, d), p)
      /\ a.runtime = SequenceRuntime(r, d) /\ a.command = r.command
  BY DEF CommandAdmits, AdmittedRuntime, Like, d
<1>4. /\ Pulses(d) => GateHolds(a)
      /\ SequenceRuntime(a, d) = a.runtime /\ Mode(a) = Mode(r) /\ IsRuntime(a.runtime)
  <2>1. CASE Pulses(d)
    BY <1>3, <2>1, GateAgain DEF SequenceRuntime, IsRequest
  <2>2. CASE ~Pulses(d)
    BY <1>3, <2>2 DEF SequenceRuntime, Mode, IsRequest
  <2> QED
    BY <2>1, <2>2
<1>5. SequencePlannedWith(a, a.runtime, q)
  <2>1. SequenceLimits([a EXCEPT !.runtime = a.runtime])
          \in {SequenceLimits([r EXCEPT !.runtime = a.runtime]), Unlimited}
    BY SequenceLimitsLike
  <2>2. SequencePlanned(a.runtime, d, p, SequenceLimits([r EXCEPT !.runtime = a.runtime]))
    BY <1>3 DEF SequencePlannedWith, d
  <2>3. SequencePlanned(a.runtime, d, q, SequenceLimits([a EXCEPT !.runtime = a.runtime]))
    BY <1>2, <2>1, <2>2, SequenceAgain
  <2> QED
    BY <1>1, <2>3 DEF SequencePlannedWith
<1>6. CommandAdmits(a, q) /\ AdmittedRuntime(a, q) = a.runtime
  BY <1>1, <1>2, <1>3, <1>4, <1>5 DEF CommandAdmits, AdmittedRuntime
<1> QED
  BY <1>4, <1>6 DEF q

\* The admission of a ramp list, again.
LEMMA RampListAdmitsAgain ==
  ASSUME NEW r, IsRequest(r), r.command = "ramp-list",
         NEW p, Normal("ramp-list", p), CommandAdmits(r, p),
         NEW a, Like(a, r), a.runtime = AdmittedRuntime(r, p)
  PROVE  /\ CommandAdmits(a, Materialize(p)) /\ AdmittedRuntime(a, Materialize(p)) = a.runtime
         /\ Mode(a) = Mode(r) /\ IsRuntime(a.runtime)
<1> DEFINE q == Materialize(p)
           d == DocumentOf(p)
           s == [r EXCEPT !.runtime = GatedRuntime(r)]
           b == [a EXCEPT !.runtime = GatedRuntime(a)]
<1>1. /\ DocumentOf(q) = d /\ DOMAIN q = {"document"} \cup (DOMAIN p \ {"file", "snapshot"})
      /\ \A n \in DOMAIN q \ {"document"} : q[n] = p[n]
  BY MaterializedIsNormal DEF DocumentCommands
<1> HIDE DEF q, d
<1>2. DocumentGiven(q) /\ Loops(d, q) = Loops(d, p)
  BY <1>1 DEF DocumentGiven, Loops
<1>3. /\ GateHolds(r) /\ RampListPlanned(s, d, p, doc)
      /\ a.runtime = GatedRuntime(r) /\ a.command = r.command
  BY DEF CommandAdmits, AdmittedRuntime, Like, d
<1>4. GateHolds(a) /\ GatedRuntime(a) = a.runtime /\ Mode(a) = Mode(r) /\ IsRuntime(a.runtime)
  BY <1>3, GateAgain DEF IsRequest
<1>5. /\ s.configured = r.configured /\ s.alias = r.alias /\ s.runtime = a.runtime
      /\ b.configured = a.configured /\ b.alias = a.alias /\ b.runtime = a.runtime
  BY <1>3, <1>4 DEF IsRequest, Like, RequestFields
<1> HIDE DEF s, b
<1>6. RampListPlanned(b, d, q, doc)
  BY <1>2, <1>3, <1>5, RampListAgain DEF Like
<1>7. CommandAdmits(a, q) /\ AdmittedRuntime(a, q) = a.runtime
  BY <1>1, <1>2, <1>3, <1>4, <1>6 DEF CommandAdmits, AdmittedRuntime, b
<1> QED
  BY <1>4, <1>7 DEF q

\* The admission of a restore, again.
LEMMA RestoreAdmitsAgain ==
  ASSUME NEW r, IsRequest(r), r.command = "restore-from-snapshot",
         NEW p, Normal("restore-from-snapshot", p), CommandAdmits(r, p),
         NEW a, Like(a, r), a.runtime = AdmittedRuntime(r, p)
  PROVE  /\ CommandAdmits(a, Materialize(p)) /\ AdmittedRuntime(a, Materialize(p)) = a.runtime
         /\ Mode(a) = Mode(r) /\ IsRuntime(a.runtime)
<1> DEFINE q == Materialize(p)
           d == DocumentOf(p)
<1>1. /\ DocumentOf(q) = d /\ DOMAIN q = {"document"} \cup (DOMAIN p \ {"file", "snapshot"})
      /\ \A n \in DOMAIN q \ {"document"} : q[n] = p[n]
  BY MaterializedIsNormal DEF DocumentCommands
<1>2. "channel" \in DOMAIN p
  BY ContractsAssumption DEF Normal, DocumentCommands, RequiredOf
<1> HIDE DEF q, d
<1>3. DocumentGiven(q) /\ q["channel"] = p["channel"]
  BY <1>1, <1>2 DEF DocumentGiven
<1>4. /\ "kind" \in DOMAIN d /\ d.kind = "snapshot" /\ SnapshotValid(registry, d)
      /\ RestorePrepared(r.runtime, d) /\ RestoreChannels(d, p["channel"]) # << >>
      /\ ToSet(RestoreChannels(d, p["channel"])) \subseteq ModelChannels[d.resolved]
      /\ a.runtime = PreparedRuntime(r.runtime, d) /\ a.command = r.command
  BY DEF CommandAdmits, AdmittedRuntime, Like, d
<1>5. RestorePrepared(a.runtime, d) /\ PreparedRuntime(a.runtime, d) = a.runtime /\ IsRuntime(a.runtime)
  BY <1>4, PreparedAgain DEF SnapshotValid, IsRequest
<1>6. Mode(a) = Mode(r)
  <2>1. "mode" \in DOMAIN r.runtime
    BY DEF IsRequest, IsRuntime, RuntimeFields
  <2>2. PreparedRuntime(r.runtime, d).mode = r.runtime.mode
    BY <2>1, ModeKept
  <2> QED
    BY <1>4, <2>2 DEF Mode
<1>7. CommandAdmits(a, q) /\ AdmittedRuntime(a, q) = a.runtime
  BY <1>1, <1>3, <1>4, <1>5 DEF CommandAdmits, AdmittedRuntime
<1> QED
  BY <1>5, <1>6, <1>7 DEF q

\* The admission of a ramp, again.
LEMMA RampAdmitsAgain ==
  ASSUME NEW r, IsRequest(r), r.command = "ramp",
         NEW p, Normal("ramp", p), \A n \in DOMAIN p : Tagged(p[n]), CommandAdmits(r, p),
         NEW a, Like(a, r), a.runtime = AdmittedRuntime(r, CanonicalChannels(r, p))
  PROVE  /\ CommandAdmits(a, CanonicalChannels(r, p))
         /\ AdmittedRuntime(a, CanonicalChannels(r, p)) = a.runtime
         /\ Mode(a) = Mode(r) /\ IsRuntime(a.runtime)
<1> DEFINE q == CanonicalChannels(r, p)
<1>1. /\ DOMAIN q = DOMAIN p /\ \A n \in DOMAIN p \ {"channels"} : q[n] = p[n]
      /\ "channels" \in DOMAIN p => \A supported : ChannelsOf(q, supported) = ChannelsOf(p, supported)
  BY OrderedIsNormal
<1> HIDE DEF q
<1>2. "ramp" \notin DocumentCommands
  BY DEF DocumentCommands
<1>3. /\ RampUnitsHold(p) /\ GateHolds(r)
      /\ Gated(r) /\ "channels" \in DOMAIN p => SelectionHolds(p, NoHardwareChannels(GatedRuntime(r)))
      /\ a.runtime = GatedRuntime(r) /\ a.command = r.command
  BY DEF CommandAdmits, AdmittedRuntime, Like, q
<1>4. GateHolds(a) /\ GatedRuntime(a) = a.runtime /\ Mode(a) = Mode(r) /\ IsRuntime(a.runtime)
  BY <1>3, GateAgain DEF IsRequest
<1>5. {"start_voltage", "stop_voltage", "step_voltage"} \subseteq DOMAIN p
  BY ContractsAssumption DEF Normal, RequiredOf
<1>6. RampVoltages(q) = RampVoltages(p) /\ Loops(NoFields, q) = Loops(NoFields, p)
  BY <1>1, <1>5 DEF RampVoltages, Loops
<1>7. RampUnitsHold(q)
  BY <1>3, <1>6 DEF RampUnitsHold
<1>8. Gated(a) /\ "channels" \in DOMAIN q => SelectionHolds(q, NoHardwareChannels(GatedRuntime(a)))
  BY <1>1, <1>3, <1>4 DEF SelectionHolds, Gated
<1>9. CommandAdmits(a, q) /\ AdmittedRuntime(a, q) = a.runtime
  BY <1>3, <1>4, <1>7, <1>8 DEF CommandAdmits, AdmittedRuntime
<1> QED
  BY <1>4, <1>9 DEF q

\* The parameters of a document command and of a ramp are typed as they were.
LEMMA NormalizedTyped ==
  ASSUME NEW command, Opens(command), NEW raw, \A n \in DOMAIN raw : Tagged(raw[n])
  PROVE  \A n \in DOMAIN Normalized(command, raw) : Tagged(Normalized(command, raw)[n])
BY NormalizedAsGiven

\* What the admission of a request has established of its parameters and its
\* runtime holds of those it has left, for a request that carries them.
LEMMA AdmitsAgain ==
  ASSUME NEW r, IsRequest(r), \A n \in DOMAIN r.parameters : Tagged(r.parameters[n]),
         AdmissionHolds(r),
         NEW a, Like(a, r), a.parameters = Admitted(r).parameters, a.runtime = Admitted(r).runtime
  PROVE  AdmissionHolds(a) /\ Admitted(a) = a /\ Carried(a)
<1> DEFINE p == Normalized(r.command, r.parameters)
           q == CanonicalChannels(r, p)
           s == IF r.command \in DocumentCommands THEN Materialize(q) ELSE q
<1>1. /\ RequestNormalizes(r.command, r.parameters) /\ ParametersHold(r.command, p) /\ CommandAdmits(r, p)
      /\ ~(Mode(r) = "dry_run" /\ r.command \in NeverPlanned)
  BY DEF AdmissionHolds
<1>2. Normal(r.command, p)
  BY <1>1, NormalizedIsNormal
<1>3. a.command = r.command /\ a.parameters = s /\ a.runtime = AdmittedRuntime(r, q)
  <2>1. Admitted(r).parameters = s /\ Admitted(r).runtime = AdmittedRuntime(r, q)
    BY DEF Admitted, IsRequest, RequestFields
  <2> QED
    BY <2>1 DEF Like
<1>4. r.command = "ramp" => \A n \in DOMAIN p : Tagged(p[n])
  <2>1. Opens("ramp")
    BY DEF Opens, DirectOutputCommands
  <2> QED
    BY <2>1, NormalizedTyped
<1> HIDE DEF p, q, s
<1>5. r.command # "ramp" => q = p /\ \A b : b.command # "ramp" => \A x : CanonicalChannels(b, x) = x
  BY DEF q, CanonicalChannels
<1>6. /\ Normal(r.command, s) /\ ParametersHold(r.command, s) /\ CommandAdmits(a, s)
      /\ AdmittedRuntime(a, s) = a.runtime /\ Mode(a) = Mode(r) /\ IsRuntime(a.runtime)
      /\ CanonicalChannels(a, s) = s /\ (r.command \in DocumentCommands => Materialize(s) = s)
      /\ r.command \in DocumentCommands => "document" \in DOMAIN s
  <2>1. CASE r.command \in DocumentCommands
    <3>1. q = p /\ CanonicalChannels(a, s) = s /\ s = Materialize(p)
      BY <1>3, <1>5, <2>1 DEF s, DocumentCommands
    <3>2. /\ Normal(r.command, s) /\ DOMAIN s = {"document"} \cup (DOMAIN p \ {"file", "snapshot"})
          /\ (\A n \in DOMAIN s \ {"document"} : s[n] = p[n]) /\ Materialize(s) = s
      BY <1>2, <2>1, <3>1, MaterializedIsNormal
    <3>3. ParametersHold(r.command, s)
      <4>1. \A n : n \notin {"document", "channels", "file", "snapshot"} =>
              (n \in DOMAIN s <=> n \in DOMAIN p) /\ (n \in DOMAIN s => s[n] = p[n])
        BY <3>2
      <4> QED
        BY <1>1, <2>1, <4>1, ParametersStillHold
    <3>4. a.runtime = AdmittedRuntime(r, p)
      BY <1>3, <3>1
    <3>5. /\ CommandAdmits(a, s) /\ AdmittedRuntime(a, s) = a.runtime /\ Mode(a) = Mode(r)
          /\ IsRuntime(a.runtime)
      <4>1. CASE r.command = "sequence"
        BY <1>1, <1>2, <3>1, <3>4, <4>1, SequenceAdmitsAgain
      <4>2. CASE r.command = "ramp-list"
        BY <1>1, <1>2, <3>1, <3>4, <4>2, RampListAdmitsAgain
      <4>3. CASE r.command = "restore-from-snapshot"
        BY <1>1, <1>2, <3>1, <3>4, <4>3, RestoreAdmitsAgain
      <4> QED
        BY <2>1, <4>1, <4>2, <4>3 DEF DocumentCommands
    <3> QED
      BY <3>1, <3>2, <3>3, <3>5
  <2>2. CASE r.command = "ramp"
    <3>1. s = q
      BY <2>2 DEF s, DocumentCommands
    <3>2. CommandAdmits(a, s) /\ AdmittedRuntime(a, s) = a.runtime /\ Mode(a) = Mode(r) /\ IsRuntime(a.runtime)
      BY <1>1, <1>2, <1>3, <1>4, <2>2, <3>1, RampAdmitsAgain DEF q
    <3>3. Gated(a) <=> Gated(r)
      BY <1>3, <3>2 DEF Gated
    <3>4. /\ Normal(r.command, s) /\ DOMAIN s = DOMAIN p /\ \A n \in DOMAIN p \ {"channels"} : s[n] = p[n]
          /\ CanonicalChannels(a, s) = s
      BY <1>2, <1>3, <1>4, <2>2, <3>1, <3>3, OrderedIsNormal DEF q
    <3>5. ParametersHold(r.command, s)
      <4>1. \A n : n \notin {"document", "channels", "file", "snapshot"} =>
              (n \in DOMAIN s <=> n \in DOMAIN p) /\ (n \in DOMAIN s => s[n] = p[n])
        BY <3>4
      <4> QED
        BY <1>1, <2>2, <4>1, ParametersStillHold
    <3>6. r.command \notin DocumentCommands
      BY <2>2 DEF DocumentCommands
    <3> QED
      BY <3>2, <3>4, <3>5, <3>6
  <2>3. CASE r.command \notin DocumentCommands \cup {"ramp"}
    <3>1. s = p /\ CanonicalChannels(a, s) = s
      BY <1>3, <1>5, <2>3 DEF s
    <3>2. r.command \notin {"sequence", "ramp-list", "restore-from-snapshot", "ramp"}
      BY <2>3 DEF DocumentCommands
    <3>3. GateHolds(r) /\ a.runtime = GatedRuntime(r)
      BY <1>1, <1>3, <3>2 DEF CommandAdmits, AdmittedRuntime
    <3>4. GateHolds(a) /\ GatedRuntime(a) = a.runtime /\ Mode(a) = Mode(r) /\ IsRuntime(a.runtime)
      BY <1>3, <3>3, GateAgain DEF IsRequest
    <3>5. CommandAdmits(a, s) /\ AdmittedRuntime(a, s) = a.runtime
      BY <1>3, <3>2, <3>4 DEF CommandAdmits, AdmittedRuntime
    <3> QED
      BY <1>1, <1>2, <2>3, <3>1, <3>4, <3>5
  <2> QED
    BY <2>1, <2>2, <2>3
<1>7. RequestNormalizes(a.command, a.parameters) /\ Normalized(a.command, a.parameters) = s
  BY <1>3, <1>6, NormalStays
<1>8. AdmissionHolds(a)
  BY <1>1, <1>3, <1>6, <1>7 DEF AdmissionHolds
<1>9. Admitted(a) = a
  <2>1. Admitted(a) = [a EXCEPT !.parameters = s, !.runtime = a.runtime]
    BY <1>3, <1>6, <1>7 DEF Admitted
  <2> QED
    BY <1>3, <2>1 DEF Like
<1>10. Carried(a)
  BY <1>3, <1>6 DEF Carried, IsRequest, Like
<1> QED
  BY <1>8, <1>9, <1>10

\* A request that carries its document is admitted or not whatever the files
\* say, but for the limits of a list or a sequence with a configuration.
LEMMA FilesAside ==
  ASSUME NEW r, Carried(r), registry' = registry
  PROVE  /\ Admitted(r)' = Admitted(r)
         /\ AdmissionHolds(r) /\ (~r.configured \/ r.command \notin {"ramp-list", "sequence"}) => AdmissionHolds(r)'
<1> DEFINE p == r.parameters
<1>1. /\ Normalized(r.command, p) = p /\ r = [n \in DOMAIN r |-> r[n]] /\ DOMAIN r = RequestFields
      /\ r.command \in DocumentCommands => "document" \in DOMAIN p
  BY NormalStays DEF Carried, IsRequest
<1>2. ASSUME r.command \in DocumentCommands
      PROVE  DocumentOf(p) = p["document"][2] /\ DocumentOf(p)' = p["document"][2]
  BY <1>1, <1>2 DEF DocumentOf, FromFile
<1> HIDE DEF p
<1>3. Admitted(r)' = Admitted(r)
  <2> DEFINE q == CanonicalChannels(r, p)
  <2>1. q = IF r.command \in DocumentCommands THEN p ELSE q
    BY DEF CanonicalChannels, DocumentCommands
  <2> HIDE DEF q
  <2>2. r.command \in DocumentCommands => Materialize(q)' = Materialize(q) /\ DocumentOf(q)' = DocumentOf(q)
    BY <1>2, <2>1 DEF Materialize
  <2>3. AdmittedRuntime(r, q)' = AdmittedRuntime(r, q)
    BY <2>2 DEF AdmittedRuntime, DocumentCommands
  <2> QED
    BY <1>1, <2>2, <2>3 DEF Admitted, q, p
<1>4. ASSUME AdmissionHolds(r), ~r.configured \/ r.command \notin {"ramp-list", "sequence"}
      PROVE  AdmissionHolds(r)'
  <2>1. CommandAdmits(r, p)
    BY <1>1, <1>4 DEF AdmissionHolds, p
  <2>2. CommandAdmits(r, p)'
    <3>1. CASE r.command = "sequence"
      <4>1. \A runtime : SequenceLimits([r EXCEPT !.runtime = runtime])' = SequenceLimits([r EXCEPT !.runtime = runtime])
        BY <1>1, <1>4, <3>1 DEF SequenceLimits, RequestFields
      <4> QED
        BY <1>2, <2>1, <3>1, <4>1 DEF CommandAdmits, SequencePlannedWith, DocumentCommands
    <3>2. CASE r.command = "ramp-list"
      <4> DEFINE s == [r EXCEPT !.runtime = GatedRuntime(r)]
                 d == p["document"][2]
      <4>1. ~s.configured
        BY <1>1, <1>4, <3>2 DEF RequestFields
      <4>2. GateHolds(r) /\ DocumentGiven(p) /\ RampListPlanned(s, d, p, doc)
        BY <1>2, <2>1, <3>2 DEF CommandAdmits, DocumentCommands
      <4> HIDE DEF s
      <4>3. RampListPlanned(s, d, p, doc')
        BY <4>1, <4>2, RampListAgain
      <4> QED
        BY <1>2, <3>2, <4>2, <4>3 DEF CommandAdmits, DocumentCommands, s
    <3>3. CASE r.command = "restore-from-snapshot"
      BY <1>2, <2>1, <3>3 DEF CommandAdmits, DocumentCommands
    <3>4. CASE r.command \notin DocumentCommands
      BY <2>1, <3>4 DEF CommandAdmits, DocumentCommands
    <3> QED
      BY <3>1, <3>2, <3>3, <3>4 DEF DocumentCommands
  <2> QED
    BY <1>1, <1>4, <2>2 DEF AdmissionHolds, p
<1> QED
  BY <1>3, <1>4

\* The admitted request carries what it needs, and is stable.
ReadmitInv ==
  /\ edits \in Nat
  /\ pc = "received" => request \in Requests
  /\ pc = "admitted" /\ ~Direct(request) => Carried(request)
  /\ ReadmissionStable

\* The adapter's admission leaves a request that run_core_command admits.
LEMMA AdmitIsStable == ASSUME ReadmitInv, Admit PROVE ReadmitInv'
<1> DEFINE r == CliResolved(request)
           a == Admitted(r)
           u == Unconfigured(a)
<1>1. /\ request \in Requests /\ UNCHANGED <<registry, doc, file, edits>>
      /\ \/ pc' = "refused"
         \/ /\ pc' = "admitted" /\ request' = (IF Direct(r) THEN r ELSE Admitted(r))
            /\ ~Direct(r) => AdmissionHolds(r)
  BY DEF Admit, ReadmitInv
<1>2. IsRequest(r) /\ \A n \in DOMAIN r.parameters : Tagged(r.parameters[n])
  <2>1. IsRequest(request) /\ \A n \in DOMAIN request.parameters : Tagged(request.parameters[n])
    BY <1>1, RequestsAssumption, RuntimesAssumption DEF IsRequest, IsRuntime
  <2>2. r = request \/ \E resource : r = [request EXCEPT !.runtime.resource = resource]
    BY DEF CliResolved
  <2> HIDE DEF r
  <2>3. /\ DOMAIN r = RequestFields /\ r = [n \in DOMAIN r |-> r[n]] /\ r.parameters = request.parameters
        /\ DOMAIN r.runtime = RuntimeFields /\ r.runtime = [n \in DOMAIN r.runtime |-> r.runtime[n]]
        /\ r.runtime.mode = request.runtime.mode
    BY <2>1, <2>2 DEF IsRequest, IsRuntime, RequestFields, RuntimeFields
  <2> QED
    BY <2>1, <2>3 DEF IsRequest, IsRuntime
<1>3. CASE pc' = "refused"
  BY <1>1, <1>3 DEF ReadmitInv, ReadmissionStable
<1>4. CASE pc' = "admitted" /\ Direct(r)
  <2>1. request' = r /\ Direct(request')
    BY <1>1, <1>4
  <2>2. Direct(request)'
    BY <2>1 DEF Direct, Mode
  <2> QED
    BY <1>1, <1>4, <2>2 DEF ReadmitInv, ReadmissionStable
<1>5. CASE pc' = "admitted" /\ ~Direct(r)
  <2>1. request' = a /\ AdmissionHolds(r) /\ UNCHANGED <<registry, doc, file, edits>>
    BY <1>1, <1>5
  <2>2. Like(a, r) /\ DOMAIN a = RequestFields
    BY <1>2 DEF Like, Admitted, IsRequest, RequestFields
  <2>3. Like(u, r) /\ u.parameters = a.parameters /\ u.runtime = a.runtime
    BY <2>2 DEF Like, Unconfigured, RequestFields
  <2> HIDE DEF a, r
  <2>4. AdmissionHolds(a) /\ Admitted(a) = a /\ Carried(a)
    BY <1>2, <2>1, <2>2, AdmitsAgain DEF a
  <2>5. AdmissionHolds(u)
    <3> HIDE DEF u
    <3> QED
      BY <1>2, <2>1, <2>3, AdmitsAgain DEF a
  <2>6. Carried(request)' <=> Carried(request')
    BY DEF Carried, IsRequest, IsRuntime, Normal
  <2>7. /\ Admitted(request)' = Admitted(request')
        /\ AdmissionHolds(request)' <=> AdmissionHolds(request')
        /\ AdmissionHolds(Unconfigured(request))' <=> AdmissionHolds(Unconfigured(request'))
    BY <2>1 DEF Admitted, AdmittedRuntime, Materialize, DocumentOf, FromFile, AdmissionHolds, CommandAdmits,
                SequencePlannedWith, SequenceLimits, Unconfigured, SequenceRuntime
  <2> QED
    BY <1>1, <1>5, <2>1, <2>4, <2>5, <2>6, <2>7 DEF ReadmitInv, ReadmissionStable, u
<1> QED
  BY <1>1, <1>3, <1>4, <1>5

\* Edits change nothing but limits.
LEMMA EditsAreStable == ASSUME ReadmitInv, EditFiles PROVE ReadmitInv'
<1>1. UNCHANGED <<registry, request, pc>> /\ edits' = edits + 1 /\ edits \in Nat
  BY DEF EditFiles, ReadmitInv
<1>2. PICK r : r = request
  OBVIOUS
<1>3. r = request'
  BY <1>1, <1>2
<1>4. Carried(r)' <=> Carried(r)
  BY DEF Carried, IsRequest, IsRuntime, Normal
<1>5. ASSUME pc = "admitted", ~Direct(request)
      PROVE  /\ Admitted(request)' = request'
             /\ AdmissionHolds(Unconfigured(request))'
             /\ request.command \notin {"ramp-list", "sequence"} => AdmissionHolds(request)'
  <2>1. /\ Carried(r) /\ Admitted(r) = r /\ AdmissionHolds(Unconfigured(r))
        /\ r.command \notin {"ramp-list", "sequence"} => AdmissionHolds(r)
    BY <1>2, <1>5 DEF ReadmitInv, ReadmissionStable
  <2>2. Carried(Unconfigured(r)) /\ ~Unconfigured(r).configured
    BY <2>1 DEF Carried, IsRequest, Unconfigured, RequestFields
  <2>3. /\ Admitted(r)' = r /\ AdmissionHolds(Unconfigured(r))'
        /\ r.command \notin {"ramp-list", "sequence"} => AdmissionHolds(r)'
    BY <1>1, <2>1, <2>2, FilesAside
  <2> QED
    BY <1>2, <1>3, <2>3
<1> QED
  BY <1>1, <1>2, <1>3, <1>4, <1>5 DEF ReadmitInv, ReadmissionStable

\* The other steps lead away from an admitted request.
LEMMA OtherStepsAreStable ==
  ASSUME ReadmitInv,
         \/ Import \/ Receive \/ Start \/ Open \/ CheckLimits \/ CheckConfirmation \/ CheckChannel
         \/ CheckRestore \/ Write \/ Raise \/ Reject \/ Return \/ NextRequest
  PROVE  ReadmitInv'
<1>1. edits' \in Nat
  BY DEF ReadmitInv, Import, Receive, Start, Open, CheckLimits, CheckConfirmation, CheckChannel,
         CheckRestore, Check, Write, Raise, Reject, Return, NextRequest
<1>2. pc' # "admitted" /\ (pc' = "received" => request' \in Requests)
  <2>1. CASE Start
    <3>1. \A s : Dispatch(s) \in {"planned", "refused", "dispatched", "opening"}
      BY DEF Dispatch, Opening
    <3>2. pc' = "refused" \/ \E s : pc' = Dispatch(s)
      BY <2>1 DEF Start
    <3> QED
      BY <3>1, <3>2
  <2>2. CASE CheckLimits \/ CheckConfirmation \/ CheckChannel \/ CheckRestore
    BY <2>2 DEF CheckLimits, CheckConfirmation, CheckChannel, CheckRestore, Check
  <2>3. CASE Import \/ Receive \/ Open \/ Write \/ Raise \/ Reject \/ Return \/ NextRequest
    BY <2>3 DEF Import, Receive, Open, Write, Raise, Reject, Return, NextRequest, Sessions
  <2> QED
    BY <2>1, <2>2, <2>3
<1> QED
  BY <1>1, <1>2 DEF ReadmitInv, ReadmissionStable

\* A step that changes nothing keeps the invariant.
LEMMA StutterIsStable == ASSUME ReadmitInv, UNCHANGED vars PROVE ReadmitInv'
<1>1. UNCHANGED <<registry, doc, file, edits, pc, request>>
  BY DEF vars
<1>2. /\ Admitted(request)' = Admitted(request)
      /\ AdmissionHolds(request)' <=> AdmissionHolds(request)
      /\ AdmissionHolds(Unconfigured(request))' <=> AdmissionHolds(Unconfigured(request))
      /\ Carried(request)' <=> Carried(request)
  BY <1>1 DEF Admitted, AdmittedRuntime, Materialize, DocumentOf, FromFile, AdmissionHolds, CommandAdmits,
              SequencePlannedWith, SequenceLimits, Unconfigured, SequenceRuntime,
              Carried, IsRequest, IsRuntime, Normal
<1> QED
  BY <1>1, <1>2 DEF ReadmitInv, ReadmissionStable

\* In every reachable state: what has been admitted is admitted again unchanged,
\* but for the limits of a configuration that was edited.
THEOREM Readmission == Spec => []ReadmissionStable
<1>1. Init => ReadmitInv
  BY DEF Init, ReadmitInv, ReadmissionStable
<1>2. ReadmitInv /\ [Next]_vars => ReadmitInv'
  BY AdmitIsStable, EditsAreStable, OtherStepsAreStable, StutterIsStable DEF Next
<1>3. ReadmitInv => ReadmissionStable
  BY DEF ReadmitInv
<1> QED
  BY <1>1, <1>2, <1>3, PTL DEF Spec

-----------------------------------------------------------------------------
(* What an output is switched on with                                      *)

\* A step sets the voltage or the current of a channel, and to what.
Sets(x, kind, c) == x[1] \in {"pair", kind} /\ x[2] = c

Level(x, kind) == IF kind = "voltage" THEN x[3] ELSE x[4]

Kinds == {"voltage", "current"}

\* The first n steps set nothing of a channel; the last of them that does sets x.
Untouched(s, n, c, kind) == \A m \in 1..n : ~Sets(s[m], kind, c)

LastSet(s, n, c, kind, x) ==
  \E m \in 1..n :
    /\ Sets(s[m], kind, c) /\ Level(s[m], kind) = x
    /\ \A k \in m + 1..n : ~Sets(s[k], kind, c)

\* What is programmed after the first n steps.
ProgrammedAt(b, s, n, c, kind, x) ==
  \/ Untouched(s, n, c, kind) /\ x = b[kind][c]
  \/ LastSet(s, n, c, kind, x)

\* Where all of the steps that set something set the same, the last of them does.
LEMMA AgreedIsLast ==
  ASSUME NEW s, NEW n \in Nat, NEW c, NEW kind, NEW x,
         \E m \in 1..n : Sets(s[m], kind, c),
         \A m \in 1..n : Sets(s[m], kind, c) => Level(s[m], kind) = x
  PROVE  LastSet(s, n, c, kind, x)
<1> DEFINE M == {m \in 1..n : Sets(s[m], kind, c)}
<1>1. M \subseteq 1..n /\ M # {}
  OBVIOUS
<1>2. Max(M) \in M /\ \A m \in M : m <= Max(M)
  <2> HIDE DEF M
  <2> QED
    BY <1>1, GreatestExists
<1> DEFINE m == Max(M)
<1>3. m \in 1..n /\ Sets(s[m], kind, c) /\ Level(s[m], kind) = x
  BY <1>2
<1>4. \A k \in m + 1..n : k \in 1..n /\ ~(k <= m)
  <2> HIDE DEF m
  <2> QED
    BY <1>3
<1>5. \A k \in m + 1..n : ~Sets(s[k], kind, c)
  BY <1>2, <1>4
<1> HIDE DEF m
<1> QED
  BY <1>3, <1>5 DEF LastSet

\* A channel that is requested, which a step of the session switches on.
Lights(r, b, x, c) ==
  /\ x[1] = "on" /\ c \in ToSet(SessionChannels(r, b)) \cap DOMAIN b.on
  /\ c \in Switched(b, x[2]) /\ (r.command = "sequence" => c = x[2])

\* A restore is confirmed as a whole, a sequence is not asked.
Asks(r) == r.command \notin {"sequence", "restore-from-snapshot"}

\* A pair of a channel is what the document recorded of it.
Remembered(r, c, v, i) ==
  LET d == r.parameters["document"][2] IN
  /\ r.command = "restore-from-snapshot"
  /\ c \in ToSet(RestoreChannels(d, r.parameters["channel"]))
  /\ v = RecordOf(d.readback, c).voltage /\ i = RecordOf(d.readback, c).current

\* A pair is checked by these steps.
Covered(r, steps, c, v, i) ==
  \/ /\ v \in Int /\ i \in Int /\ <<"limits", c, v, i>> \in steps
     /\ Asks(r) => <<"confirm", c, v, i>> \in steps
  \/ Remembered(r, c, v, i) /\ \E x \in steps : x[1] = "fit"

\* The same of what has been checked, and of the first n steps that remain.
Granted(r, done, asked, s, n, c, v, i) ==
  \/ /\ v \in Int /\ i \in Int
     /\ \/ \E k \in done : <<k[1], k[2], k[3]>> = <<c, v, i>>
        \/ \E m \in 1..n : s[m] = <<"limits", c, v, i>>
     /\ Asks(r) => \/ \E k \in asked : <<k[1], k[2], k[3]>> = <<c, v, i>>
                   \/ \E m \in 1..n : s[m] = <<"confirm", c, v, i>>
  \/ /\ Remembered(r, c, v, i)
     /\ LET d == r.parameters["document"][2] IN
        \/ RestoreSetpointsFit(d, RestoreChannels(d, r.parameters["channel"]))
        \/ \E m \in 1..n : s[m][1] = "fit"

\* Every output that is requested is switched on with a pair that was checked.
Lit(r, b, done, asked, s) ==
  /\ IsTable(s)
  /\ \A n \in 1..Len(s) : \A c : Lights(r, b, s[n], c) =>
       \E v, i : /\ ProgrammedAt(b, s, n - 1, c, "voltage", v)
                 /\ ProgrammedAt(b, s, n - 1, c, "current", i)
                 /\ Granted(r, done, asked, s, n - 1, c, v, i)

\* What does not set leaves programmed what is.
LEMMA AfterMore ==
  ASSUME NEW b, NEW T, NEW s \in Seq(T), NEW t \in Seq(T), NEW n \in 0..Len(t), NEW c, NEW kind, NEW x
  PROVE  /\ LastSet(t, n, c, kind, x) => LastSet(s \o t, Len(s) + n, c, kind, x)
         /\ Untouched(t, n, c, kind) /\ LastSet(s, Len(s), c, kind, x) => LastSet(s \o t, Len(s) + n, c, kind, x)
         /\ Untouched(t, n, c, kind) /\ Untouched(s, Len(s), c, kind) <=> Untouched(s \o t, Len(s) + n, c, kind)
<1> DEFINE u == s \o t
           a == Len(s)
<1>1. /\ a \in Nat /\ Len(t) \in Nat /\ n \in Nat
      /\ \A k \in 1..a : u[k] = s[k]
      /\ \A k \in 1..Len(t) : u[a + k] = t[k]
  BY LenProperties, JoinPositions
<1>2. \A k \in 1..n : u[a + k] = t[k] /\ a + k \in 1..a + n
  BY <1>1
<1> HIDE DEF u, a
<1>3. ASSUME NEW k \in 1..a + n, k \notin 1..a PROVE k - a \in 1..n /\ u[k] = t[k - a] /\ a + (k - a) = k
  <2>1. k - a \in 1..n /\ a + (k - a) = k
    BY <1>1, <1>3
  <2> QED
    BY <1>2, <2>1
<1>4. ASSUME LastSet(t, n, c, kind, x) PROVE LastSet(u, a + n, c, kind, x)
  <2>1. PICK m \in 1..n :
          Sets(t[m], kind, c) /\ Level(t[m], kind) = x /\ \A k \in m + 1..n : ~Sets(t[k], kind, c)
    BY <1>4 DEF LastSet
  <2>2. a + m \in 1..a + n /\ u[a + m] = t[m]
    BY <1>2
  <2>3. ASSUME NEW k \in (a + m) + 1..a + n PROVE ~Sets(u[k], kind, c)
    <3>1. k \in 1..a + n /\ k \notin 1..a /\ k - a \in m + 1..n
      BY <1>1
    <3> QED
      BY <1>3, <2>1, <3>1
  <2> QED
    BY <2>1, <2>2, <2>3 DEF LastSet
<1>5. ASSUME Untouched(t, n, c, kind), LastSet(s, a, c, kind, x) PROVE LastSet(u, a + n, c, kind, x)
  <2>1. PICK m \in 1..a :
          Sets(s[m], kind, c) /\ Level(s[m], kind) = x /\ \A k \in m + 1..a : ~Sets(s[k], kind, c)
    BY <1>5 DEF LastSet
  <2>2. m \in 1..a + n /\ u[m] = s[m]
    BY <1>1
  <2>3. ASSUME NEW k \in m + 1..a + n PROVE ~Sets(u[k], kind, c)
    <3>1. CASE k \in 1..a
      <4>1. k \in m + 1..a
        BY <1>1, <3>1
      <4> QED
        BY <1>1, <2>1, <3>1, <4>1
    <3>2. CASE k \notin 1..a
      <4>1. k \in 1..a + n
        BY <1>1
      <4> QED
        BY <1>3, <1>5, <3>2, <4>1 DEF Untouched
    <3> QED
      BY <3>1, <3>2
  <2> QED
    BY <2>1, <2>2, <2>3 DEF LastSet
<1>6. Untouched(t, n, c, kind) /\ Untouched(s, a, c, kind) <=> Untouched(u, a + n, c, kind)
  <2>1. ASSUME Untouched(t, n, c, kind), Untouched(s, a, c, kind), NEW k \in 1..a + n
        PROVE  ~Sets(u[k], kind, c)
    BY <1>1, <1>3, <2>1 DEF Untouched
  <2>2. ASSUME Untouched(u, a + n, c, kind), NEW k \in 1..n PROVE ~Sets(t[k], kind, c)
    BY <1>2, <2>2 DEF Untouched
  <2>3. ASSUME Untouched(u, a + n, c, kind), NEW k \in 1..a PROVE ~Sets(s[k], kind, c)
    <3>1. k \in 1..a + n
      BY <1>1
    <3> QED
      BY <1>1, <2>3, <3>1 DEF Untouched
  <2> QED
    BY <2>1, <2>2, <2>3 DEF Untouched
<1> QED
  BY <1>4, <1>5, <1>6 DEF u, a

\* The last pair that the first n steps set of a channel is one that was checked.
Firm(r, steps, s, n, c) ==
  \E v, i : /\ Covered(r, steps, c, v, i)
            /\ LastSet(s, n, c, "voltage", v) /\ LastSet(s, n, c, "current", i)

Clean(s, n, c) == \A kind \in Kinds : Untouched(s, n, c, kind)

\* Whatever these steps switch on has such a pair, or is one of the channels C
\* and still what it was.
Safe(r, b, steps, s, C) ==
  /\ IsTable(s)
  /\ \A n \in 1..Len(s) : \A c : Lights(r, b, s[n], c) =>
       Firm(r, steps, s, n - 1, c) \/ (Clean(s, n - 1, c) /\ c \in C)

Dark(s) == IsTable(s) /\ \A x \in ToSet(s) : x[1] # "on"

\* What comes later changes nothing of what was before.
LEMMA BeforeMore ==
  ASSUME NEW T, NEW s \in Seq(T), NEW t \in Seq(T), NEW n \in 0..Len(s), NEW c, NEW kind
  PROVE  /\ \A x : LastSet(s, n, c, kind, x) <=> LastSet(s \o t, n, c, kind, x)
         /\ Untouched(s, n, c, kind) <=> Untouched(s \o t, n, c, kind)
<1> DEFINE u == s \o t
<1>1. Len(s) \in Nat /\ \A k \in 1..Len(s) : u[k] = s[k]
  BY LenProperties, JoinPositions
<1>2. \A k \in 1..n : k \in 1..Len(s)
  BY <1>1
<1> HIDE DEF u
<1>3. \A k \in 1..n : u[k] = s[k]
  BY <1>1, <1>2
<1>4. \A m \in 1..n : \A k \in m + 1..n : k \in 1..n
  OBVIOUS
<1>5. ASSUME NEW x PROVE LastSet(s, n, c, kind, x) <=> LastSet(u, n, c, kind, x)
  BY <1>3, <1>4 DEF LastSet
<1>6. Untouched(s, n, c, kind) <=> Untouched(u, n, c, kind)
  BY <1>3 DEF Untouched
<1> QED
  BY <1>5, <1>6 DEF u

\* Where the second of two scripts lights a channel, its own writes or those of
\* the first have set a checked pair, or neither has set anything.
LEMMA SafeJoin ==
  ASSUME NEW r, NEW b, NEW steps, NEW C, NEW s, Safe(r, b, steps, s, C), NEW t, IsTable(t),
         \A n \in 1..Len(t) : \A c : Lights(r, b, t[n], c) =>
           \/ Firm(r, steps, t, n - 1, c)
           \/ /\ Clean(t, n - 1, c)
              /\ Firm(r, steps, s, Len(s), c) \/ (Clean(s, Len(s), c) /\ c \in C)
  PROVE  Safe(r, b, steps, s \o t, C)
<1> DEFINE T == ToSet(s) \cup ToSet(t)
           u == s \o t
<1>1. s \in Seq(T) /\ t \in Seq(T)
  BY WiderElements DEF Safe, IsTable
<1> HIDE DEF T
<1>2. /\ Len(s) \in Nat /\ Len(t) \in Nat /\ Len(u) = Len(s) + Len(t)
      /\ \A k \in 1..Len(s) : u[k] = s[k]
      /\ \A k \in 1..Len(t) : u[Len(s) + k] = t[k]
  BY <1>1, LenProperties, JoinPositions
<1>3. IsTable(u)
  BY JoinedTables DEF Safe
<1> HIDE DEF u
<1>4. ASSUME NEW n \in 1..Len(u), NEW c, Lights(r, b, u[n], c)
      PROVE  Firm(r, steps, u, n - 1, c) \/ (Clean(u, n - 1, c) /\ c \in C)
  <2>1. CASE n \in 1..Len(s)
    <3>1. Firm(r, steps, s, n - 1, c) \/ (Clean(s, n - 1, c) /\ c \in C)
      BY <1>2, <1>4, <2>1 DEF Safe
    <3>2. n - 1 \in 0..Len(s)
      BY <1>2, <2>1
    <3>3. \A kind : /\ \A x : LastSet(s, n - 1, c, kind, x) <=> LastSet(u, n - 1, c, kind, x)
                    /\ Untouched(s, n - 1, c, kind) <=> Untouched(u, n - 1, c, kind)
      BY <1>1, <3>2, BeforeMore DEF u
    <3> QED
      BY <3>1, <3>3 DEF Firm, Clean
  <2>2. CASE n \notin 1..Len(s)
    <3> DEFINE k == n - Len(s)
    <3>1. k \in 1..Len(t) /\ n = Len(s) + k /\ k - 1 \in 0..Len(t) /\ n - 1 = Len(s) + (k - 1)
      BY <1>2, <2>2
    <3> HIDE DEF k
    <3>2. \/ Firm(r, steps, t, k - 1, c)
          \/ /\ Clean(t, k - 1, c)
             /\ Firm(r, steps, s, Len(s), c) \/ (Clean(s, Len(s), c) /\ c \in C)
      BY <1>2, <1>4, <3>1
    <3>3. ASSUME NEW kind
          PROVE  /\ \A x : LastSet(t, k - 1, c, kind, x) => LastSet(u, n - 1, c, kind, x)
                 /\ \A x : Untouched(t, k - 1, c, kind) /\ LastSet(s, Len(s), c, kind, x)
                      => LastSet(u, n - 1, c, kind, x)
                 /\ Untouched(t, k - 1, c, kind) /\ Untouched(s, Len(s), c, kind)
                      => Untouched(u, n - 1, c, kind)
      BY <1>1, <3>1, AfterMore DEF u
    <3>4. Firm(r, steps, t, k - 1, c) => Firm(r, steps, u, n - 1, c)
      BY <3>3 DEF Firm
    <3>5. Clean(t, k - 1, c) /\ Firm(r, steps, s, Len(s), c) => Firm(r, steps, u, n - 1, c)
      BY <3>3 DEF Firm, Clean, Kinds
    <3>6. Clean(t, k - 1, c) /\ Clean(s, Len(s), c) => Clean(u, n - 1, c)
      BY <3>3 DEF Clean
    <3> QED
      BY <3>2, <3>4, <3>5, <3>6
  <2> QED
    BY <2>1, <2>2
<1> QED
  BY <1>3, <1>4 DEF Safe, u

\* At its end a script has set of each channel a checked pair, or nothing.
LEMMA EndsJoin ==
  ASSUME NEW r, NEW steps, NEW s, IsTable(s), NEW t, IsTable(t), NEW c
  PROVE  /\ Firm(r, steps, t, Len(t), c) => Firm(r, steps, s \o t, Len(s \o t), c)
         /\ Clean(t, Len(t), c) /\ Firm(r, steps, s, Len(s), c) => Firm(r, steps, s \o t, Len(s \o t), c)
         /\ Clean(t, Len(t), c) /\ Clean(s, Len(s), c) => Clean(s \o t, Len(s \o t), c)
<1> DEFINE T == ToSet(s) \cup ToSet(t)
           u == s \o t
<1>1. s \in Seq(T) /\ t \in Seq(T)
  BY WiderElements DEF IsTable
<1> HIDE DEF T
<1>2. Len(t) \in 0..Len(t) /\ Len(u) = Len(s) + Len(t)
  BY <1>1, LenProperties, JoinPositions
<1>3. ASSUME NEW kind
      PROVE  /\ \A x : LastSet(t, Len(t), c, kind, x) => LastSet(u, Len(u), c, kind, x)
             /\ \A x : Untouched(t, Len(t), c, kind) /\ LastSet(s, Len(s), c, kind, x)
                  => LastSet(u, Len(u), c, kind, x)
             /\ Untouched(t, Len(t), c, kind) /\ Untouched(s, Len(s), c, kind)
                  => Untouched(u, Len(u), c, kind)
  BY <1>1, <1>2, AfterMore
<1> HIDE DEF u
<1>4. Firm(r, steps, t, Len(t), c) => Firm(r, steps, u, Len(u), c)
  BY <1>3 DEF Firm
<1>5. Clean(t, Len(t), c) /\ Firm(r, steps, s, Len(s), c) => Firm(r, steps, u, Len(u), c)
  BY <1>3 DEF Firm, Clean, Kinds
<1>6. Clean(t, Len(t), c) /\ Clean(s, Len(s), c) => Clean(u, Len(u), c)
  BY <1>3 DEF Clean
<1> QED
  BY <1>4, <1>5, <1>6 DEF u

\* What lights nothing is safe.
LEMMA DarkIsSafe ==
  ASSUME NEW r, NEW b, NEW steps, NEW s, Dark(s), NEW C
  PROVE  Safe(r, b, steps, s, C)
<1>1. DOMAIN s = 1..Len(s)
  BY LenProperties DEF Dark, IsTable
<1> QED
  BY <1>1 DEF Safe, Dark, Lights, ToSet

\* Dark scripts, one after the other, are dark.
LEMMA DarkJoin ==
  ASSUME NEW s, Dark(s), NEW t, Dark(t)
  PROVE  Dark(s \o t)
BY JoinedTables DEF Dark

\* What sets nothing leaves what was programmed before.
LEMMA SetsNothing ==
  ASSUME NEW s, IsTable(s), \A x \in ToSet(s) : x[1] \notin Setting, NEW n \in 0..Len(s), NEW c
  PROVE  Clean(s, n, c)
<1>1. DOMAIN s = 1..Len(s) /\ Len(s) \in Nat
  BY LenProperties DEF IsTable
<1>2. ASSUME NEW m \in 1..n, NEW kind \in Kinds PROVE ~Sets(s[m], kind, c)
  <2>1. m \in DOMAIN s
    BY <1>1
  <2>2. s[m] \in ToSet(s)
    BY <2>1 DEF ToSet
  <2> QED
    BY <2>2 DEF Sets, Setting, Kinds
<1> QED
  BY <1>2 DEF Clean, Untouched

\* Writes that agree on the setpoints of each channel to be switched on, the
\* switches, and what follows.
LEMMA SwitchedAfterWrites ==
  ASSUME NEW r, NEW b, NEW steps, NEW first, Dark(first),
         NEW switches, IsTable(switches), \A x \in ToSet(switches) : x[1] \notin Setting,
         \A x \in ToSet(switches) : \A c : Lights(r, b, x, c) =>
           \E v, i :
             /\ Covered(r, steps, c, v, i)
             /\ \E w \in ToSet(first) : Sets(w, "voltage", c)
             /\ \E w \in ToSet(first) : Sets(w, "current", c)
             /\ \A w \in ToSet(first) : /\ Sets(w, "voltage", c) => w[3] = v
                                        /\ Sets(w, "current", c) => w[4] = i,
         NEW C
  PROVE  Safe(r, b, steps, first \o switches, C)
<1>1. /\ DOMAIN first = 1..Len(first) /\ Len(first) \in Nat
      /\ DOMAIN switches = 1..Len(switches) /\ Len(switches) \in Nat
  BY LenProperties DEF Dark, IsTable
<1>2. \A m \in 1..Len(first) : first[m] \in ToSet(first)
  BY <1>1 DEF ToSet
<1>3. ASSUME NEW n \in 1..Len(switches), NEW c, Lights(r, b, switches[n], c)
      PROVE  Clean(switches, n - 1, c) /\ Firm(r, steps, first, Len(first), c)
  <2>1. switches[n] \in ToSet(switches) /\ n - 1 \in 0..Len(switches)
    BY <1>1 DEF ToSet
  <2>2. PICK v, i :
          /\ Covered(r, steps, c, v, i)
          /\ \E w \in ToSet(first) : Sets(w, "voltage", c)
          /\ \E w \in ToSet(first) : Sets(w, "current", c)
          /\ \A w \in ToSet(first) : /\ Sets(w, "voltage", c) => w[3] = v
                                     /\ Sets(w, "current", c) => w[4] = i
    BY <1>3, <2>1
  <2>3. \E m \in 1..Len(first) : Sets(first[m], "voltage", c)
    BY <1>1, <2>2 DEF ToSet
  <2>4. \E m \in 1..Len(first) : Sets(first[m], "current", c)
    BY <1>1, <2>2 DEF ToSet
  <2>5. /\ \A m \in 1..Len(first) : Sets(first[m], "voltage", c) => Level(first[m], "voltage") = v
        /\ \A m \in 1..Len(first) : Sets(first[m], "current", c) => Level(first[m], "current") = i
    BY <1>2, <2>2 DEF Level
  <2>6. LastSet(first, Len(first), c, "voltage", v) /\ LastSet(first, Len(first), c, "current", i)
    BY <1>1, <2>3, <2>4, <2>5, AgreedIsLast
  <2>7. Clean(switches, n - 1, c)
    BY <2>1, SetsNothing
  <2> QED
    BY <2>2, <2>6, <2>7 DEF Firm
<1>4. Safe(r, b, steps, first, C)
  BY DarkIsSafe
<1> QED
  BY <1>3, <1>4, SafeJoin

\* Lights out at the end.
LEMMA SafeThenDark ==
  ASSUME NEW r, NEW b, NEW steps, NEW C, NEW s, Safe(r, b, steps, s, C), NEW t, Dark(t)
  PROVE  Safe(r, b, steps, s \o t, C)
<1>1. DOMAIN t = 1..Len(t) /\ IsTable(t)
  BY LenProperties DEF Dark, IsTable
<1>2. \A n \in 1..Len(t) : \A c : ~Lights(r, b, t[n], c)
  BY <1>1 DEF Dark, Lights, ToSet
<1> QED
  BY <1>1, <1>2, SafeJoin

\* Channels that were checked as they are, and then only switched.
LEMMA SwitchesAreSafe ==
  ASSUME NEW r, NEW b, NEW steps, NEW s, IsTable(s), \A x \in ToSet(s) : x[1] \notin Setting,
         NEW C, \A x \in ToSet(s) : \A c : Lights(r, b, x, c) => c \in C
  PROVE  Safe(r, b, steps, s, C)
<1>1. DOMAIN s = 1..Len(s) /\ Len(s) \in Nat
  BY LenProperties DEF IsTable
<1>2. ASSUME NEW n \in 1..Len(s), NEW c, Lights(r, b, s[n], c) PROVE Clean(s, n - 1, c) /\ c \in C
  <2>1. n - 1 \in 0..Len(s) /\ s[n] \in ToSet(s)
    BY <1>1 DEF ToSet
  <2> QED
    BY <1>2, <2>1, SetsNothing
<1> QED
  BY <1>2 DEF Safe

\* The checks come first.
LEMMA LitAfterChecks ==
  ASSUME NEW r, NEW b, NEW checks, Dark(checks), \A x \in ToSet(checks) : x[1] \notin Setting,
         NEW work, NEW C, Safe(r, b, ToSet(checks), work, C),
         \A c \in C : Covered(r, ToSet(checks), c, b.voltage[c], b.current[c])
  PROVE  Lit(r, b, {}, {}, checks \o work)
<1> DEFINE T == ToSet(checks) \cup ToSet(work)
           u == checks \o work
           a == Len(checks)
<1>1. checks \in Seq(T) /\ work \in Seq(T)
  BY WiderElements DEF Safe, Dark, IsTable
<1> HIDE DEF T
<1>2. /\ a \in Nat /\ Len(work) \in Nat /\ Len(u) = a + Len(work) /\ DOMAIN checks = 1..a
      /\ \A k \in 1..a : u[k] = checks[k]
      /\ \A k \in 1..Len(work) : u[a + k] = work[k]
  BY <1>1, LenProperties, JoinPositions
<1>3. IsTable(u)
  BY JoinedTables DEF Safe, Dark
<1> HIDE DEF u, a
<1>4. ASSUME NEW n \in 1..Len(u), NEW c, Lights(r, b, u[n], c)
      PROVE  \E v, i : /\ ProgrammedAt(b, u, n - 1, c, "voltage", v)
                       /\ ProgrammedAt(b, u, n - 1, c, "current", i)
                       /\ Granted(r, {}, {}, u, n - 1, c, v, i)
  <2>1. n \notin 1..a
    <3>1. \A k \in 1..a : checks[k] \in ToSet(checks)
      BY <1>2 DEF ToSet
    <3> QED
      BY <1>2, <1>4, <3>1 DEF Lights, Dark
  <2> DEFINE k == n - a
  <2>2. /\ k \in 1..Len(work) /\ n = a + k /\ k - 1 \in 0..Len(work) /\ n - 1 = a + (k - 1)
        /\ n - 1 \in Nat /\ 1..a \subseteq 1..n - 1
    BY <1>2, <2>1
  <2> HIDE DEF k
  <2>3. Firm(r, ToSet(checks), work, k - 1, c) \/ (Clean(work, k - 1, c) /\ c \in C)
    BY <1>2, <1>4, <2>2 DEF Safe
  <2>4. a \in 0..Len(checks) /\ Clean(checks, a, c)
    BY <1>2, SetsNothing DEF Dark, a
  <2>5. ASSUME NEW kind
        PROVE  /\ \A x : LastSet(work, k - 1, c, kind, x) => LastSet(u, n - 1, c, kind, x)
               /\ Untouched(work, k - 1, c, kind) /\ Untouched(checks, a, c, kind)
                    => Untouched(u, n - 1, c, kind)
    BY <1>1, <2>2, AfterMore DEF u, a
  <2>6. PICK v, i : /\ ProgrammedAt(b, u, n - 1, c, "voltage", v)
                    /\ ProgrammedAt(b, u, n - 1, c, "current", i)
                    /\ Covered(r, ToSet(checks), c, v, i)
    <3>1. CASE Firm(r, ToSet(checks), work, k - 1, c)
      BY <2>5, <3>1 DEF Firm, ProgrammedAt
    <3>2. CASE Clean(work, k - 1, c) /\ c \in C
      BY <2>4, <2>5, <3>2 DEF Clean, Kinds, ProgrammedAt
    <3> QED
      BY <2>3, <3>1, <3>2
  <2>7. ASSUME NEW x \in ToSet(checks) PROVE \E m \in 1..n - 1 : u[m] = x
    <3>1. PICK m \in 1..a : checks[m] = x
      BY <1>2 DEF ToSet
    <3> QED
      BY <1>2, <2>2, <3>1
  <2>8. Granted(r, {}, {}, u, n - 1, c, v, i)
    BY <2>6, <2>7 DEF Covered, Granted
  <2> QED
    BY <2>6, <2>8
<1> QED
  BY <1>3, <1>4 DEF Lit, u

\* Where nothing is switched on, nothing need be checked.
LEMMA DarkIsLit == ASSUME NEW r, NEW b, NEW done, NEW asked, NEW s, Dark(s) PROVE Lit(r, b, done, asked, s)
<1>1. DOMAIN s = 1..Len(s)
  BY LenProperties DEF Dark, IsTable
<1> QED
  BY <1>1 DEF Lit, Dark, Lights, ToSet

-----------------------------------------------------------------------------
(* The commands that switch on *)

\* The writes of a pair set both.
LEMMA PairSets ==
  ASSUME NEW model, NEW c, NEW v \in Int, NEW i \in Int
  PROVE  LET writes == WritePair(model, c, v, i) IN
         /\ Dark(writes)
         /\ \E w \in ToSet(writes) : Sets(w, "voltage", c)
         /\ \E w \in ToSet(writes) : Sets(w, "current", c)
         /\ \A w \in ToSet(writes) : \A e : /\ Sets(w, "voltage", e) => e = c /\ w[3] = v
                                            /\ Sets(w, "current", e) => e = c /\ w[4] = i
<1>1. v # NoValue /\ i # NoValue
  BY ModelsAssumption
<1>2. CASE model = PSM2010
  <2>1. WritePair(model, c, v, i) = <<<<"pair", c, v, i>>>>
    BY <1>1, <1>2 DEF WritePair
  <2>2. IsTable(<<<<"pair", c, v, i>>>>) /\ ToSet(<<<<"pair", c, v, i>>>>) = {<<"pair", c, v, i>>}
    BY SmallTables
  <2> QED
    BY <2>1, <2>2 DEF Dark, Sets
<1>3. CASE model # PSM2010
  <2> DEFINE x == <<"current", c, NoValue, i>>
             y == <<"voltage", c, v, NoValue>>
  <2>1. WritePair(model, c, v, i) = <<x>> \o <<y>>
    BY <1>1, <1>3 DEF WritePair
  <2>2. /\ Sets(y, "voltage", c) /\ Sets(x, "current", c) /\ x[1] # "on" /\ y[1] # "on"
        /\ \A e : ~Sets(x, "voltage", e) /\ ~Sets(y, "current", e)
        /\ \A e : Sets(y, "voltage", e) => e = c
        /\ \A e : Sets(x, "current", e) => e = c
        /\ y[3] = v /\ x[4] = i
    BY DEF Sets
  <2> HIDE DEF x, y
  <2>3. IsTable(<<x>> \o <<y>>) /\ ToSet(<<x>> \o <<y>>) = {x, y}
    BY SmallTables, JoinedTables
  <2> QED
    BY <2>1, <2>2, <2>3 DEF Dark
<1> QED
  BY <1>2, <1>3

\* The pairs of some channels.
LEMMA PairsSet ==
  ASSUME NEW model, NEW channels, IsTable(channels), NEW v \in Int, NEW i \in Int
  PROVE  LET writes == Pairs(model, channels, v, i) IN
         /\ Dark(writes)
         /\ \A c \in ToSet(channels) :
              /\ \E w \in ToSet(writes) : Sets(w, "voltage", c)
              /\ \E w \in ToSet(writes) : Sets(w, "current", c)
         /\ \A w \in ToSet(writes) : \A c : /\ Sets(w, "voltage", c) => w[3] = v
                                            /\ Sets(w, "current", c) => w[4] = i
<1> DEFINE ss == [k \in DOMAIN channels |-> WritePair(model, channels[k], v, i)]
<1>1. Pairs(model, channels, v, i) = FlattenSeq(ss)
  BY DEF Each, Pairs
<1>2. ss = [k \in DOMAIN channels |-> ss[k]]
      /\ \A k \in DOMAIN channels : ss[k] = WritePair(model, channels[k], v, i)
  OBVIOUS
<1> HIDE DEF ss
<1>3. ASSUME NEW k \in DOMAIN channels
      PROVE  /\ Dark(ss[k])
             /\ \E w \in ToSet(ss[k]) : Sets(w, "voltage", channels[k])
             /\ \E w \in ToSet(ss[k]) : Sets(w, "current", channels[k])
             /\ \A w \in ToSet(ss[k]) : \A c : /\ Sets(w, "voltage", c) => w[3] = v
                                               /\ Sets(w, "current", c) => w[4] = i
  <2> DEFINE c == channels[k]
  <2>1. ss[k] = WritePair(model, c, v, i)
    BY <1>2
  <2> HIDE DEF c
  <2> QED
    BY <2>1, PairSets DEF c
<1>4. IsTable(FlattenSeq(ss)) /\ ToSet(FlattenSeq(ss)) = UNION {ToSet(ss[k]) : k \in DOMAIN channels}
  BY <1>2, <1>3, EachTable DEF Dark
<1>5. Dark(FlattenSeq(ss))
  BY <1>3, <1>4 DEF Dark
<1>6. ASSUME NEW c \in ToSet(channels)
      PROVE  /\ \E w \in ToSet(FlattenSeq(ss)) : Sets(w, "voltage", c)
             /\ \E w \in ToSet(FlattenSeq(ss)) : Sets(w, "current", c)
  <2>1. PICK k \in DOMAIN channels : channels[k] = c
    BY DEF ToSet
  <2> QED
    BY <1>3, <1>4, <2>1
<1>7. ASSUME NEW w \in ToSet(FlattenSeq(ss)), NEW c
      PROVE  (Sets(w, "voltage", c) => w[3] = v) /\ (Sets(w, "current", c) => w[4] = i)
  <2>1. PICK k \in DOMAIN channels : w \in ToSet(ss[k])
    BY <1>4
  <2> QED
    BY <1>3, <2>1
<1> QED
  BY <1>1, <1>5, <1>6, <1>7

\* Apply checks, writes and switches on the same channels.
LEMMA ApplyLit ==
  ASSUME NEW r, r.command = "apply", NEW b, NEW model, NEW channels, channels = SessionChannels(r, b),
         IsTable(channels), NEW p, NEW v \in Int, NEW i \in Int
  PROVE  Lit(r, b, {}, {}, ApplySteps(model, channels, p, v, i))
<1> DEFINE on == ~Flagged(p, "no_output")
           checks == PairChecks(channels, v, i, on)
           writes == Pairs(model, channels, v, i)
           switches == IF on THEN SwitchEach("on", channels) ELSE <<>>
<1>1. ApplySteps(model, channels, p, v, i) = checks \o writes \o switches
  BY DEF ApplySteps, PairChecks, Pairs
<1>2. on \in BOOLEAN
  BY DEF Flagged
<1>3. /\ IsTable(checks) /\ \A x \in ToSet(checks) : x[1] \in {"limits", "confirm"}
      /\ \A c \in ToSet(channels) :
           /\ <<"limits", c, v, i>> \in ToSet(checks)
           /\ on => <<"confirm", c, v, i>> \in ToSet(checks)
  <2> HIDE DEF on
  <2> QED
    BY <1>2, PairChecksAre
<1>4. /\ IsTable(switches) /\ \A x \in ToSet(switches) : x[1] \notin Setting
      /\ switches # << >> => on
  BY SwitchesAre, SmallTables DEF Setting
<1>5. ASSUME NEW x \in ToSet(switches), NEW c, Lights(r, b, x, c)
      PROVE  c \in ToSet(channels) /\ Covered(r, ToSet(checks), c, v, i)
  <2>1. on
    BY <1>5, <1>4, SmallTables
  <2>2. c \in ToSet(channels)
    BY <1>5 DEF Lights
  <2> HIDE DEF on, checks, switches
  <2> QED
    BY <1>3, <2>1, <2>2 DEF Covered
<1> HIDE DEF checks, writes, switches, on
<1>6. Dark(checks) /\ \A x \in ToSet(checks) : x[1] \notin Setting
  BY <1>3 DEF Dark, Setting
<1>7. /\ Dark(writes)
      /\ \A c \in ToSet(channels) :
           /\ \E w \in ToSet(writes) : Sets(w, "voltage", c)
           /\ \E w \in ToSet(writes) : Sets(w, "current", c)
      /\ \A w \in ToSet(writes) : \A c : /\ Sets(w, "voltage", c) => w[3] = v
                                         /\ Sets(w, "current", c) => w[4] = i
  <2>1. writes = Pairs(model, channels, v, i)
    BY DEF writes
  <2> QED
    BY <2>1, PairsSet
<1>8. Safe(r, b, ToSet(checks), writes \o switches, {})
  BY <1>4, <1>5, <1>7, SwitchedAfterWrites
<1>9. Lit(r, b, {}, {}, checks \o (writes \o switches))
  BY <1>6, <1>8, LitAfterChecks
<1>10. IsTable(writes)
  BY <1>7 DEF Dark
<1>11. checks \o writes \o switches = checks \o (writes \o switches)
  BY <1>3, <1>4, <1>10, TablesReassociate
<1> QED
  BY <1>1, <1>9, <1>11

\* The test of one output.
LEMMA SmokeLit ==
  ASSUME NEW r, NEW b, NEW model, NEW channels, NEW c,
         ToSet(SessionChannels(r, b)) = {c}, NEW v \in Int, NEW i \in Int
  PROVE  Lit(r, b, {}, {}, SmokeSteps(model, channels, c, v, i))
<1> DEFINE check == <<<<"limits", c, v, i>>>>
           asked == Confirmation(channels, c, v, i)
           pair == WritePair(model, c, v, i)
           switches == <<At("on", c), At("off", c)>>
           checks == check \o asked
<1>1. SmokeSteps(model, channels, c, v, i) = checks \o pair \o switches
  BY DEF SmokeSteps
<1>2. IsTable(check) /\ ToSet(check) = {<<"limits", c, v, i>>}
  BY SmallTables
<1>3. /\ IsTable(asked) /\ \A x \in ToSet(asked) : x[1] = "confirm"
      /\ <<"confirm", c, v, i>> \in ToSet(asked)
  BY ConfirmationsAre
<1>4. IsTable(switches) /\ \A x \in ToSet(switches) : x[1] \notin Setting
  BY SmallTables DEF At, Setting
<1>5. /\ Dark(pair)
      /\ \E w \in ToSet(pair) : Sets(w, "voltage", c)
      /\ \E w \in ToSet(pair) : Sets(w, "current", c)
      /\ \A w \in ToSet(pair) : /\ Sets(w, "voltage", c) => w[3] = v
                                /\ Sets(w, "current", c) => w[4] = i
  <2>1. pair = WritePair(model, c, v, i)
    OBVIOUS
  <2> HIDE DEF pair
  <2> QED
    BY <2>1, PairSets
<1> HIDE DEF check, asked, pair, switches
<1>6. IsTable(checks) /\ ToSet(checks) = ToSet(check) \cup ToSet(asked)
  BY <1>2, <1>3, JoinedTables
<1> HIDE DEF checks
<1>7. Dark(checks) /\ \A x \in ToSet(checks) : x[1] \notin Setting
  BY <1>2, <1>3, <1>6 DEF Dark, Setting
<1>8. Covered(r, ToSet(checks), c, v, i)
  BY <1>2, <1>3, <1>6 DEF Covered
<1>9. \A x \in ToSet(switches) : \A e : Lights(r, b, x, e) => e = c
  BY DEF Lights
<1>10. Safe(r, b, ToSet(checks), pair \o switches, {})
  <2>1. ASSUME NEW x \in ToSet(switches), NEW e, Lights(r, b, x, e)
        PROVE  \E v1, i1 :
                 /\ Covered(r, ToSet(checks), e, v1, i1)
                 /\ \E w \in ToSet(pair) : Sets(w, "voltage", e)
                 /\ \E w \in ToSet(pair) : Sets(w, "current", e)
                 /\ \A w \in ToSet(pair) : /\ Sets(w, "voltage", e) => w[3] = v1
                                           /\ Sets(w, "current", e) => w[4] = i1
    <3>1. e = c
      BY <1>9, <2>1
    <3> QED
      BY <1>5, <1>8, <3>1
  <2> QED
    BY <1>4, <1>5, <2>1, SwitchedAfterWrites
<1>11. Lit(r, b, {}, {}, checks \o (pair \o switches))
  BY <1>7, <1>10, LitAfterChecks
<1>12. IsTable(pair)
  BY <1>5 DEF Dark
<1>13. checks \o pair \o switches = checks \o (pair \o switches)
  BY <1>4, <1>6, <1>12, TablesReassociate
<1> QED
  BY <1>1, <1>11, <1>13

\* Channels that are switched on as they are.
LEMMA SwitchingLit ==
  ASSUME NEW r, NEW b, NEW channels, channels = SessionChannels(r, b), IsTable(channels),
         \A c \in DOMAIN b.on : b.voltage[c] \in Int /\ b.current[c] \in Int
  PROVE  /\ Lit(r, b, {}, {}, CheckProgrammed(channels, b) \o SwitchEach("on", channels))
         /\ Lit(r, b, {}, {}, CheckProgrammed(channels, b) \o SwitchEach("on", channels)
                                \o SwitchEach("off", channels))
<1> DEFINE checks == CheckProgrammed(channels, b)
           on == SwitchEach("on", channels)
           off == SwitchEach("off", channels)
           C == ToSet(channels) \cap DOMAIN b.on
<1>1. /\ IsTable(checks) /\ \A x \in ToSet(checks) : x[1] \in {"limits", "confirm"}
      /\ \A c \in ToSet(channels), kind \in {"limits", "confirm"} :
           <<kind, c, b.voltage[c], b.current[c]>> \in ToSet(checks)
  BY ProgrammedChecksAre
<1>2. /\ IsTable(on) /\ \A x \in ToSet(on) : x[1] = "on"
      /\ IsTable(off) /\ \A x \in ToSet(off) : x[1] = "off"
  BY SwitchesAre
<1> HIDE DEF checks, on, off
<1>3. Dark(checks) /\ \A x \in ToSet(checks) : x[1] \notin Setting
  BY <1>1 DEF Dark, Setting
<1>4. \A c \in C : Covered(r, ToSet(checks), c, b.voltage[c], b.current[c])
  BY <1>1 DEF Covered
<1>5. \A x \in ToSet(on) : \A c : Lights(r, b, x, c) => c \in C
  BY DEF Lights
<1>6. Safe(r, b, ToSet(checks), on, C)
  <2> HIDE DEF C
  <2> QED
    BY <1>2, <1>5, SwitchesAreSafe DEF Setting
<1>7. Dark(off)
  BY <1>2 DEF Dark
<1> HIDE DEF C
<1>8. Safe(r, b, ToSet(checks), on \o off, C)
  BY <1>6, <1>7, SafeThenDark
<1>9. Lit(r, b, {}, {}, checks \o on) /\ Lit(r, b, {}, {}, checks \o (on \o off))
  BY <1>3, <1>4, <1>6, <1>8, LitAfterChecks
<1>10. checks \o on \o off = checks \o (on \o off)
  BY <1>1, <1>2, TablesReassociate
<1> QED
  BY <1>9, <1>10 DEF checks, on, off

\* The others switch nothing on.
LEMMA OthersLit ==
  ASSUME NEW r, NEW b, NEW channels, IsTable(channels), NEW model, NEW c, NEW v, NEW i
  PROVE  /\ Lit(r, b, {}, {}, SetSteps(model, c, v, i))
         /\ Lit(r, b, {}, {}, SwitchEach("channel", channels) \o SwitchEach("off", channels))
         /\ Lit(r, b, {}, {}, SwitchEach("off", channels))
         /\ Lit(r, b, {}, {}, SwitchEach("channel", channels))
<1> DEFINE check == <<<<"limits", c, v, i>>>>
           pair == WritePair(model, c, v, i)
           off == SwitchEach("off", channels)
           looked == SwitchEach("channel", channels)
<1>1. IsTable(check) /\ ToSet(check) = {<<"limits", c, v, i>>}
  BY SmallTables
<1>2. Dark(pair)
  <2> DEFINE x == <<"current", c, NoValue, i>>
             y == <<"voltage", c, v, NoValue>>
             a == IF i = NoValue THEN <<>> ELSE <<x>>
             e == IF v = NoValue THEN <<>> ELSE <<y>>
  <2>1. pair \in {<<<<"pair", c, v, i>>>>, a \o e}
    BY DEF WritePair
  <2>2. Dark(<<<<"pair", c, v, i>>>>) /\ Dark(<<x>>) /\ Dark(<<y>>) /\ Dark(<<>>)
    BY SmallTables DEF Dark
  <2>3. Dark(a) /\ Dark(e)
    BY <2>2
  <2> HIDE DEF a, e
  <2>4. Dark(a \o e)
    BY <2>3, DarkJoin
  <2> QED
    BY <2>1, <2>2, <2>4
<1>3. Dark(off) /\ Dark(looked)
  BY SwitchesAre DEF Dark
<1>4. SetSteps(model, c, v, i) = check \o pair
  BY DEF SetSteps
<1> HIDE DEF check, pair, off, looked
<1>5. Dark(check)
  BY <1>1 DEF Dark
<1>6. Dark(check \o pair) /\ Dark(looked \o off)
  BY <1>2, <1>3, <1>5, DarkJoin
<1> QED
  BY <1>3, <1>4, <1>6, DarkIsLit DEF off, looked

\* What a ramp switches on has its current and its first voltage.
LEMMA RampSafe ==
  ASSUME NEW r, NEW b, NEW steps, NEW model, NEW channels, IsTable(channels), channels # << >>,
         model = PSM2010 => \A c \in ToSet(channels) : c = channels[1],
         NEW voltages, IsTable(voltages), voltages # << >>, NEW current,
         NEW switches, IsTable(switches), \A x \in ToSet(switches) : x[1] \notin Setting,
         \A x \in ToSet(switches) : \A c : Lights(r, b, x, c) =>
           c \in ToSet(channels) /\ Covered(r, steps, c, voltages[1], current),
         NEW C
  PROVE  Safe(r, b, steps, RampWrites(model, channels, voltages, current, switches), C)
<1> DEFINE pair == <<<<"pair", channels[1], voltages[1], current>>>>
           currents == [k \in DOMAIN channels |-> <<<<"current", channels[k], NoValue, current>>>>]
           first == IF model = PSM2010 THEN pair ELSE FlattenSeq(currents)
           one(v, c) == IF model = PSM2010 /\ v = voltages[1] THEN <<>> ELSE <<<<"voltage", c, v, NoValue>>>>
           of(v) == [k \in DOMAIN channels |-> one(v, channels[k])]
           second == FlattenSeq(of(voltages[1]))
           rest == [m \in DOMAIN Tail(voltages) |-> FlattenSeq(of(Tail(voltages)[m]))]
           last == FlattenSeq(rest)
<1>1. RampWrites(model, channels, voltages, current, switches) = first \o second \o switches \o last
  BY DEF RampWrites, Each
<1>2. ASSUME NEW v
      PROVE  /\ Dark(FlattenSeq(of(v)))
             /\ ToSet(FlattenSeq(of(v))) = UNION {ToSet(one(v, channels[k])) : k \in DOMAIN channels}
             /\ \A w \in ToSet(FlattenSeq(of(v))) : w[1] = "voltage" /\ w[3] = v
  <2> DEFINE ss == of(v)
  <2>1. /\ ss = [k \in DOMAIN channels |-> ss[k]]
        /\ \A k \in DOMAIN channels : ss[k] = one(v, channels[k])
    OBVIOUS
  <2>2. ASSUME NEW c PROVE IsTable(one(v, c)) /\ \A w \in ToSet(one(v, c)) : w[1] = "voltage" /\ w[3] = v
    BY SmallTables
  <2> HIDE DEF ss, one
  <2>3. IsTable(FlattenSeq(ss)) /\ ToSet(FlattenSeq(ss)) = UNION {ToSet(ss[k]) : k \in DOMAIN channels}
    BY <2>1, <2>2, EachTable
  <2>4. \A w \in ToSet(FlattenSeq(ss)) : w[1] = "voltage" /\ w[3] = v
    BY <2>1, <2>2, <2>3
  <2>5. Dark(FlattenSeq(ss))
    BY <2>3, <2>4 DEF Dark
  <2>6. ToSet(FlattenSeq(ss)) = UNION {ToSet(one(v, channels[k])) : k \in DOMAIN channels}
    BY <2>1, <2>3
  <2> QED
    BY <2>4, <2>5, <2>6 DEF ss
<1>3. IsTable(FlattenSeq(currents))
      /\ ToSet(FlattenSeq(currents)) = {<<"current", channels[k], NoValue, current>> : k \in DOMAIN channels}
  <2>1. /\ currents = [k \in DOMAIN channels |-> currents[k]]
        /\ \A k \in DOMAIN channels : IsTable(currents[k])
                                      /\ ToSet(currents[k]) = {<<"current", channels[k], NoValue, current>>}
    BY SmallTables
  <2> HIDE DEF currents
  <2>2. IsTable(FlattenSeq(currents))
        /\ ToSet(FlattenSeq(currents)) = UNION {ToSet(currents[k]) : k \in DOMAIN channels}
    BY <2>1, EachTable
  <2> QED
    BY <2>1, <2>2
<1>4. IsTable(pair) /\ ToSet(pair) = {<<"pair", channels[1], voltages[1], current>>}
  BY SmallTables
<1>5. Dark(last)
  <2>1. IsTable(Tail(voltages))
    BY FirstAndRest
  <2>2. /\ rest = [m \in DOMAIN Tail(voltages) |-> rest[m]]
        /\ \A m \in DOMAIN Tail(voltages) : Dark(rest[m])
    <3> HIDE DEF of
    <3> QED
      BY <1>2
  <2> HIDE DEF rest
  <2>3. IsTable(FlattenSeq(rest))
        /\ ToSet(FlattenSeq(rest)) = UNION {ToSet(rest[m]) : m \in DOMAIN Tail(voltages)}
    BY <2>1, <2>2, EachTable DEF Dark
  <2> QED
    BY <2>2, <2>3 DEF Dark
<1>6. /\ Dark(second)
      /\ ToSet(second) = UNION {ToSet(one(voltages[1], channels[k])) : k \in DOMAIN channels}
      /\ \A w \in ToSet(second) : w[1] = "voltage" /\ w[3] = voltages[1]
  <2> HIDE DEF of, one
  <2> QED
    BY <1>2
<1>7. /\ Dark(first)
      /\ \A w \in ToSet(first) : w[1] \in {"pair", "current"} /\ w[4] = current
                                 /\ (w[1] = "pair" => w[3] = voltages[1])
  <2>1. CASE model = PSM2010
    <3>1. first = pair
      BY <2>1
    <3> HIDE DEF first, pair
    <3> QED
      BY <1>4, <3>1 DEF Dark
  <2>2. CASE model # PSM2010
    <3>1. first = FlattenSeq(currents)
      BY <2>2
    <3> HIDE DEF first, currents
    <3> QED
      BY <1>3, <3>1 DEF Dark
  <2> QED
    BY <2>1, <2>2
<1> DEFINE writes == first \o second
<1>8. ASSUME NEW c \in ToSet(channels)
      PROVE  /\ \E w \in ToSet(first) \cup ToSet(second) : Sets(w, "voltage", c)
             /\ \E w \in ToSet(first) \cup ToSet(second) : Sets(w, "current", c)
  <2>1. PICK k \in DOMAIN channels : channels[k] = c
    BY DEF ToSet
  <2>2. CASE model = PSM2010
    <3> DEFINE w == <<"pair", channels[1], voltages[1], current>>
    <3>1. w \in ToSet(first)
      BY <1>4, <2>2
    <3>2. Sets(w, "voltage", c) /\ Sets(w, "current", c)
      BY <2>2 DEF Sets
    <3> HIDE DEF w
    <3> QED
      BY <3>1, <3>2
  <2>3. CASE model # PSM2010
    <3> DEFINE w == <<"current", channels[k], NoValue, current>>
               x == <<"voltage", channels[k], voltages[1], NoValue>>
    <3>1. w \in ToSet(first)
      <4>1. first = FlattenSeq(currents)
        BY <2>3
      <4> HIDE DEF first, currents
      <4> QED
        BY <1>3, <4>1
    <3>2. x \in ToSet(second)
      <4>1. one(voltages[1], channels[k]) = <<x>>
        BY <2>3
      <4>2. ToSet(<<x>>) = {x}
        BY SmallTables
      <4> HIDE DEF one, second, x
      <4> QED
        BY <1>6, <4>1, <4>2
    <3>3. Sets(x, "voltage", c) /\ Sets(w, "current", c)
      BY <2>1 DEF Sets
    <3> HIDE DEF w, x
    <3> QED
      BY <3>1, <3>2, <3>3
  <2> QED
    BY <2>2, <2>3
<1> HIDE DEF first, second, last
<1>9. Dark(writes) /\ ToSet(writes) = ToSet(first) \cup ToSet(second)
  BY <1>6, <1>7, JoinedTables, DarkJoin DEF Dark
<1> HIDE DEF writes
<1>10. \A w \in ToSet(writes) : \A c : /\ Sets(w, "voltage", c) => w[3] = voltages[1]
                                       /\ Sets(w, "current", c) => w[4] = current
  BY <1>6, <1>7, <1>9 DEF Sets
<1>11. Safe(r, b, steps, writes \o switches, C)
  BY <1>8, <1>9, <1>10, SwitchedAfterWrites
<1>12. Safe(r, b, steps, writes \o switches \o last, C)
  BY <1>5, <1>11, SafeThenDark
<1> QED
  BY <1>1, <1>12 DEF writes

\* A ramp.
LEMMA RampLit ==
  ASSUME NEW r, r.command = "ramp", NEW b, NEW model, NEW channels, channels = SessionChannels(r, b),
         IsTable(channels), channels # << >>,
         model = PSM2010 => \A c \in ToSet(channels) : c = channels[1],
         NEW p, RampTyped(p)
  PROVE  Lit(r, b, {}, {}, RampSteps(model, channels, p))
<1> DEFINE voltages == RampVoltages(p)
           current == p["current"][2]
           enable == Flagged(p, "enable_output")
           switches == IF enable THEN RampSwitches(model, channels) ELSE <<>>
           checks == RampChecks(channels, voltages, current, enable)
           writes == RampWrites(model, channels, voltages, current, switches)
<1>1. RampSteps(model, channels, p) = checks \o writes
  BY DEF RampSteps
<1>2. current \in Int /\ enable \in BOOLEAN
  BY DEF RampTyped, Flagged
<1>3. IsTable(voltages) /\ voltages # << >> /\ ToSet(voltages) \subseteq Int
  BY VoltagesAre DEF RampTyped, RampVoltages
<1>4. /\ IsTable(switches) /\ \A x \in ToSet(switches) : x[1] \notin Setting
      /\ \A x \in ToSet(switches) : enable
  <2>1. IsTable(<<channels[1]>>)
    BY SmallTables
  <2> QED
    BY <2>1, SwitchesAre, SmallTables DEF RampSwitches, Setting
<1> HIDE DEF voltages, current, enable, switches
<1>5. /\ IsTable(checks)
      /\ \A x \in ToSet(checks) : x[1] \in {"limits", "confirm"}
      /\ \A c \in ToSet(channels), v \in ToSet(voltages) :
           /\ <<"limits", c, v, current>> \in ToSet(checks)
           /\ enable => <<"confirm", c, v, current>> \in ToSet(checks)
  BY <1>2, <1>3, RampChecksAre
<1> HIDE DEF checks
<1>6. voltages[1] \in ToSet(voltages) /\ voltages[1] \in Int
  BY <1>3, FirstAndRest
<1>7. ASSUME NEW x \in ToSet(switches), NEW c, Lights(r, b, x, c)
      PROVE  c \in ToSet(channels) /\ Covered(r, ToSet(checks), c, voltages[1], current)
  <2>1. c \in ToSet(channels) /\ enable
    BY <1>4, <1>7 DEF Lights
  <2> QED
    BY <1>2, <1>5, <1>6, <2>1 DEF Covered
<1>8. Safe(r, b, ToSet(checks), writes, {})
  BY <1>3, <1>4, <1>7, RampSafe
<1>9. Dark(checks) /\ \A x \in ToSet(checks) : x[1] \notin Setting
  BY <1>5 DEF Dark, Setting
<1> HIDE DEF writes
<1> QED
  BY <1>1, <1>8, <1>9, LitAfterChecks

\* One script after the other, and many.
LEMMA SafeNext ==
  ASSUME NEW r, NEW b, NEW steps, NEW s, Safe(r, b, steps, s, {}), NEW t, Safe(r, b, steps, t, {})
  PROVE  Safe(r, b, steps, s \o t, {})
<1>1. IsTable(t)
  BY DEF Safe
<1>2. ASSUME NEW n \in 1..Len(t), NEW c, Lights(r, b, t[n], c) PROVE Firm(r, steps, t, n - 1, c)
  BY <1>2 DEF Safe
<1> QED
  BY <1>1, <1>2, SafeJoin

\* Safe scripts, one after the other, are safe.
LEMMA FlattenSafe ==
  ASSUME NEW r, NEW b, NEW steps, NEW n \in Nat, NEW ss, Len(ss) = n, ss = [k \in 1..n |-> ss[k]],
         \A k \in 1..n : Safe(r, b, steps, ss[k], {})
  PROVE  Safe(r, b, steps, FlattenSeq(ss), {})
<1> DEFINE T == UNION {ToSet(ss[k]) : k \in 1..n}
           P == {s \in Seq(T) : Safe(r, b, steps, s, {})}
<1>1. << >> \in P
  <2>1. Dark(<< >>)
    BY SmallTables DEF Dark
  <2> HIDE DEF T
  <2> QED
    BY <2>1, DarkIsSafe
<1>2. ASSUME NEW s \in P, NEW t \in P PROVE s \o t \in P
  <2>1. Safe(r, b, steps, s \o t, {})
    BY SafeNext
  <2>2. s \o t \in Seq(T)
    <3> HIDE DEF T
    <3> QED
      OBVIOUS
  <2> QED
    BY <2>1, <2>2
<1>3. ASSUME NEW k \in 1..n PROVE ss[k] \in P
  <2>1. ToSet(ss[k]) \subseteq T
    OBVIOUS
  <2>2. ss[k] \in Seq(ToSet(ss[k]))
    BY DEF Safe, IsTable
  <2> HIDE DEF T
  <2>3. ss[k] \in Seq(T)
    BY <2>1, <2>2, WiderElements
  <2> QED
    BY <2>3
<1>4. FlattenSeq(ss) \in P
  <2> HIDE DEF P
  <2> QED
    BY <1>1, <1>2, <1>3, FlattenClosed
<1> QED
  BY <1>4

\* Before its one switch every channel of a list has its first setpoints.
LEMMA PrestageSafe ==
  ASSUME NEW r, NEW b, NEW steps, NEW segments, IsTable(segments),
         \A s \in ToSet(segments) : SegmentTyped(s),
         NEW channels, channels = SessionChannels(r, b), IsTable(channels),
         ToSet(channels) = UNION {ToSet(SegmentChannels(s)) : s \in ToSet(segments)},
         \A s \in ToSet(segments) :
           \A c \in ToSet(SegmentChannels(s)), v \in ToSet(SegmentVoltages(s)) : Covered(r, steps, c, v, s.current)
  PROVE  Safe(r, b, steps, Prestage(segments, channels), {})
<1> DEFINE having(c) == {k \in DOMAIN segments : c \in ToSet(SegmentChannels(segments[k]))}
           first == [c \in ToSet(channels) |-> segments[Min(having(c))]]
           v(c) == SegmentVoltages(first[c])[1]
           one(c) == <<<<"current", c, NoValue, first[c].current>>, <<"voltage", c, v(c), NoValue>>>>
           ss == [k \in DOMAIN channels |-> one(channels[k])]
           last == <<At("on", channels[1])>>
<1>1. Prestage(segments, channels) = FlattenSeq(ss) \o last
  BY DEF Prestage, Each
<1>2. ASSUME NEW c \in ToSet(channels)
      PROVE  first[c] \in ToSet(segments) /\ c \in ToSet(SegmentChannels(first[c]))
  <2>1. DOMAIN segments = 1..Len(segments) /\ Len(segments) \in Nat
    BY LenProperties DEF IsTable
  <2>2. PICK s \in ToSet(segments) : c \in ToSet(SegmentChannels(s))
    OBVIOUS
  <2>3. PICK k \in DOMAIN segments : segments[k] = s
    BY DEF ToSet
  <2>4. k \in having(c) /\ having(c) \subseteq Nat
    BY <2>1, <2>2, <2>3
  <2>5. Min(having(c)) \in having(c)
    <3> HIDE DEF having
    <3> QED
      BY <2>4, LeastExists DEF Min
  <2>6. first[c] = segments[Min(having(c))]
    OBVIOUS
  <2> HIDE DEF first
  <2> QED
    BY <2>5, <2>6 DEF ToSet
<1> HIDE DEF first
<1>3. ASSUME NEW c \in ToSet(channels) PROVE Covered(r, steps, c, v(c), first[c].current)
  <2>1. v(c) \in ToSet(SegmentVoltages(first[c]))
    BY <1>2, SegmentVoltagesAre, FirstAndRest
  <2> HIDE DEF v
  <2> QED
    BY <1>2, <2>1
<1> HIDE DEF v
<1>4. ASSUME NEW c
      PROVE  /\ Dark(one(c))
             /\ \E w \in ToSet(one(c)) : Sets(w, "voltage", c)
             /\ \E w \in ToSet(one(c)) : Sets(w, "current", c)
             /\ \A w \in ToSet(one(c)) : \A e : /\ Sets(w, "voltage", e) => e = c /\ w[3] = v(c)
                                                /\ Sets(w, "current", e) => e = c /\ w[4] = first[c].current
  <2> DEFINE x == <<"current", c, NoValue, first[c].current>>
             y == <<"voltage", c, v(c), NoValue>>
  <2>1. /\ Sets(y, "voltage", c) /\ Sets(x, "current", c) /\ x[1] # "on" /\ y[1] # "on"
        /\ \A e : ~Sets(x, "voltage", e) /\ ~Sets(y, "current", e)
        /\ \A e : Sets(y, "voltage", e) => e = c
        /\ \A e : Sets(x, "current", e) => e = c
        /\ y[3] = v(c) /\ x[4] = first[c].current
    BY DEF Sets
  <2>2. one(c) = <<x, y>>
    OBVIOUS
  <2> HIDE DEF x, y, one
  <2>3. IsTable(one(c)) /\ ToSet(one(c)) = {x, y}
    BY <2>2, SmallTables
  <2> QED
    BY <2>1, <2>3 DEF Dark
<1>5. ss = [k \in DOMAIN channels |-> ss[k]] /\ \A k \in DOMAIN channels : ss[k] = one(channels[k])
  OBVIOUS
<1> HIDE DEF ss, one
<1>6. IsTable(FlattenSeq(ss)) /\ ToSet(FlattenSeq(ss)) = UNION {ToSet(ss[k]) : k \in DOMAIN channels}
  <2>1. \A k \in DOMAIN channels : IsTable(ss[k])
    BY <1>4, <1>5 DEF Dark
  <2> QED
    BY <1>5, <2>1, EachTable
<1>7. ASSUME NEW w \in ToSet(FlattenSeq(ss)) PROVE \E c : w \in ToSet(one(c))
  BY <1>5, <1>6
<1>8. Dark(FlattenSeq(ss))
  BY <1>4, <1>6, <1>7 DEF Dark
<1>9. ASSUME NEW c \in ToSet(channels) PROVE ToSet(one(c)) \subseteq ToSet(FlattenSeq(ss))
  <2>1. PICK k \in DOMAIN channels : channels[k] = c
    BY DEF ToSet
  <2> QED
    BY <1>5, <1>6, <2>1
<1>10. IsTable(last) /\ \A x \in ToSet(last) : x[1] \notin Setting
  BY SmallTables DEF At, Setting
<1> DEFINE writes == FlattenSeq(ss)
<1> HIDE DEF last
<1>11. ASSUME NEW x \in ToSet(last), NEW c, Lights(r, b, x, c)
       PROVE  \E u, i :
                /\ Covered(r, steps, c, u, i)
                /\ \E w \in ToSet(writes) : Sets(w, "voltage", c)
                /\ \E w \in ToSet(writes) : Sets(w, "current", c)
                /\ \A w \in ToSet(writes) : /\ Sets(w, "voltage", c) => w[3] = u
                                            /\ Sets(w, "current", c) => w[4] = i
  <2>1. c \in ToSet(channels)
    BY <1>11 DEF Lights
  <2>2. \E w \in ToSet(writes) : Sets(w, "voltage", c)
    BY <1>4, <1>9, <2>1
  <2>3. \E w \in ToSet(writes) : Sets(w, "current", c)
    BY <1>4, <1>9, <2>1
  <2>4. \A w \in ToSet(writes) : /\ Sets(w, "voltage", c) => w[3] = v(c)
                                 /\ Sets(w, "current", c) => w[4] = first[c].current
    BY <1>4, <1>7
  <2>5. Covered(r, steps, c, v(c), first[c].current)
    BY <1>3, <2>1
  <2> QED
    BY <2>2, <2>3, <2>4, <2>5
<1>12. Dark(writes)
  BY <1>8
<1> HIDE DEF writes
<1>13. Safe(r, b, steps, writes \o last, {})
  BY <1>10, <1>11, <1>12, SwitchedAfterWrites
<1> QED
  BY <1>1, <1>13 DEF writes

\* A ramp list.
LEMMA RampListLit ==
  ASSUME NEW r, r.command = "ramp-list", NEW b, NEW model, b.model = model, NEW d, NEW p, IsTable(d.segments),
         \A s \in ToSet(d.segments) : SegmentTyped(s), Loops(d, p) \in Nat,
         NEW channels, channels = SessionChannels(r, b), IsTable(channels),
         ToSet(channels) = UNION {ToSet(SegmentChannels(s)) : s \in ToSet(d.segments)},
         model = PSM2010 => \A c \in ToSet(channels) : c = 1
  PROVE  Lit(r, b, {}, {}, RampListSteps(model, channels, d, p))
<1> DEFINE segments == d.segments
           enables == EnablesOutput(d)
           named(k) == ToSet(SegmentChannels(segments[k]))
           ordered(k) == Ascending(named(k))
           staged == enables /\ model = E3646A
           fresh(k) == Ascending(named(k) \ UNION {named(j) : j \in 1..k - 1})
           switches(k, loop) == IF enables /\ ~staged /\ loop = 1 THEN SwitchEach("on", fresh(k)) ELSE <<>>
           one(k, loop) == RampWrites(model, ordered(k), SegmentVoltages(segments[k]),
                                      segments[k].current, switches(k, loop))
           inner == [loop \in 1..Loops(d, p) |-> [k \in DOMAIN segments |-> one(k, loop)]]
           ss == [loop \in 1..Loops(d, p) |-> FlattenSeq(inner[loop])]
           checks == ListChecks(segments, enables)
           first == IF staged THEN Prestage(segments, channels) ELSE <<>>
<1>0. enables \in BOOLEAN
  BY DEF EnablesOutput
<1>1. RampListSteps(model, channels, d, p) = checks \o first \o FlattenSeq(ss)
  BY DEF RampListSteps, ListChecks
<1>2. /\ IsTable(checks)
      /\ \A x \in ToSet(checks) : x[1] \in {"limits", "confirm"}
      /\ \A s \in ToSet(segments) :
           \A c \in ToSet(SegmentChannels(s)), v \in ToSet(SegmentVoltages(s)) :
             /\ <<"limits", c, v, s.current>> \in ToSet(checks)
             /\ enables => <<"confirm", c, v, s.current>> \in ToSet(checks)
  BY <1>0, ListChecksAre
<1>3. Dark(checks) /\ \A x \in ToSet(checks) : x[1] \notin Setting
  BY <1>2 DEF Dark, Setting
<1>4. ASSUME enables, NEW s \in ToSet(segments), NEW c \in ToSet(SegmentChannels(s)), NEW v \in ToSet(SegmentVoltages(s))
      PROVE  Covered(r, ToSet(checks), c, v, s.current)
  <2>1. v \in Int /\ s.current \in Int
    BY SegmentVoltagesAre DEF SegmentTyped
  <2> HIDE DEF checks
  <2> QED
    BY <1>2, <1>4, <2>1 DEF Covered
<1> HIDE DEF checks
<1>5. Safe(r, b, ToSet(checks), first, {})
  <2>1. CASE staged
    <3>1. Safe(r, b, ToSet(checks), Prestage(segments, channels), {})
      BY <1>4, <2>1, PrestageSafe
    <3> QED
      BY <2>1, <3>1
  <2>2. CASE ~staged
    <3>1. Dark(<< >>)
      BY SmallTables DEF Dark
    <3> QED
      BY <2>2, <3>1, DarkIsSafe
  <2> QED
    BY <2>1, <2>2
<1>6. ASSUME NEW k \in DOMAIN segments, NEW loop
      PROVE  Safe(r, b, ToSet(checks), one(k, loop), {})
  <2> DEFINE s == segments[k]
             on == switches(k, loop)
             voltages == SegmentVoltages(s)
  <2>1. s \in ToSet(segments)
    BY DEF ToSet
  <2>2. /\ IsTable(ordered(k)) /\ ordered(k) # << >> /\ ToSet(ordered(k)) = ToSet(SegmentChannels(s))
    BY <2>1, SegmentOrdered
  <2>3. IsTable(voltages) /\ voltages # << >> /\ voltages[1] \in ToSet(voltages)
    BY <2>1, SegmentVoltagesAre, FirstAndRest
  <2>4. IsTable(fresh(k)) /\ ToSet(fresh(k)) \subseteq named(k)
    <3> DEFINE rest == named(k) \ UNION {named(j) : j \in 1..k - 1}
    <3>1. IsFiniteSet(named(k)) /\ named(k) \subseteq Int
      BY <2>1, ElementsFinite DEF SegmentTyped
    <3>2. rest \subseteq named(k)
      OBVIOUS
    <3> HIDE DEF rest
    <3>3. IsFiniteSet(rest) /\ rest \subseteq Int
      BY <3>1, <3>2, FS_Subset
    <3>4. IsTable(Ascending(rest)) /\ ToSet(Ascending(rest)) = rest
      BY <3>3, AscendingHasAll
    <3> QED
      BY <3>2, <3>4 DEF rest
  <2>5. /\ IsTable(on)
        /\ \A x \in ToSet(on) : x[1] = "on" /\ x[2] \in named(k) /\ enables /\ model # E3646A
    <3> HIDE DEF fresh, named
    <3>1. CASE enables /\ ~staged /\ loop = 1
      <4>1. on = SwitchEach("on", fresh(k))
        BY <3>1
      <4> HIDE DEF on
      <4> QED
        BY <2>4, <3>1, <4>1, SwitchesAre
    <3>2. CASE ~(enables /\ ~staged /\ loop = 1)
      <4>1. on = << >>
        BY <3>2
      <4> HIDE DEF on
      <4> QED
        BY <4>1, SmallTables
    <3> QED
      BY <3>1, <3>2
  <2> HIDE DEF on
  <2>6. model = PSM2010 => \A c \in ToSet(ordered(k)) : c = ordered(k)[1]
    <3> HIDE DEF ordered
    <3>1. ToSet(ordered(k)) \subseteq ToSet(channels) /\ ordered(k)[1] \in ToSet(ordered(k))
      BY <2>1, <2>2, FirstAndRest
    <3> QED
      BY <3>1
  <2>7. ASSUME NEW x \in ToSet(on), NEW c, Lights(r, b, x, c)
        PROVE  c \in ToSet(ordered(k)) /\ Covered(r, ToSet(checks), c, voltages[1], s.current)
    <3>1. c = x[2]
      BY <2>5, <2>7 DEF Lights, Switched
    <3>2. c \in ToSet(SegmentChannels(s)) /\ enables
      BY <2>5, <2>7, <3>1
    <3> HIDE DEF ordered, voltages, s, enables
    <3> QED
      BY <1>4, <2>1, <2>2, <2>3, <3>2 DEF voltages
  <2>8. \A x \in ToSet(on) : x[1] \notin Setting
    BY <2>5 DEF Setting
  <2>9. one(k, loop) = RampWrites(model, ordered(k), voltages, s.current, on)
    BY DEF on
  <2> HIDE DEF ordered, voltages, s, one
  <2> QED
    BY <2>2, <2>3, <2>5, <2>6, <2>7, <2>8, <2>9, RampSafe
<1> HIDE DEF one
<1>7. ASSUME NEW loop \in 1..Loops(d, p) PROVE Safe(r, b, ToSet(checks), ss[loop], {})
  <2> DEFINE tt == [k \in DOMAIN segments |-> one(k, loop)]
             n == Len(segments)
  <2>1. DOMAIN segments = 1..n /\ n \in Nat
    BY LenProperties DEF IsTable
  <2>2. ss[loop] = FlattenSeq(tt)
    OBVIOUS
  <2>3. /\ tt = [k \in 1..n |-> tt[k]] /\ Len(tt) = n
        /\ \A k \in 1..n : Safe(r, b, ToSet(checks), tt[k], {})
    BY <1>6, <2>1
  <2> HIDE DEF tt, ss, n
  <2>4. Safe(r, b, ToSet(checks), FlattenSeq(tt), {})
    BY <2>1, <2>3, FlattenSafe
  <2> QED
    BY <2>2, <2>4
<1>8. ss = [loop \in 1..Loops(d, p) |-> ss[loop]] /\ Len(ss) = Loops(d, p)
  OBVIOUS
<1> HIDE DEF ss
<1>9. Safe(r, b, ToSet(checks), FlattenSeq(ss), {})
  BY <1>7, <1>8, FlattenSafe
<1> HIDE DEF first
<1>10. Safe(r, b, ToSet(checks), first \o FlattenSeq(ss), {})
  BY <1>5, <1>9, SafeNext
<1>11. Lit(r, b, {}, {}, checks \o (first \o FlattenSeq(ss)))
  BY <1>3, <1>10, LitAfterChecks
<1>12. checks \o first \o FlattenSeq(ss) = checks \o (first \o FlattenSeq(ss))
  <2>1. IsTable(first) /\ IsTable(FlattenSeq(ss))
    BY <1>5, <1>9 DEF Safe
  <2> QED
    BY <1>2, <2>1, TablesReassociate
<1> QED
  BY <1>1, <1>11, <1>12

\* A restore switches a channel on after it has written what is recorded of it.
LEMMA RestoreLit ==
  ASSUME NEW r, r.command = "restore-from-snapshot", NEW b, b.model # E3646A,
         NEW d, d = r.parameters["document"][2],
         NEW channels, channels = RestoreChannels(d, r.parameters["channel"]), IsTable(channels)
  PROVE  Lit(r, b, {}, {}, RestoreSteps(d, channels, r.parameters))
<1> DEFINE p == r.parameters
           record(c) == RecordOf(d.readback, c)
           base(c) == <<At("off", c), <<"current", c, NoValue, record(c).current>>,
                        <<"voltage", c, record(c).voltage, NoValue>>>>
           last(c) == IF Flagged(p, "restore_output_state") /\ RecordOf(d.outputs, c).enabled
                      THEN <<At("on", c)>> ELSE <<>>
           one(c) == base(c) \o last(c)
           ss == [k \in DOMAIN channels |-> one(channels[k])]
           fit == <<At("fit", channels[1])>>
           n == Len(channels)
<1>1. RestoreSteps(d, channels, p) = fit \o FlattenSeq(ss)
  BY DEF RestoreSteps, Each
<1>2. IsTable(fit) /\ ToSet(fit) = {At("fit", channels[1])}
  BY SmallTables
<1>3. DOMAIN channels = 1..n /\ n \in Nat
  BY LenProperties DEF IsTable
<1>4. Len(ss) = n /\ ss = [k \in 1..n |-> ss[k]] /\ \A k \in 1..n : ss[k] = one(channels[k])
  <2> HIDE DEF one
  <2> QED
    BY <1>3
<1> HIDE DEF fit, ss, n
<1>5. /\ Dark(fit) /\ \A x \in ToSet(fit) : x[1] \notin Setting
      /\ \E x \in ToSet(fit) : x[1] = "fit"
  BY <1>2 DEF Dark, At, Setting
<1>6. ASSUME NEW c \in ToSet(channels) PROVE Safe(r, b, ToSet(fit), one(c), {})
  <2> DEFINE off == At("off", c)
             current == <<"current", c, NoValue, record(c).current>>
             voltage == <<"voltage", c, record(c).voltage, NoValue>>
             writes == base(c)
             switches == last(c)
  <2>1. /\ Sets(voltage, "voltage", c) /\ Sets(current, "current", c)
        /\ off[1] # "on" /\ current[1] # "on" /\ voltage[1] # "on"
        /\ voltage[3] = record(c).voltage /\ current[4] = record(c).current
        /\ \A e : /\ ~Sets(off, "voltage", e) /\ ~Sets(off, "current", e)
                  /\ ~Sets(voltage, "current", e) /\ ~Sets(current, "voltage", e)
    BY DEF Sets, At
  <2>2. writes = <<off, current, voltage>>
    OBVIOUS
  <2> HIDE DEF off, current, voltage, writes
  <2>3. IsTable(writes) /\ ToSet(writes) = {off, current, voltage}
    BY <2>2, SmallTables
  <2>4. /\ Dark(writes)
        /\ \E w \in ToSet(writes) : Sets(w, "voltage", c)
        /\ \E w \in ToSet(writes) : Sets(w, "current", c)
        /\ \A w \in ToSet(writes) : /\ Sets(w, "voltage", c) => w[3] = record(c).voltage
                                    /\ Sets(w, "current", c) => w[4] = record(c).current
    BY <2>1, <2>3 DEF Dark
  <2>5. Covered(r, ToSet(fit), c, record(c).voltage, record(c).current)
    BY <1>5 DEF Covered, Remembered
  <2>6. IsTable(switches) /\ \A x \in ToSet(switches) : x[1] = "on" /\ x[2] = c
    BY SmallTables DEF At
  <2> HIDE DEF switches
  <2>7. ASSUME NEW x \in ToSet(switches), NEW e, Lights(r, b, x, e) PROVE e = c
    BY <2>6, <2>7 DEF Lights, Switched
  <2> HIDE DEF record
  <2>8. ASSUME NEW x \in ToSet(switches), NEW e, Lights(r, b, x, e)
        PROVE  \E v, i :
                 /\ Covered(r, ToSet(fit), e, v, i)
                 /\ \E w \in ToSet(writes) : Sets(w, "voltage", e)
                 /\ \E w \in ToSet(writes) : Sets(w, "current", e)
                 /\ \A w \in ToSet(writes) : /\ Sets(w, "voltage", e) => w[3] = v
                                             /\ Sets(w, "current", e) => w[4] = i
    BY <2>4, <2>5, <2>7, <2>8
  <2>9. Safe(r, b, ToSet(fit), writes \o switches, {})
    BY <2>4, <2>6, <2>8, SwitchedAfterWrites DEF Setting
  <2> QED
    BY <2>9 DEF writes, switches
<1> HIDE DEF one
<1>7. ASSUME NEW k \in 1..n PROVE Safe(r, b, ToSet(fit), ss[k], {})
  <2>1. channels[k] \in ToSet(channels)
    BY <1>3 DEF ToSet
  <2> QED
    BY <1>4, <1>6, <2>1
<1>8. Safe(r, b, ToSet(fit), FlattenSeq(ss), {})
  BY <1>3, <1>4, <1>7, FlattenSafe
<1> QED
  BY <1>1, <1>5, <1>8, LitAfterChecks

-----------------------------------------------------------------------------
(* Sequences *)

\* What a step of a sequence lights has just got its checked pair, or is a
\* channel the step enables as it is; at its end it has set the channels it
\* programs, and no other.
LEMMA StepLights ==
  ASSUME NEW r, r.command = "sequence", NEW b, NEW checks, NEW step, StepTyped(step), NEW model,
         NEW supported, supported \subseteq Int, IsFiniteSet(supported), supported # {},
         Programs(step) => ToSet(ChannelsOfStep(step, supported)) \subseteq supported,
         Programs(step) => \A c \in ToSet(ChannelsOfStep(step, supported)) :
           <<"limits", c, StepParameters(step)["voltage"][2], StepParameters(step)["current"][2]>> \in checks
  PROVE  LET t == SequenceStep(model, step, supported)
             channels == ToSet(ChannelsOfStep(step, supported))
         IN /\ IsTable(t)
            /\ \A n \in 1..Len(t) : \A c : Lights(r, b, t[n], c) =>
                 \/ Firm(r, checks, t, n - 1, c)
                 \/ Clean(t, n - 1, c) /\ c \in channels /\ Enables(step) /\ ~Programs(step)
            /\ \A c : IF Programs(step) /\ c \in channels THEN Firm(r, checks, t, Len(t), c)
                      ELSE Clean(t, Len(t), c)
<1> DEFINE p == StepParameters(step)
           channels == ChannelsOfStep(step, supported)
           v == p["voltage"][2]
           i == p["current"][2]
           t == SequenceStep(model, step, supported)
<1>1. ASSUME NEW s, IsTable(s), \A x \in ToSet(s) : x[1] \notin Setting, ~Programs(step),
             \A x \in ToSet(s) : x[1] = "on" => x[2] \in ToSet(channels) /\ Enables(step)
      PROVE  /\ \A n \in 1..Len(s) : \A c : Lights(r, b, s[n], c) =>
                  Clean(s, n - 1, c) /\ c \in ToSet(channels) /\ Enables(step)
             /\ \A c : Clean(s, Len(s), c)
  <2>1. DOMAIN s = 1..Len(s) /\ Len(s) \in Nat /\ Len(s) \in 0..Len(s)
    BY <1>1, LenProperties DEF IsTable
  <2>2. ASSUME NEW n \in 1..Len(s), NEW c, Lights(r, b, s[n], c)
        PROVE  Clean(s, n - 1, c) /\ c \in ToSet(channels) /\ Enables(step)
    <3>1. n - 1 \in 0..Len(s) /\ s[n] \in ToSet(s)
      BY <2>1 DEF ToSet
    <3>2. Clean(s, n - 1, c)
      BY <1>1, <3>1, SetsNothing
    <3>3. s[n][1] = "on" /\ c = s[n][2]
      BY <2>2 DEF Lights
    <3> QED
      BY <1>1, <3>1, <3>2, <3>3
  <2>3. \A c : Clean(s, Len(s), c)
    BY <1>1, <2>1, SetsNothing
  <2> QED
    BY <2>2, <2>3
<1>2. CASE step.action \in HostOnly
  <2>1. t = << >> /\ ~Programs(step)
    BY <1>2 DEF SequenceStep, Programs, HostOnly
  <2>2. IsTable(t) /\ ToSet(t) = {}
    BY <2>1, SmallTables
  <2> HIDE DEF t, channels
  <2> QED
    BY <1>1, <2>1, <2>2 DEF t, channels
<1>3. CASE step.action \notin HostOnly /\ ~(ToSet(channels) \subseteq supported)
  <2>1. t = <<At("reject", channels[1])>> /\ ~Programs(step)
    BY <1>3 DEF SequenceStep
  <2>2. IsTable(t) /\ ToSet(t) = {At("reject", channels[1])}
    BY <2>1, SmallTables
  <2>3. \A x \in ToSet(t) : x[1] \notin Setting /\ x[1] # "on"
    BY <2>2 DEF At, Setting
  <2> HIDE DEF t, channels
  <2> QED
    BY <1>1, <2>1, <2>2, <2>3 DEF t, channels
<1>4. CASE step.action \notin HostOnly /\ ToSet(channels) \subseteq supported
  <2>1. IsTable(channels)
    BY <1>4, ChannelsTable DEF StepTyped, ChannelsOfStep
  <2>2. CASE ~Programs(step)
    <3> DEFINE all == SwitchEach("on", channels)
               none == SwitchEach("off", channels)
    <3>1. \/ t \in {all \o none, all} /\ Enables(step)
          \/ t \in {none, << >>}
      BY <1>4, <2>2 DEF SequenceStep, Enables
    <3>2. /\ IsTable(all) /\ \A x \in ToSet(all) : x[1] = "on" /\ x[2] \in ToSet(channels)
          /\ IsTable(none) /\ \A x \in ToSet(none) : x[1] = "off"
      <4> HIDE DEF channels
      <4> QED
        BY <2>1, SwitchesAre
    <3> HIDE DEF all, none
    <3>3. IsTable(all \o none) /\ ToSet(all \o none) = ToSet(all) \cup ToSet(none)
      BY <3>2, JoinedTables
    <3>4. /\ IsTable(t)
          /\ \A x \in ToSet(t) : /\ x[1] \notin Setting
                                 /\ x[1] = "on" => x[2] \in ToSet(channels) /\ Enables(step)
      <4> HIDE DEF t, channels
      <4>1. \A s \in {all \o none, all} : IsTable(s)
              /\ \A x \in ToSet(s) : x[1] \notin Setting /\ (x[1] = "on" => x[2] \in ToSet(channels))
        BY <3>2, <3>3 DEF Setting
      <4>2. \A s \in {none, << >>} : IsTable(s)
              /\ \A x \in ToSet(s) : x[1] \notin Setting /\ x[1] # "on"
        BY <3>2, SmallTables DEF Setting
      <4> QED
        BY <3>1, <4>1, <4>2
    <3> HIDE DEF t, channels
    <3> QED
      BY <1>1, <2>2, <3>4 DEF t, channels
  <2>3. CASE Programs(step)
    <3> DEFINE on(c) == IF Enables(step) THEN <<At("on", c)>> ELSE <<>>
               pair(c) == WritePair(model, c, v, i)
               one(c) == pair(c) \o on(c)
               ss == [j \in DOMAIN channels |-> one(channels[j])]
               m == Len(channels)
    <3>1. t = FlattenSeq(ss)
      BY <1>4, <2>3 DEF SequenceStep, Each, Programs
    <3>2. v \in Int /\ i \in Int
      BY <1>4, <2>3 DEF StepTyped
    <3>3. DOMAIN channels = 1..m /\ m \in Nat
      BY <2>1, LenProperties DEF IsTable
    <3>4. Len(ss) = m /\ ss = [j \in 1..m |-> ss[j]] /\ \A j \in 1..m : ss[j] = one(channels[j])
      BY <3>3
    <3>5. \A c \in ToSet(channels) : Covered(r, checks, c, v, i)
      BY <2>3, <3>2 DEF Covered, Asks
    <3>6. \A j \in 1..m : channels[j] \in ToSet(channels)
      BY <3>3 DEF ToSet
    <3>7. \A c \in ToSet(channels) : \E j \in 1..m : channels[j] = c
      BY <3>3 DEF ToSet
    <3> HIDE DEF ss, t, channels, v, i, m
    <3>8. ASSUME NEW c \in ToSet(channels)
          PROVE  /\ Safe(r, b, checks, one(c), {})
                 /\ \E w \in ToSet(one(c)) : Sets(w, "voltage", c)
                 /\ \E w \in ToSet(one(c)) : Sets(w, "current", c)
                 /\ \A w \in ToSet(one(c)) : \A e : /\ Sets(w, "voltage", e) => e = c /\ w[3] = v
                                                    /\ Sets(w, "current", e) => e = c /\ w[4] = i
      <4> DEFINE writes == pair(c)
                 switches == on(c)
      <4>1. /\ Dark(writes)
            /\ \E w \in ToSet(writes) : Sets(w, "voltage", c)
            /\ \E w \in ToSet(writes) : Sets(w, "current", c)
            /\ \A w \in ToSet(writes) : \A e : /\ Sets(w, "voltage", e) => e = c /\ w[3] = v
                                               /\ Sets(w, "current", e) => e = c /\ w[4] = i
        <5>1. writes = WritePair(model, c, v, i)
          OBVIOUS
        <5> HIDE DEF writes
        <5> QED
          BY <3>2, <5>1, PairSets
      <4>2. IsTable(switches) /\ \A x \in ToSet(switches) : x[1] = "on" /\ x[2] = c
        BY SmallTables DEF At
      <4>3. one(c) = writes \o switches
        OBVIOUS
      <4> HIDE DEF writes, switches, one
      <4>4. ASSUME NEW x \in ToSet(switches), NEW e, Lights(r, b, x, e)
            PROVE  \E v1, i1 :
                     /\ Covered(r, checks, e, v1, i1)
                     /\ \E w \in ToSet(writes) : Sets(w, "voltage", e)
                     /\ \E w \in ToSet(writes) : Sets(w, "current", e)
                     /\ \A w \in ToSet(writes) : /\ Sets(w, "voltage", e) => w[3] = v1
                                                 /\ Sets(w, "current", e) => w[4] = i1
        <5>1. e = c
          BY <4>2, <4>4 DEF Lights
        <5> QED
          BY <3>5, <4>1, <5>1
      <4>5. Safe(r, b, checks, writes \o switches, {})
        BY <4>1, <4>2, <4>4, SwitchedAfterWrites DEF Setting
      <4>6. ToSet(writes \o switches) = ToSet(writes) \cup ToSet(switches)
        BY <4>1, <4>2, JoinedTables DEF Dark
      <4>7. \A w \in ToSet(switches) : \A e : ~Sets(w, "voltage", e) /\ ~Sets(w, "current", e)
        BY <4>2 DEF Sets
      <4> QED
        BY <4>1, <4>3, <4>5, <4>6, <4>7
    <3> HIDE DEF one
    <3>9. \A j \in 1..m : Safe(r, b, checks, ss[j], {})
      BY <3>4, <3>6, <3>8
    <3>10. Safe(r, b, checks, t, {})
      BY <3>1, <3>3, <3>4, <3>9, FlattenSafe
    <3>11. ToSet(t) = UNION {ToSet(ss[j]) : j \in DOMAIN channels}
      <4>1. \A j \in DOMAIN channels : IsTable(ss[j])
        BY <3>3, <3>9 DEF Safe
      <4> QED
        BY <2>1, <3>1, <3>3, <3>4, <4>1, EachTable
    <3>12. DOMAIN t = 1..Len(t) /\ Len(t) \in Nat /\ IsTable(t)
      BY <3>10, LenProperties DEF Safe, IsTable
    <3>13. ASSUME NEW k \in 1..Len(t), NEW e
           PROVE  /\ Sets(t[k], "voltage", e) => e \in ToSet(channels) /\ t[k][3] = v
                  /\ Sets(t[k], "current", e) => e \in ToSet(channels) /\ t[k][4] = i
      <4>1. t[k] \in ToSet(t)
        BY <3>12 DEF ToSet
      <4>2. PICK j \in 1..m : t[k] \in ToSet(ss[j])
        BY <3>3, <3>11, <4>1
      <4> QED
        BY <3>4, <3>6, <3>8, <4>2
    <3>14. ASSUME NEW c \in ToSet(channels) PROVE Firm(r, checks, t, Len(t), c)
      <4>1. PICK j \in 1..m : channels[j] = c
        BY <3>7
      <4>2. ToSet(one(c)) \subseteq ToSet(t)
        BY <3>3, <3>4, <3>11, <4>1
      <4>3. \E w \in ToSet(t) : Sets(w, "voltage", c)
        BY <3>8, <4>2
      <4>4. \E w \in ToSet(t) : Sets(w, "current", c)
        BY <3>8, <4>2
      <4>5. \E k \in 1..Len(t) : Sets(t[k], "voltage", c)
        BY <3>12, <4>3 DEF ToSet
      <4>6. \E k \in 1..Len(t) : Sets(t[k], "current", c)
        BY <3>12, <4>4 DEF ToSet
      <4>7. /\ \A k \in 1..Len(t) : Sets(t[k], "voltage", c) => Level(t[k], "voltage") = v
            /\ \A k \in 1..Len(t) : Sets(t[k], "current", c) => Level(t[k], "current") = i
        BY <3>13 DEF Level
      <4>8. LastSet(t, Len(t), c, "voltage", v)
        BY <3>12, <4>5, <4>7, AgreedIsLast
      <4>9. LastSet(t, Len(t), c, "current", i)
        BY <3>12, <4>6, <4>7, AgreedIsLast
      <4> QED
        BY <3>5, <4>8, <4>9 DEF Firm
    <3>15. ASSUME NEW c, c \notin ToSet(channels) PROVE Clean(t, Len(t), c)
      BY <3>13, <3>15 DEF Clean, Kinds, Untouched
    <3>16. \A n \in 1..Len(t) : \A c : Lights(r, b, t[n], c) => Firm(r, checks, t, n - 1, c)
      BY <3>10 DEF Safe
    <3> QED
      BY <2>3, <3>12, <3>14, <3>15, <3>16 DEF channels, t
  <2> QED
    BY <2>2, <2>3
<1> QED
  BY <1>2, <1>3, <1>4

\* A script that is safe, and that leaves each channel with a checked pair or alone.
Sound(r, b, steps, s, C) ==
  Safe(r, b, steps, s, C) /\ \A c : Firm(r, steps, s, Len(s), c) \/ Clean(s, Len(s), c)

\* What has no steps sets nothing.
LEMMA EmptyIsClean == ASSUME NEW c PROVE Clean(<< >>, Len(<< >>), c)
<1>1. 0 \in 0..Len(<< >>) /\ IsTable(<< >>) /\ ToSet(<< >>) = {} /\ Len(<< >>) = 0
  BY SmallTables
<1> QED
  BY <1>1, SetsNothing

\* One sound script after the other, and many.
LEMMA SoundJoin ==
  ASSUME NEW r, NEW b, NEW steps, NEW C, NEW s, Sound(r, b, steps, s, C), NEW t, Sound(r, b, steps, t, C)
  PROVE  Sound(r, b, steps, s \o t, C)
<1>1. IsTable(s) /\ IsTable(t)
  BY DEF Sound, Safe
<1>2. ASSUME NEW n \in 1..Len(t), NEW c, Lights(r, b, t[n], c)
      PROVE  \/ Firm(r, steps, t, n - 1, c)
             \/ /\ Clean(t, n - 1, c)
                /\ Firm(r, steps, s, Len(s), c) \/ (Clean(s, Len(s), c) /\ c \in C)
  BY <1>2 DEF Sound, Safe
<1>3. Safe(r, b, steps, s \o t, C)
  BY <1>1, <1>2, SafeJoin DEF Sound
<1>4. ASSUME NEW c PROVE Firm(r, steps, s \o t, Len(s \o t), c) \/ Clean(s \o t, Len(s \o t), c)
  <2>1. /\ Firm(r, steps, s, Len(s), c) \/ Clean(s, Len(s), c)
        /\ Firm(r, steps, t, Len(t), c) \/ Clean(t, Len(t), c)
    BY DEF Sound
  <2> QED
    BY <1>1, <2>1, EndsJoin
<1> QED
  BY <1>3, <1>4 DEF Sound

\* Sound scripts, one after the other, are sound.
LEMMA FlattenSound ==
  ASSUME NEW r, NEW b, NEW steps, NEW C, NEW n \in Nat, NEW ss, Len(ss) = n, ss = [k \in 1..n |-> ss[k]],
         \A k \in 1..n : Sound(r, b, steps, ss[k], C)
  PROVE  Sound(r, b, steps, FlattenSeq(ss), C)
<1> DEFINE T == UNION {ToSet(ss[k]) : k \in 1..n}
           P == {s \in Seq(T) : Sound(r, b, steps, s, C)}
<1>1. << >> \in P
  <2>1. Dark(<< >>)
    BY SmallTables DEF Dark
  <2> HIDE DEF T
  <2> QED
    BY <2>1, DarkIsSafe, EmptyIsClean DEF Sound
<1>2. ASSUME NEW s \in P, NEW t \in P PROVE s \o t \in P
  <2>1. Sound(r, b, steps, s \o t, C)
    BY SoundJoin
  <2>2. s \o t \in Seq(T)
    <3> HIDE DEF T
    <3> QED
      OBVIOUS
  <2> QED
    BY <2>1, <2>2
<1>3. ASSUME NEW k \in 1..n PROVE ss[k] \in P
  <2>1. ToSet(ss[k]) \subseteq T
    OBVIOUS
  <2>2. ss[k] \in Seq(ToSet(ss[k]))
    BY DEF Sound, Safe, IsTable
  <2> HIDE DEF T
  <2>3. ss[k] \in Seq(T)
    BY <2>1, <2>2, WiderElements
  <2> QED
    BY <2>3
<1>4. FlattenSeq(ss) \in P
  <2> HIDE DEF P
  <2> QED
    BY <1>1, <1>2, <1>3, FlattenClosed
<1> QED
  BY <1>4

\* A sequence: a channel it switches on has the pair that the steps so far have
\* programmed, or, before any has, what it had at the start.
LEMMA SequenceLit ==
  ASSUME NEW r, r.command = "sequence", NEW b, NEW model, NEW d, NEW p, IsTable(d.steps), Loops(d, p) \in Nat,
         \A step \in ToSet(d.steps) : StepTyped(step),
         ModelChannels[model] \subseteq Int, IsFiniteSet(ModelChannels[model]), ModelChannels[model] # {},
         \A step \in ToSet(d.steps) : Programs(step) =>
           ToSet(ChannelsOfStep(step, ModelChannels[model])) \subseteq ModelChannels[model],
         \A c \in DOMAIN b.on : b.voltage[c] \in Int /\ b.current[c] \in Int
  PROVE  Lit(r, b, {}, {}, SequenceSteps(model, d, p, b))
<1> DEFINE list == d.steps
           supported == ModelChannels[model]
           of(k) == ToSet(ChannelsOfStep(list[k], supported))
           checks == SequenceChecks(list, supported, b)
           tt == [k \in DOMAIN list |-> SequenceStep(model, list[k], supported)]
           ss == [loop \in 1..Loops(d, p) |-> FlattenSeq(tt)]
           steps == ToSet(checks)
           C == {c \in DOMAIN b.on : <<"limits", c, b.voltage[c], b.current[c]>> \in steps}
           n == Len(list)
           free(c, k) == \A j \in 1..k : ~(Programs(list[j]) /\ c \in of(j))
           good(s, k) == /\ Safe(r, b, steps, s, C)
                         /\ \A c : Firm(r, steps, s, Len(s), c) \/ (Clean(s, Len(s), c) /\ free(c, k))
<1>1. SequenceSteps(model, d, p, b) = checks \o FlattenSeq(ss)
  BY DEF SequenceSteps, Each
<1>2. /\ IsTable(checks) /\ \A x \in ToSet(checks) : x[1] \notin Setting
      /\ \A k \in DOMAIN list : Programs(list[k]) => \A c \in of(k) :
           <<"limits", c, StepParameters(list[k])["voltage"][2], StepParameters(list[k])["current"][2]>> \in steps
      /\ \A k \in DOMAIN list : Enables(list[k]) => \A c \in of(k) :
           free(c, k) => <<"limits", c, b.voltage[c], b.current[c]>> \in steps
  BY SequenceChecksAre DEF Setting
<1>3. Dark(checks)
  BY SequenceChecksAre DEF Dark
<1>4. DOMAIN list = 1..n /\ n \in Nat /\ \A k \in DOMAIN list : list[k] \in ToSet(list)
  BY LenProperties DEF IsTable, ToSet
<1>5. /\ Len(tt) = n /\ tt = [k \in 1..n |-> tt[k]]
      /\ \A k \in 1..n : tt[k] = SequenceStep(model, list[k], supported)
  BY <1>4
<1>6. ASSUME NEW k \in 1..n
      PROVE  /\ IsTable(tt[k])
             /\ \A m \in 1..Len(tt[k]) : \A c : Lights(r, b, tt[k][m], c) =>
                  \/ Firm(r, steps, tt[k], m - 1, c)
                  \/ Clean(tt[k], m - 1, c) /\ c \in of(k) /\ Enables(list[k]) /\ ~Programs(list[k])
             /\ \A c : IF Programs(list[k]) /\ c \in of(k) THEN Firm(r, steps, tt[k], Len(tt[k]), c)
                       ELSE Clean(tt[k], Len(tt[k]), c)
  <2> DEFINE step == list[k]
             t == SequenceStep(model, step, supported)
             channels == ToSet(ChannelsOfStep(step, supported))
  <2>1. /\ StepTyped(step) /\ tt[k] = t
        /\ Programs(step) => channels \subseteq supported
        /\ Programs(step) => \A c \in channels :
             <<"limits", c, StepParameters(step)["voltage"][2], StepParameters(step)["current"][2]>> \in steps
    BY <1>2, <1>4, <1>5
  <2> HIDE DEF steps, tt, step
  <2>2. /\ IsTable(t)
        /\ \A m \in 1..Len(t) : \A c : Lights(r, b, t[m], c) =>
             \/ Firm(r, steps, t, m - 1, c)
             \/ Clean(t, m - 1, c) /\ c \in channels /\ Enables(step) /\ ~Programs(step)
        /\ \A c : IF Programs(step) /\ c \in channels THEN Firm(r, steps, t, Len(t), c)
                  ELSE Clean(t, Len(t), c)
    BY <2>1, StepLights
  <2> HIDE DEF t
  <2> QED
    BY <2>1, <2>2 DEF step
<1> HIDE DEF tt, checks, ss
<1>7. ASSUME NEW k \in 1..n, NEW s, good(s, k - 1) PROVE good(s \o tt[k], k)
  <2> DEFINE t == tt[k]
  <2>1. IsTable(s) /\ IsTable(t)
    BY <1>6, <1>7 DEF Safe
  <2>2. \A c : free(c, k) <=> free(c, k - 1) /\ ~(Programs(list[k]) /\ c \in of(k))
    BY <1>4
  <2>3. ASSUME NEW m \in 1..Len(t), NEW c, Lights(r, b, t[m], c)
        PROVE  \/ Firm(r, steps, t, m - 1, c)
               \/ /\ Clean(t, m - 1, c)
                  /\ Firm(r, steps, s, Len(s), c) \/ (Clean(s, Len(s), c) /\ c \in C)
    <3>1. CASE ~Firm(r, steps, t, m - 1, c)
      <4>1. Clean(t, m - 1, c) /\ c \in of(k) /\ Enables(list[k]) /\ ~Programs(list[k])
        BY <1>6, <2>3, <3>1
      <4>2. c \in DOMAIN b.on
        BY <2>3 DEF Lights
      <4>3. Firm(r, steps, s, Len(s), c) \/ (Clean(s, Len(s), c) /\ free(c, k - 1))
        BY <1>7
      <4>4. free(c, k - 1) => c \in C
        BY <1>2, <1>4, <2>2, <4>1, <4>2
      <4> QED
        BY <4>1, <4>3, <4>4
    <3> QED
      BY <3>1
  <2> HIDE DEF C, steps
  <2>4. Safe(r, b, steps, s \o t, C)
    BY <1>7, <2>1, <2>3, SafeJoin
  <2>5. ASSUME NEW c
        PROVE  \/ Firm(r, steps, s \o t, Len(s \o t), c)
               \/ Clean(s \o t, Len(s \o t), c) /\ free(c, k)
    <3>1. /\ Firm(r, steps, t, Len(t), c) => Firm(r, steps, s \o t, Len(s \o t), c)
          /\ Clean(t, Len(t), c) /\ Firm(r, steps, s, Len(s), c) => Firm(r, steps, s \o t, Len(s \o t), c)
          /\ Clean(t, Len(t), c) /\ Clean(s, Len(s), c) => Clean(s \o t, Len(s \o t), c)
      BY <2>1, EndsJoin
    <3>2. IF Programs(list[k]) /\ c \in of(k) THEN Firm(r, steps, t, Len(t), c) ELSE Clean(t, Len(t), c)
      BY <1>6
    <3>3. Firm(r, steps, s, Len(s), c) \/ (Clean(s, Len(s), c) /\ free(c, k - 1))
      BY <1>7
    <3> HIDE DEF free, t
    <3> QED
      BY <2>2, <3>1, <3>2, <3>3
  <2> HIDE DEF free
  <2> QED
    BY <2>4, <2>5
<1>8. good(<< >>, 0)
  <2>1. Dark(<< >>)
    BY SmallTables DEF Dark
  <2>2. \A c : Clean(<< >>, Len(<< >>), c) /\ free(c, 0)
    BY EmptyIsClean
  <2> HIDE DEF free, C, steps
  <2> QED
    BY <2>1, <2>2, DarkIsSafe
<1> DEFINE T == UNION {ToSet(tt[k]) : k \in 1..n}
           P == [k \in 0..n |-> {s \in Seq(T) : good(s, k)}]
<1>9. ASSUME NEW k \in 1..n PROVE tt[k] \in Seq(T)
  <2>1. ToSet(tt[k]) \subseteq T
    OBVIOUS
  <2>2. tt[k] \in Seq(ToSet(tt[k]))
    BY <1>6 DEF IsTable
  <2> HIDE DEF T
  <2> QED
    BY <2>1, <2>2, WiderElements
<1> HIDE DEF T, good
<1>10. FlattenSeq(tt) \in P[n]
  <2>1. << >> \in P[0] /\ (n = 0 => tt = << >>)
    <3>1. << >> \in P[0]
      BY <1>4, <1>8
    <3>2. n = 0 => tt = << >>
      BY <1>4, <1>5
    <3> QED
      BY <3>1, <3>2
  <2>2. ASSUME NEW k \in 1..n, NEW s \in P[k - 1] PROVE s \o tt[k] \in P[k]
    <3>1. k - 1 \in 0..n /\ k \in 0..n
      BY <1>4
    <3>2. s \in Seq(T) /\ good(s, k - 1)
      BY <2>2, <3>1
    <3>3. good(s \o tt[k], k)
      BY <1>7, <3>2
    <3>4. s \o tt[k] \in Seq(T)
      BY <1>9, <3>2
    <3> QED
      BY <3>1, <3>3, <3>4
  <2>3. n # 0 => tt[1] \in P[1]
    <3> SUFFICES ASSUME n # 0 PROVE tt[1] \in P[1]
      OBVIOUS
    <3>1. 1 \in 1..n /\ 1 - 1 = 0
      BY <1>4
    <3>2. << >> \o tt[1] \in P[1]
      <4> HIDE DEF P
      <4> QED
        BY <2>1, <2>2, <3>1
    <3>3. << >> \o tt[1] = tt[1]
      BY <1>9, <3>1, ConcatEmptySeq
    <3> QED
      BY <3>2, <3>3
  <2>4. \A k \in 2..n : \A s \in P[k - 1] : s \o tt[k] \in P[k]
    <3>1. \A k \in 2..n : k \in 1..n
      BY <1>4
    <3> HIDE DEF P
    <3> QED
      BY <2>2, <3>1
  <2> HIDE DEF P
  <2> QED
    BY <1>4, <1>5, <2>1, <2>3, <2>4, FlattenInduction
<1>11. Sound(r, b, steps, FlattenSeq(tt), C)
  <2>1. good(FlattenSeq(tt), n)
    BY <1>4, <1>10
  <2> HIDE DEF free, C, steps
  <2> QED
    BY <2>1 DEF Sound, good
<1>12. /\ Len(ss) = Loops(d, p) /\ ss = [loop \in 1..Loops(d, p) |-> ss[loop]]
       /\ \A loop \in 1..Loops(d, p) : ss[loop] = FlattenSeq(tt)
  BY DEF ss
<1>13. Sound(r, b, steps, FlattenSeq(ss), C)
  <2> HIDE DEF C, steps
  <2> QED
    BY <1>11, <1>12, FlattenSound
<1>14. \A c \in C : Covered(r, ToSet(checks), c, b.voltage[c], b.current[c])
  BY DEF Covered, Asks
<1> HIDE DEF C
<1> QED
  BY <1>1, <1>2, <1>3, <1>13, <1>14, LitAfterChecks DEF Sound

\* Whatever a session is for, what it switches on is checked as it is programmed then.
LEMMA StepsLit ==
  ASSUME NEW r, Ready(r), NEW b, IdentityHolds(r, b), ChannelsSupported(r, b), b.model = Detected(b),
         \A c \in DOMAIN b.on : b.voltage[c] \in Int /\ b.current[c] \in Int
  PROVE  Lit(r, b, {}, {}, StepsOf(r, b))
<1> DEFINE p == r.parameters
           d == p["document"][2]
           model == Detected(b)
           supported == ModelChannels[model]
           channels == SessionChannels(r, b)
           v == Setpoint(p, "voltage")
           i == Setpoint(p, "current")
<1>1. supported \subseteq Int /\ IsFiniteSet(supported) /\ supported # {}
  BY IdentifiedChannels
<1>2. model = PSM2010 => supported = {1}
  <2>1. model \in Drivers
    BY DEF IdentityHolds, DriverFor
  <2> QED
    BY <2>1, ModelsAssumption
<1>3. CASE IsOutput(r)
  <2>1. /\ r.command \in {"set", "apply", "smoke-output", "output-on", "cycle-output", "output-off", "safe-off",
                          "output-state", "ramp"}
        /\ Selects(p) /\ SetpointsTyped(p) /\ PairGiven(r) /\ (r.command = "ramp" => RampTyped(p))
    BY <1>3 DEF Ready, IsOutput, DirectOutputCommands
  <2>2. channels = ChannelsOf(p, supported) /\ ToSet(channels) \subseteq supported
    BY <2>1 DEF SessionChannels, ChannelsSupported, SelectionHolds
  <2>3. r.command = "smoke-output" => channels = Ascending({p["channel"][2]}) /\ p["channel"][2] \in Int
    <3>1. CASE r.command = "smoke-output"
      <4>1. "channels" \notin DOMAIN p /\ p["channel"] # All
        BY <2>1, <3>1 DEF PairGiven
      <4> QED
        BY <2>1, <2>2, <4>1 DEF ChannelsOf, Selects
    <3> QED
      BY <3>1
  <2> HIDE DEF supported
  <2>4. IsTable(channels) /\ channels # << >>
    BY <1>1, <2>1, <2>2, ChannelsTable
  <2>5. r.command \in {"apply", "smoke-output"} => v \in Int /\ i \in Int
    BY <2>1 DEF PairGiven, Setpoint, SetpointsTyped
  <2> HIDE DEF channels, v, i, p, model
  <2>6. channels[1] \in ToSet(channels)
    BY <2>4, FirstAndRest
  <2>7. model = PSM2010 => \A c \in ToSet(channels) : c = channels[1]
    BY <1>2, <2>2, <2>6
  <2>8. r.command = "smoke-output" => ToSet(channels) = {channels[1]}
    <3>1. \A x : IsFiniteSet({x})
      BY FS_Singleton
    <3>2. r.command = "smoke-output" => ToSet(channels) = {p["channel"][2]}
      BY <2>3, <3>1, AscendingHasAll
    <3> QED
      BY <2>6, <3>2
  <2>9. StepsOf(r, b) =
          CASE r.command = "set"          -> SetSteps(model, channels[1], v, i)
            [] r.command = "apply"        -> ApplySteps(model, channels, p, v, i)
            [] r.command = "smoke-output" -> SmokeSteps(model, channels, channels[1], v, i)
            [] r.command = "output-on"    -> CheckProgrammed(channels, b) \o SwitchEach("on", channels)
            [] r.command = "cycle-output" -> CheckProgrammed(channels, b) \o SwitchEach("on", channels)
                                               \o SwitchEach("off", channels)
            [] r.command = "output-off"   -> SwitchEach("channel", channels) \o SwitchEach("off", channels)
            [] r.command = "safe-off"     -> SwitchEach("off", channels)
            [] r.command = "output-state" -> SwitchEach("channel", channels)
            [] r.command = "ramp"         -> RampSteps(model, channels, p)
    BY <2>1 DEF StepsOf, channels, v, i, p, model
  <2>10. channels = SessionChannels(r, b)
    BY DEF channels
  <2>11. CASE r.command \in {"set", "output-off", "safe-off", "output-state"}
    <3>1. /\ Lit(r, b, {}, {}, SetSteps(model, channels[1], v, i))
          /\ Lit(r, b, {}, {}, SwitchEach("channel", channels) \o SwitchEach("off", channels))
          /\ Lit(r, b, {}, {}, SwitchEach("off", channels))
          /\ Lit(r, b, {}, {}, SwitchEach("channel", channels))
      BY <2>4, OthersLit
    <3> QED
      BY <2>9, <2>11, <3>1
  <2>12. CASE r.command = "apply"
    BY <2>4, <2>5, <2>9, <2>10, <2>12, ApplyLit
  <2>13. CASE r.command = "smoke-output"
    <3>1. ToSet(SessionChannels(r, b)) = {channels[1]} /\ v \in Int /\ i \in Int
      BY <2>5, <2>8, <2>10, <2>13
    <3> QED
      BY <2>9, <2>13, <3>1, SmokeLit
  <2>14. CASE r.command \in {"output-on", "cycle-output"}
    <3>1. /\ Lit(r, b, {}, {}, CheckProgrammed(channels, b) \o SwitchEach("on", channels))
          /\ Lit(r, b, {}, {}, CheckProgrammed(channels, b) \o SwitchEach("on", channels)
                                 \o SwitchEach("off", channels))
      BY <2>4, <2>10, SwitchingLit
    <3> QED
      BY <2>9, <2>14, <3>1
  <2>15. CASE r.command = "ramp"
    BY <2>1, <2>4, <2>7, <2>9, <2>10, <2>15, RampLit
  <2> QED
    BY <2>1, <2>11, <2>12, <2>13, <2>14, <2>15
<1>4. CASE r.command = "ramp-list"
  <2>1. ListTyped(d, p)
    BY <1>4 DEF Ready
  <2>2. channels = Ascending(UNION {ToSet(SegmentChannels(s)) : s \in ToSet(d.segments)})
    BY <1>4 DEF SessionChannels
  <2>3. StepsOf(r, b) = RampListSteps(model, channels, d, p)
    BY <1>4 DEF StepsOf
  <2>4. ToSet(channels) \subseteq supported
    BY <1>4 DEF ChannelsSupported
  <2>5. channels = SessionChannels(r, b) /\ b.model = model
    OBVIOUS
  <2> HIDE DEF channels, model, d, p, supported
  <2>6. /\ IsTable(channels)
        /\ ToSet(channels) = UNION {ToSet(SegmentChannels(s)) : s \in ToSet(d.segments)}
    BY <2>1, <2>2, ListedChannels DEF ListTyped
  <2>7. model = PSM2010 => \A c \in ToSet(channels) : c = 1
    BY <1>2, <2>4
  <2> QED
    BY <1>4, <2>1, <2>3, <2>5, <2>6, <2>7, RampListLit DEF ListTyped
<1>5. CASE r.command = "sequence"
  <2>1. SequenceTyped(d, p)
    BY <1>5 DEF Ready
  <2>2. StepsOf(r, b) = SequenceSteps(model, d, p, b)
    BY <1>5 DEF StepsOf
  <2>3. \A step \in ToSet(d.steps) : Programs(step) =>
          ToSet(ChannelsOfStep(step, supported)) \subseteq supported
    BY <1>5 DEF ChannelsSupported
  <2> HIDE DEF model, d, p
  <2> QED
    BY <1>1, <1>5, <2>1, <2>2, <2>3, SequenceLit DEF SequenceTyped
<1>6. CASE IsRestore(r)
  <2>1. /\ r.command = "restore-from-snapshot" /\ SnapshotValid(registry, d) /\ d.resolved = model
        /\ model \in Restorable
    BY <1>6 DEF Ready, IsRestore, IdentityHolds, SameInstrument
  <2>2. channels = RestoreChannels(d, p["channel"]) /\ StepsOf(r, b) = RestoreSteps(d, channels, p)
    BY <2>1 DEF SessionChannels, StepsOf
  <2> HIDE DEF channels
  <2>3. IsTable(channels)
    BY <1>1, <2>1, <2>2, RestoredChannels
  <2>4. b.model # E3646A
    BY <2>1 DEF Restorable, E36312A, PSM2010, E3646A
  <2> QED
    BY <2>1, <2>2, <2>3, <2>4, RestoreLit
<1>7. IsOutput(r) \/ r.command \in {"ramp-list", "sequence"} \/ IsRestore(r)
  BY DEF Ready, Opens, IsOutput, IsRestore, DocumentCommands
<1> QED
  BY <1>3, <1>4, <1>5, <1>6, <1>7

\* What is programmed after a step and the next ones, seen from after that step.
LEMMA TailProgrammed ==
  ASSUME NEW b, NEW s, IsTable(s), s # << >>, NEW n \in 1..Len(s) - 1, NEW c, NEW kind, NEW x,
         ProgrammedAt(b, s, n, c, kind, x),
         NEW e, e[kind][c] = IF Sets(s[1], kind, c) THEN Level(s[1], kind) ELSE b[kind][c]
  PROVE  ProgrammedAt(e, Tail(s), n - 1, c, kind, x)
<1> DEFINE t == Tail(s)
<1>1. s \in Seq(ToSet(s)) /\ Len(s) \in Nat /\ n \in Nat /\ n >= 1
  BY LenProperties DEF IsTable
<1>2. Len(t) = Len(s) - 1 /\ \A m \in 1..Len(t) : t[m] = s[m + 1]
  BY <1>1
<1> HIDE DEF t
<1>3. \A m \in 1..n - 1 : t[m] = s[m + 1] /\ m + 1 \in 1..n
  BY <1>1, <1>2
<1>4. CASE Untouched(s, n, c, kind) /\ x = b[kind][c]
  <2>1. Untouched(t, n - 1, c, kind)
    BY <1>3, <1>4 DEF Untouched
  <2>2. 1 \in 1..n
    BY <1>1
  <2>3. e[kind][c] = x
    BY <1>4, <2>2 DEF Untouched
  <2> QED
    BY <2>1, <2>3 DEF ProgrammedAt, t
<1>5. CASE LastSet(s, n, c, kind, x)
  <2>1. PICK m \in 1..n :
          Sets(s[m], kind, c) /\ Level(s[m], kind) = x /\ \A k \in m + 1..n : ~Sets(s[k], kind, c)
    BY <1>5 DEF LastSet
  <2>2. CASE m = 1
    <3>1. \A k \in 1..n - 1 : k + 1 \in m + 1..n
      BY <1>1, <2>2
    <3>2. Untouched(t, n - 1, c, kind)
      BY <1>3, <2>1, <3>1 DEF Untouched
    <3>3. e[kind][c] = x
      BY <2>1, <2>2
    <3> QED
      BY <3>2, <3>3 DEF ProgrammedAt, t
  <2>3. CASE m # 1
    <3>1. m - 1 \in 1..n - 1 /\ (m - 1) + 1 = m
      BY <1>1, <2>3
    <3>2. t[m - 1] = s[m]
      BY <1>3, <3>1
    <3>3. \A k \in (m - 1) + 1..n - 1 : k \in 1..n - 1 /\ k + 1 \in m + 1..n
      BY <1>1, <3>1
    <3>4. \A k \in (m - 1) + 1..n - 1 : ~Sets(t[k], kind, c)
      BY <1>3, <2>1, <3>3
    <3>5. LastSet(t, n - 1, c, kind, x)
      BY <2>1, <3>1, <3>2, <3>4 DEF LastSet
    <3> QED
      BY <3>5 DEF ProgrammedAt, t
  <2> QED
    BY <2>2, <2>3
<1> QED
  BY <1>4, <1>5 DEF ProgrammedAt

\* What a step was granted, or has established, counts for those that remain.
LEMMA TailGranted ==
  ASSUME NEW r, NEW done, NEW asked, NEW s, IsTable(s), s # << >>, NEW n \in 1..Len(s) - 1,
         NEW c, NEW v, NEW i, Granted(r, done, asked, s, n, c, v, i),
         NEW after, done \subseteq after, NEW agreed, asked \subseteq agreed,
         s[1] = <<"limits", c, v, i>> => \E k \in after : <<k[1], k[2], k[3]>> = <<c, v, i>>,
         s[1] = <<"confirm", c, v, i>> => \E k \in agreed : <<k[1], k[2], k[3]>> = <<c, v, i>>,
         s[1][1] = "fit" /\ r.command = "restore-from-snapshot" =>
           LET d == r.parameters["document"][2] IN
           RestoreSetpointsFit(d, RestoreChannels(d, r.parameters["channel"]))
  PROVE  Granted(r, after, agreed, Tail(s), n - 1, c, v, i)
<1> DEFINE t == Tail(s)
<1>1. s \in Seq(ToSet(s)) /\ Len(s) \in Nat /\ n \in Nat /\ n >= 1
  BY LenProperties DEF IsTable
<1>2. Len(t) = Len(s) - 1 /\ \A m \in 1..Len(t) : t[m] = s[m + 1]
  BY <1>1
<1> HIDE DEF t
<1>3. ASSUME NEW m \in 1..n, m # 1 PROVE \E k \in 1..n - 1 : t[k] = s[m]
  <2>1. m - 1 \in 1..n - 1 /\ m - 1 \in 1..Len(t) /\ (m - 1) + 1 = m
    BY <1>1, <1>2, <1>3
  <2>2. t[m - 1] = s[m]
    BY <1>2, <2>1
  <2> QED
    BY <2>1, <2>2
<1>4. CASE /\ v \in Int /\ i \in Int
           /\ \/ \E k \in done : <<k[1], k[2], k[3]>> = <<c, v, i>>
              \/ \E m \in 1..n : s[m] = <<"limits", c, v, i>>
           /\ Asks(r) => \/ \E k \in asked : <<k[1], k[2], k[3]>> = <<c, v, i>>
                         \/ \E m \in 1..n : s[m] = <<"confirm", c, v, i>>
  <2>1. \/ \E k \in after : <<k[1], k[2], k[3]>> = <<c, v, i>>
        \/ \E m \in 1..n - 1 : t[m] = <<"limits", c, v, i>>
    BY <1>3, <1>4
  <2>2. Asks(r) => \/ \E k \in agreed : <<k[1], k[2], k[3]>> = <<c, v, i>>
                   \/ \E m \in 1..n - 1 : t[m] = <<"confirm", c, v, i>>
    BY <1>3, <1>4
  <2> QED
    BY <1>4, <2>1, <2>2 DEF Granted, t
<1>5. CASE /\ Remembered(r, c, v, i)
           /\ LET d == r.parameters["document"][2] IN
              \/ RestoreSetpointsFit(d, RestoreChannels(d, r.parameters["channel"]))
              \/ \E m \in 1..n : s[m][1] = "fit"
  <2> DEFINE d == r.parameters["document"][2]
             fits == RestoreSetpointsFit(d, RestoreChannels(d, r.parameters["channel"]))
  <2>1. fits \/ \E m \in 1..n : s[m][1] = "fit"
    BY <1>5
  <2>2. s[1][1] = "fit" => fits
    BY <1>5 DEF Remembered
  <2> HIDE DEF fits
  <2>3. fits \/ \E m \in 1..n - 1 : t[m][1] = "fit"
    BY <1>3, <2>1, <2>2
  <2> QED
    BY <1>5, <2>3 DEF Granted, t, fits
<1> QED
  BY <1>4, <1>5 DEF Granted

\* A call leaves what is asked of an instrument what it is.
SameOutputs(b, e) ==
  e.model = b.model /\ e.maker = b.maker /\ e.name = b.name /\ DOMAIN e.on = DOMAIN b.on

\* A step lights the same outputs of what is the same instrument.
LEMMA LightsSame ==
  ASSUME NEW r, NEW b, NEW e, SameOutputs(b, e), NEW x, NEW c
  PROVE  Lights(r, b, x, c) <=> Lights(r, e, x, c)
<1>1. SessionChannels(r, b) = SessionChannels(r, e)
  BY DEF SessionChannels, Detected, SameOutputs
<1> QED
  BY <1>1 DEF Lights, SameOutputs, Switched

\* After its first element a script is lit by what that has established.
LEMMA TailLit ==
  ASSUME NEW r, NEW b, NEW done, NEW asked, NEW s, Lit(r, b, done, asked, s), s # << >>,
         NEW e, SameOutputs(b, e),
         \A c \in DOMAIN b.on : \A kind \in Kinds :
           e[kind][c] = IF Sets(s[1], kind, c) THEN Level(s[1], kind) ELSE b[kind][c],
         NEW after, done \subseteq after, NEW agreed, asked \subseteq agreed,
         \A c, v, i : s[1] = <<"limits", c, v, i>> => \E k \in after : <<k[1], k[2], k[3]>> = <<c, v, i>>,
         \A c, v, i : s[1] = <<"confirm", c, v, i>> => \E k \in agreed : <<k[1], k[2], k[3]>> = <<c, v, i>>,
         s[1][1] = "fit" /\ r.command = "restore-from-snapshot" =>
           LET d == r.parameters["document"][2] IN
           RestoreSetpointsFit(d, RestoreChannels(d, r.parameters["channel"]))
  PROVE  Lit(r, e, after, agreed, Tail(s))
<1> DEFINE t == Tail(s)
<1>1. IsTable(s) /\ s \in Seq(ToSet(s)) /\ Len(s) \in Nat
  BY LenProperties DEF Lit, IsTable
<1>2. Len(t) = Len(s) - 1 /\ \A n \in 1..Len(t) : t[n] = s[n + 1]
  BY <1>1
<1>3. IsTable(t)
  BY <1>1, FirstAndRest
<1> HIDE DEF t
<1>4. ASSUME NEW n \in 1..Len(t), NEW c, Lights(r, e, t[n], c)
      PROVE  \E v, i : /\ ProgrammedAt(e, t, n - 1, c, "voltage", v)
                       /\ ProgrammedAt(e, t, n - 1, c, "current", i)
                       /\ Granted(r, after, agreed, t, n - 1, c, v, i)
  <2>1. n \in 1..Len(s) - 1 /\ n + 1 \in 1..Len(s) /\ (n + 1) - 1 = n /\ t[n] = s[n + 1]
    BY <1>1, <1>2
  <2>2. Lights(r, b, s[n + 1], c) /\ c \in DOMAIN b.on
    <3>1. Lights(r, b, t[n], c)
      BY <1>4, LightsSame
    <3> QED
      BY <2>1, <3>1 DEF Lights
  <2>3. PICK v, i : /\ ProgrammedAt(b, s, (n + 1) - 1, c, "voltage", v)
                    /\ ProgrammedAt(b, s, (n + 1) - 1, c, "current", i)
                    /\ Granted(r, done, asked, s, (n + 1) - 1, c, v, i)
    BY <2>1, <2>2 DEF Lit
  <2>4. /\ ProgrammedAt(b, s, n, c, "voltage", v) /\ ProgrammedAt(b, s, n, c, "current", i)
        /\ Granted(r, done, asked, s, n, c, v, i)
    BY <2>1, <2>3
  <2>5. /\ e["voltage"][c] = IF Sets(s[1], "voltage", c) THEN Level(s[1], "voltage") ELSE b["voltage"][c]
        /\ e["current"][c] = IF Sets(s[1], "current", c) THEN Level(s[1], "current") ELSE b["current"][c]
    BY <2>2 DEF Kinds
  <2>6. ProgrammedAt(e, t, n - 1, c, "voltage", v)
    BY <1>1, <2>1, <2>4, <2>5, TailProgrammed DEF t
  <2>7. ProgrammedAt(e, t, n - 1, c, "current", i)
    BY <1>1, <2>1, <2>4, <2>5, TailProgrammed DEF t
  <2>8. /\ s[1] = <<"limits", c, v, i>> => \E k \in after : <<k[1], k[2], k[3]>> = <<c, v, i>>
        /\ s[1] = <<"confirm", c, v, i>> => \E k \in agreed : <<k[1], k[2], k[3]>> = <<c, v, i>>
    OBVIOUS
  <2>9. Granted(r, after, agreed, t, n - 1, c, v, i)
    BY <1>1, <2>1, <2>4, <2>8, TailGranted DEF t
  <2> QED
    BY <2>6, <2>7, <2>9
<1> QED
  BY <1>3, <1>4 DEF Lit, t

-----------------------------------------------------------------------------
(* What a session switches on                                              *)

\* A pair needed no confirmation, or was confirmed.
Agrees(d, r, b, c, v, i) ==
  LET read == RequestSafetyLimits(d, r.configured, r.runtime.resource, r.alias, b.name, c) IN
  read.ok /\ (r.confirm \/ ~NeedsConfirmation(read.limits, v, i))

\* What remains of a session switches on what was checked and confirmed.
Shining ==
  /\ Lit(request, bench, checked, confirmed, todo)
  /\ \A k \in confirmed : k[4] \in Docs /\ Agrees(k[4], request, bench, k[1], k[2], k[3])

LightInv ==
  /\ pc \in {"import", "idle", "received", "admitted", "opening"} => confirmed = {}
  /\ pc \in {"opening"} \cup Sessions /\ IsRestore(request) => request.confirm
  /\ pc = "session" => Shining
  /\ pc = "unwinding" => IsTable(todo) /\ \A x \in ToSet(todo) : x[1] # "on"

\* Whether a script is lit depends on the request and what is known of its work.
LEMMA LitKept ==
  ASSUME UNCHANGED <<registry, request>>, Lit(request, bench', checked', confirmed', todo')
  PROVE  Lit(request, bench, checked, confirmed, todo)'
<1>1. SessionChannels(request, bench)' = SessionChannels(request, bench')
  BY DEF SessionChannels, Detected
<1>2. ASSUME NEW n \in 1..Len(todo'), NEW c, Lights(request, bench, todo[n], c)'
      PROVE  Lights(request, bench', todo'[n], c)
  BY <1>1, <1>2 DEF Lights
<1>3. ASSUME NEW n \in 1..Len(todo'), NEW c, Lights(request, bench, todo[n], c)'
      PROVE  \E v, i : /\ ProgrammedAt(bench, todo, n - 1, c, "voltage", v)'
                       /\ ProgrammedAt(bench, todo, n - 1, c, "current", i)'
                       /\ Granted(request, checked, confirmed, todo, n - 1, c, v, i)'
  BY <1>2, <1>3 DEF Lit
<1> QED
  BY <1>3 DEF Lit

\* An agreement is about what an instrument answers to *IDN?.
LEMMA AgreesKept ==
  ASSUME UNCHANGED request, bench'.name = bench.name,
         NEW k, Agrees(k[4], request, bench, k[1], k[2], k[3])
  PROVE  Agrees(k[4], request, bench, k[1], k[2], k[3])'
BY DEF Agrees

\* A session starts with a script that is lit.
LEMMA OpenLights == ASSUME IdentityInv, TypedInv, WorkInv, LightInv, Open PROVE LightInv'
<1>1. PICK b \in Benches :
        /\ bench' = b
        /\ IF IdentityHolds(request, b) /\ ChannelsSupported(request, b) /\ LoopTimingHolds(request)
           THEN pc' = "session" /\ todo' = StepsOf(request, b)
           ELSE pc' = "refused" /\ UNCHANGED todo
  BY DEF Open
<1>2. pc = "opening" /\ UNCHANGED <<registry, request, enabled, checked, confirmed>>
  BY DEF Open
<1>3. checked = {} /\ confirmed = {}
  BY <1>2 DEF WorkInv, LightInv
<1>4. CASE pc' = "session"
  <2>1. IdentityHolds(request, b) /\ ChannelsSupported(request, b) /\ todo' = StepsOf(request, b)
    BY <1>1, <1>4
  <2>2. Ready(request)
    BY <1>2 DEF TypedInv
  <2>3. Identified'
    <3>1. IdentityInv'
      BY OpenIdentifies
    <3> QED
      BY <1>4, <3>1 DEF IdentityInv, Sessions
  <2>4. b.model = Detected(b)
    BY <1>1, <1>2, <2>3 DEF Identified, Detected
  <2>5. \A c \in DOMAIN b.on : b.voltage[c] \in Int /\ b.current[c] \in Int
    BY BenchesAssumption
  <2>6. Lit(request, b, {}, {}, StepsOf(request, b))
    BY <2>1, <2>2, <2>4, <2>5, StepsLit
  <2>7. Lit(request, bench', checked', confirmed', todo')
    BY <1>1, <1>2, <1>3, <2>1, <2>6
  <2>8. Shining'
    BY <1>2, <1>3, <2>7, LitKept DEF Shining
  <2>9. IsRestore(request)' => request'.confirm
    BY <1>2 DEF LightInv, IsRestore
  <2> QED
    BY <1>4, <2>8, <2>9 DEF LightInv
<1>5. CASE pc' = "refused"
  BY <1>5 DEF LightInv, Sessions
<1> QED
  BY <1>1, <1>4, <1>5

\* A check that is passed is recorded, and what remains stays lit.
LEMMA ChecksLight ==
  ASSUME IdentityInv, TypedInv, LightInv, CheckLimits \/ CheckRestore \/ CheckConfirmation \/ CheckChannel
  PROVE  LightInv'
<1> DEFINE x == todo[1]
<1>1. /\ pc = "session" /\ todo # <<>> /\ UNCHANGED <<registry, doc, request, bench, enabled>>
      /\ \/ pc' = "refused"
         \/ pc' = "session" /\ todo' = Tail(todo)
      /\ x[1] \in {"limits", "fit", "confirm", "channel"}
  BY DEF CheckLimits, CheckRestore, CheckConfirmation, CheckChannel, Check
<1>2. Shining /\ (IsRestore(request) => request.confirm)
  BY <1>1 DEF LightInv, Sessions
<1>3. CASE pc' = "refused"
  BY <1>3 DEF LightInv, Sessions
<1>4. ASSUME pc' = "session", checked \subseteq checked', confirmed \subseteq confirmed',
             \A c, v, i : x = <<"limits", c, v, i>> => \E k \in checked' : <<k[1], k[2], k[3]>> = <<c, v, i>>,
             \A c, v, i : x = <<"confirm", c, v, i>> => \E k \in confirmed' : <<k[1], k[2], k[3]>> = <<c, v, i>>,
             x[1] = "fit" /\ request.command = "restore-from-snapshot" =>
               LET d == request.parameters["document"][2] IN
               RestoreSetpointsFit(d, RestoreChannels(d, request.parameters["channel"])),
             \A k \in confirmed' \ confirmed : k[4] \in Docs /\ Agrees(k[4], request, bench, k[1], k[2], k[3])
      PROVE  LightInv'
  <2>1. todo' = Tail(todo)
    BY <1>1, <1>4
  <2>2. SameOutputs(bench, bench)
    BY DEF SameOutputs
  <2>3. \A c \in DOMAIN bench.on : \A kind \in Kinds :
          bench[kind][c] = IF Sets(todo[1], kind, c) THEN Level(todo[1], kind) ELSE bench[kind][c]
    <3>1. \A c : \A kind \in Kinds : ~Sets(x, kind, c)
      BY <1>1 DEF Sets, Kinds
    <3> QED
      BY <3>1
  <2>4. Lit(request, bench, checked, confirmed, todo)
    BY <1>2 DEF Shining
  <2>5. Lit(request, bench, checked', confirmed', Tail(todo))
    BY <1>1, <1>4, <2>2, <2>3, <2>4, TailLit
  <2>6. Lit(request, bench, checked, confirmed, todo)'
    BY <1>1, <2>1, <2>5, LitKept
  <2>7. ASSUME NEW k \in confirmed'
        PROVE  k[4] \in Docs /\ Agrees(k[4], request, bench, k[1], k[2], k[3])'
    <3>1. k[4] \in Docs /\ Agrees(k[4], request, bench, k[1], k[2], k[3])
      BY <1>2, <1>4 DEF Shining
    <3> QED
      BY <1>1, <3>1, AgreesKept
  <2>8. Shining'
    BY <2>6, <2>7 DEF Shining
  <2>9. IsRestore(request)' => request'.confirm
    BY <1>1, <1>2 DEF IsRestore
  <2> QED
    BY <1>4, <2>8, <2>9 DEF LightInv
<1>5. CASE CheckLimits /\ pc' = "session"
  <2>1. /\ x[1] = "limits" /\ checked' = checked \cup {<<x[2], x[3], x[4], doc>>} /\ confirmed' = confirmed
    BY <1>5 DEF CheckLimits, Check, NextStep, Seen
  <2>2. ASSUME NEW c, NEW v, NEW i, x = <<"limits", c, v, i>>
        PROVE  \E k \in checked' : <<k[1], k[2], k[3]>> = <<c, v, i>>
    <3>1. <<c, v, i, doc>> \in checked'
      BY <2>1, <2>2
    <3> WITNESS <<c, v, i, doc>> \in checked'
    <3> QED
      OBVIOUS
  <2>3. \A c, v, i : x # <<"confirm", c, v, i>>
    BY <2>1
  <2> HIDE DEF x
  <2> QED
    BY <1>4, <1>5, <2>1, <2>2, <2>3
<1>6. CASE CheckRestore /\ pc' = "session"
  <2> DEFINE d == request.parameters["document"][2]
  <2>1. /\ x[1] = "fit" /\ checked' = checked /\ confirmed' = confirmed
        /\ RestoreSetpointsFit(d, SessionChannels(request, bench))
    BY <1>6 DEF CheckRestore, Check
  <2>2. request.command = "restore-from-snapshot" =>
          RestoreSetpointsFit(d, RestoreChannels(d, request.parameters["channel"]))
    BY <2>1 DEF SessionChannels
  <2>3. \A c, v, i : x # <<"limits", c, v, i>> /\ x # <<"confirm", c, v, i>>
    BY <2>1
  <2> HIDE DEF x
  <2> QED
    BY <1>4, <1>6, <2>1, <2>2, <2>3
<1>7. CASE CheckConfirmation /\ pc' = "session"
  <2>1. /\ x[1] = "confirm" /\ confirmed' = confirmed \cup {<<x[2], x[3], x[4], doc>>} /\ checked' = checked
        /\ Agrees(doc, request, bench, x[2], x[3], x[4])
    BY <1>7 DEF CheckConfirmation, Check, NextStep, Seen, Read, SafetyLimits, Agrees
  <2>2. ASSUME NEW c, NEW v, NEW i, x = <<"confirm", c, v, i>>
        PROVE  \E k \in confirmed' : <<k[1], k[2], k[3]>> = <<c, v, i>>
    <3>1. <<c, v, i, doc>> \in confirmed'
      BY <2>1, <2>2
    <3> WITNESS <<c, v, i, doc>> \in confirmed'
    <3> QED
      OBVIOUS
  <2>3. \A c, v, i : x # <<"limits", c, v, i>>
    BY <2>1
  <2>4. doc \in Docs
    BY DEF TypedInv
  <2>5. \A k \in confirmed' \ confirmed : k[4] \in Docs /\ Agrees(k[4], request, bench, k[1], k[2], k[3])
    BY <2>1, <2>4
  <2> HIDE DEF x
  <2> QED
    BY <1>4, <1>7, <2>1, <2>2, <2>3, <2>5
<1>8. CASE CheckChannel /\ pc' = "session"
  <2>1. x[1] = "channel" /\ checked' = checked /\ confirmed' = confirmed
    BY <1>8 DEF CheckChannel, Check
  <2>2. \A c, v, i : x # <<"limits", c, v, i>> /\ x # <<"confirm", c, v, i>>
    BY <2>1
  <2> HIDE DEF x
  <2> QED
    BY <1>4, <1>8, <2>1, <2>2
<1> QED
  BY <1>1, <1>3, <1>5, <1>6, <1>7, <1>8

\* A call leaves its channel what it sets, and the others what they were.
LEMMA EffectIs ==
  ASSUME NEW b, DOMAIN b = {"model", "maker", "name", "serial", "voltage", "current", "on"},
         DOMAIN b.voltage = DOMAIN b.on, DOMAIN b.current = DOMAIN b.on,
         NEW step, step[1] \in Writes
  PROVE  /\ SameOutputs(b, Effect(b, step))
         /\ \A c \in DOMAIN b.on : \A kind \in Kinds :
              Effect(b, step)[kind][c] = IF Sets(step, kind, c) THEN Level(step, kind) ELSE b[kind][c]
         /\ \A c \in DOMAIN b.on : Effect(b, step).on[c] /\ ~b.on[c] =>
              step[1] = "on" /\ c \in Switched(b, step[2])
<1>1. SameOutputs(b, Effect(b, step))
  BY EffectKeepsIdentity, EffectSets DEF SameOutputs
<1>2. ASSUME NEW c \in DOMAIN b.on
      PROVE  /\ Effect(b, step).voltage[c] = IF Sets(step, "voltage", c) THEN step[3] ELSE b.voltage[c]
             /\ Effect(b, step).current[c] = IF Sets(step, "current", c) THEN step[4] ELSE b.current[c]
  BY DEF Effect, Writes, Sets
<1>3. \A c \in DOMAIN b.on : Effect(b, step).on[c] /\ ~b.on[c] =>
        step[1] = "on" /\ c \in Switched(b, step[2])
  BY DEF Effect, Writes
<1> QED
  BY <1>1, <1>2, <1>3 DEF Kinds, Level

\* What follows a failure switches nothing on.
LEMMA FailureDark ==
  ASSUME Working, LightInv, pc \in Sessions, todo # <<>>
  PROVE  IsTable(AfterFailure) /\ \A x \in ToSet(AfterFailure) : x[1] # "on"
<1> DEFINE all == Ascending(DOMAIN bench.on)
           off == SwitchEach("off", all)
           undo == SwitchEach("off", enabled)
<1>1. IsTable(off) /\ \A x \in ToSet(off) : x[1] # "on"
  <2>1. IsFiniteSet(DOMAIN bench.on) /\ DOMAIN bench.on \subseteq Int
    BY DEF Working, Fitted
  <2>2. IsTable(all)
    BY <2>1, AscendingHasAll
  <2> HIDE DEF all
  <2> QED
    BY <2>2, SwitchesAre
<1>2. IsTable(undo) /\ \A x \in ToSet(undo) : x[1] # "on"
  <2>1. IsTable(enabled)
    BY DEF Working
  <2> QED
    BY <2>1, SwitchesAre
<1>3. IsTable(<<>>) /\ \A x \in ToSet(<<>>) : x[1] # "on"
  BY SmallTables
<1>4. pc = "unwinding" => IsTable(Tail(todo)) /\ \A x \in ToSet(Tail(todo)) : x[1] # "on"
  BY FirstAndRest DEF LightInv
<1>5. AfterFailure \in {off, undo, <<>>} \/ (AfterFailure = Tail(todo) /\ pc = "unwinding")
  BY DEF AfterFailure, Sessions
<1> HIDE DEF off, undo
<1> QED
  BY <1>1, <1>2, <1>3, <1>4, <1>5

\* A call that returns or raises leaves what remains lit, or dark.
LEMMA CallsLight == ASSUME IdentityInv, WorkInv, LightInv, Write \/ Raise \/ Reject PROVE LightInv'
<1>1. /\ pc \in Sessions /\ pc' \in Sessions /\ todo # <<>> /\ UNCHANGED <<registry, request, checked, confirmed>>
      /\ NextStep[1] \in Writes \/ NextStep[1] = "reject"
  BY DEF Write, Raise, Reject, Sessions
<1>2. Working /\ Identified
  BY <1>1 DEF WorkInv, IdentityInv
<1>3. IsRestore(request)' => request'.confirm
  BY <1>1 DEF LightInv, IsRestore
<1>4. CASE Raise \/ Reject
  <2>1. pc' = "unwinding" /\ todo' = AfterFailure
    BY <1>4 DEF Raise, Reject
  <2>2. IsTable(AfterFailure) /\ \A x \in ToSet(AfterFailure) : x[1] # "on"
    BY <1>1, <1>2, FailureDark
  <2> QED
    BY <1>3, <2>1, <2>2 DEF LightInv
<1>5. CASE Write /\ pc = "unwinding"
  <2>1. pc' = "unwinding" /\ todo' = Tail(todo)
    BY <1>5 DEF Write
  <2>2. IsTable(Tail(todo)) /\ \A x \in ToSet(Tail(todo)) : x[1] # "on"
    BY <1>1, <1>5, FirstAndRest DEF LightInv
  <2> QED
    BY <1>3, <2>1, <2>2 DEF LightInv
<1>6. CASE Write /\ pc = "session"
  <2>1. pc' = "session" /\ todo' = Tail(todo) /\ NextStep[1] \in Writes /\ bench' = Effect(bench, NextStep)
    BY <1>6 DEF Write
  <2>2. Shining
    BY <1>6 DEF LightInv
  <2>3. /\ SameOutputs(bench, bench')
        /\ \A c \in DOMAIN bench.on : \A kind \in Kinds :
             bench'[kind][c] = IF Sets(todo[1], kind, c) THEN Level(todo[1], kind) ELSE bench[kind][c]
    <3>1. DOMAIN bench.voltage = DOMAIN bench.on /\ DOMAIN bench.current = DOMAIN bench.on
      BY <1>2 DEF Working, Fitted
    <3>2. DOMAIN bench = {"model", "maker", "name", "serial", "voltage", "current", "on"}
      BY <1>2 DEF Identified
    <3> QED
      BY <2>1, <3>1, <3>2, EffectIs DEF NextStep
  <2>4. \A c, v, i : todo[1] # <<"limits", c, v, i>> /\ todo[1] # <<"confirm", c, v, i>>
    BY <2>1 DEF Writes, NextStep
  <2>5. todo[1][1] # "fit"
    BY <2>1 DEF Writes, NextStep
  <2>6. Lit(request, bench, checked, confirmed, todo)
    BY <2>2 DEF Shining
  <2>7. Lit(request, bench', checked, confirmed, Tail(todo))
    BY <1>1, <2>3, <2>4, <2>5, <2>6, TailLit
  <2>8. Lit(request, bench, checked, confirmed, todo)'
    BY <1>1, <2>1, <2>7, LitKept
  <2>9. \A k \in confirmed : k[4] \in Docs /\ Agrees(k[4], request, bench, k[1], k[2], k[3])'
    BY <1>1, <2>2, <2>3, AgreesKept DEF Shining, SameOutputs
  <2>10. Shining'
    BY <1>1, <2>8, <2>9 DEF Shining
  <2> QED
    BY <1>3, <2>1, <2>10 DEF LightInv
<1> QED
  BY <1>1, <1>4, <1>5, <1>6 DEF Sessions

\* Only a confirmed restore opens an instrument.
LEMMA RestoreConfirmed ==
  ASSUME NEW r, IsRestore(r), Dispatch(r) = "opening"
  PROVE  r.confirm
BY DEF Dispatch, IsRestore, IsOutput, DirectOutputCommands

\* The other steps do nothing with the instrument.
LEMMA OtherStepsLight ==
  ASSUME LightInv,
         Import \/ Receive \/ Admit \/ Start \/ Return \/ NextRequest \/ EditFiles \/ UNCHANGED vars
  PROVE  LightInv'
<1>1. CASE Import \/ Receive \/ Return \/ NextRequest
  BY <1>1 DEF Import, Receive, Return, NextRequest, LightInv, Sessions
<1>2. CASE Admit
  <2>1. pc = "received" /\ pc' \in {"admitted", "refused"} /\ UNCHANGED confirmed
    BY <1>2 DEF Admit
  <2> QED
    BY <2>1 DEF LightInv, Sessions
<1>3. CASE Start
  <2>1. \A s : Dispatch(s) \in {"planned", "refused", "dispatched", "opening"}
    BY DEF Dispatch, Opening
  <2>2. /\ pc = "admitted" /\ UNCHANGED confirmed
        /\ pc' = "refused" \/ pc' = Dispatch(request')
    BY <1>3 DEF Start
  <2>3. pc' \in {"planned", "refused", "dispatched", "opening"} /\ confirmed' = {}
    BY <2>1, <2>2 DEF LightInv
  <2>4. IsRestore(request') /\ pc' = "opening" => request'.confirm
    BY <2>2, RestoreConfirmed
  <2> QED
    BY <2>3, <2>4 DEF LightInv, Sessions, IsRestore
<1>4. CASE EditFiles \/ UNCHANGED vars
  <2>1. UNCHANGED <<registry, request, pc, bench, todo, checked, confirmed>>
    BY <1>4 DEF EditFiles, vars
  <2>2. ASSUME Shining PROVE Shining'
    <3>1. Lit(request, bench, checked, confirmed, todo)'
      BY <2>1, <2>2, LitKept DEF Shining
    <3>2. \A k \in confirmed : k[4] \in Docs /\ Agrees(k[4], request, bench, k[1], k[2], k[3])'
      BY <2>1, <2>2, AgreesKept DEF Shining
    <3> QED
      BY <2>1, <3>1, <3>2 DEF Shining
  <2> QED
    BY <2>1, <2>2 DEF LightInv, IsRestore
<1> QED
  BY <1>1, <1>2, <1>3, <1>4

\* It holds in every reachable state.
LEMMA LightKept == Spec => []LightInv
<1>1. Init => LightInv
  BY DEF Init, LightInv, Sessions
<1>2. LimitsInv /\ LightInv /\ [Next]_vars => LightInv'
  BY OpenLights, ChecksLight, CallsLight, OtherStepsLight DEF Next, LimitsInv
<1>3. Spec => []LimitsInv
  BY LimitsKept
<1> QED
  BY <1>1, <1>2, <1>3, PTL DEF Spec

\* What EnabledChecked asks of a step.
EnabledStep ==
  request' = request /\ pc \in Sessions =>
    \A c \in SwitchedOn :
      LET v == bench.voltage[c]
          i == bench.current[c]
      IN /\ Rated(c, v, i)
         /\ request.configured /\ ~request.confirm /\ request.command # "sequence" =>
              \E k \in confirmed :
                /\ <<k[1], k[2], k[3]>> = <<c, v, i>>
                /\ v > 0 /\ i > 0 =>
                     /\ ~Above(v, Stated(k[4], request, c, "confirm_above_voltage"))
                     /\ ~Above(i, Stated(k[4], request, c, "confirm_above_current"))

\* A pair that was granted is rated, and was agreed on where that is asked for.
LEMMA GrantedIsSafe ==
  ASSUME Working, Identified, Shining, IsRestore(request) => request.confirm,
         NEW c \in DOMAIN bench.on, NEW v, NEW i, Granted(request, checked, confirmed, todo, 0, c, v, i)
  PROVE  /\ Rated(c, v, i)
         /\ request.configured /\ ~request.confirm /\ request.command # "sequence" =>
              \E k \in confirmed :
                /\ <<k[1], k[2], k[3]>> = <<c, v, i>>
                /\ v > 0 /\ i > 0 =>
                     /\ ~Above(v, Stated(k[4], request, c, "confirm_above_voltage"))
                     /\ ~Above(i, Stated(k[4], request, c, "confirm_above_current"))
<1> DEFINE d == request.parameters["document"][2]
           channels == RestoreChannels(d, request.parameters["channel"])
<1>1. \/ /\ v \in Int /\ i \in Int
         /\ \E k \in checked : <<k[1], k[2], k[3]>> = <<c, v, i>>
         /\ Asks(request) => \E k \in confirmed : <<k[1], k[2], k[3]>> = <<c, v, i>>
      \/ Remembered(request, c, v, i) /\ RestoreSetpointsFit(d, channels)
  <2>1. \A m \in 1..0 : FALSE
    OBVIOUS
  <2> QED
    BY <2>1 DEF Granted
<1>2. CASE /\ v \in Int /\ i \in Int
           /\ \E k \in checked : <<k[1], k[2], k[3]>> = <<c, v, i>>
           /\ Asks(request) => \E k \in confirmed : <<k[1], k[2], k[3]>> = <<c, v, i>>
  <2>1. PICK k \in checked : k[1] = c /\ k[2] = v /\ k[3] = i
    BY <1>2
  <2>2. Rated(c, v, i)
    BY <1>2, <2>1, CheckedIsWithin
  <2>3. ASSUME request.configured, ~request.confirm, request.command # "sequence"
        PROVE  \E q \in confirmed :
                 /\ <<q[1], q[2], q[3]>> = <<c, v, i>>
                 /\ v > 0 /\ i > 0 =>
                      /\ ~Above(v, Stated(q[4], request, c, "confirm_above_voltage"))
                      /\ ~Above(i, Stated(q[4], request, c, "confirm_above_current"))
    <3>1. Asks(request)
      BY <2>3 DEF Asks, IsRestore
    <3>2. PICK q \in confirmed : <<q[1], q[2], q[3]>> = <<c, v, i>>
      BY <1>2, <3>1
    <3>3. q[1] = c /\ q[2] = v /\ q[3] = i
      BY <3>2
    <3>4. q[4] \in Docs /\ Agrees(q[4], request, bench, c, v, i)
      BY <3>3 DEF Shining
    <3> DEFINE read == RequestSafetyLimits(q[4], request.configured, request.runtime.resource, request.alias,
                                           bench.name, c)
    <3>5. read.ok /\ ~NeedsConfirmation(read.limits, v, i)
      BY <2>3, <3>4 DEF Agrees
    <3>6. bench.name # NoValue
      BY DEF Working, Fitted
    <3>7. ASSUME v > 0, i > 0
          PROVE  /\ Within(v, read.limits, "confirm_above_voltage")
                 /\ Within(i, read.limits, "confirm_above_current")
      BY <3>5, <3>7 DEF NeedsConfirmation
    <3>8. ASSUME v > 0, i > 0 PROVE ~Above(v, Stated(q[4], request, c, "confirm_above_voltage"))
      BY <1>2, <2>3, <3>4, <3>5, <3>6, <3>7, <3>8, PassedNotAbove
    <3>9. ASSUME v > 0, i > 0 PROVE ~Above(i, Stated(q[4], request, c, "confirm_above_current"))
      BY <1>2, <2>3, <3>4, <3>5, <3>6, <3>7, <3>9, PassedNotAbove
    <3> QED
      BY <3>2, <3>8, <3>9
  <2> QED
    BY <2>2, <2>3
<1>3. CASE Remembered(request, c, v, i) /\ RestoreSetpointsFit(d, channels)
  <2>1. /\ request.command = "restore-from-snapshot" /\ c \in ToSet(channels)
        /\ v = RecordOf(d.readback, c).voltage /\ i = RecordOf(d.readback, c).current
    BY <1>3 DEF Remembered
  <2>2. ValidateEffectiveSetpoint(d.resolved, NoLimits, c, v, i)
    BY <1>3, <2>1 DEF RestoreSetpointsFit
  <2>3. bench.model = d.resolved
    BY <2>1 DEF Identified, SameInstrument
  <2>4. Numbers(NoLimits)
    BY DEF Numbers, NoLimits
  <2>5. request.confirm
    BY <2>1 DEF IsRestore
  <2> HIDE DEF d, channels
  <2>6. Rated(c, v, i)
    BY <2>2, <2>3, <2>4, PassedIsRated DEF Working, Fitted
  <2> QED
    BY <2>5, <2>6
<1> QED
  BY <1>1, <1>2, <1>3

\* Every step switches on only what was checked.
LEMMA StepsEnable == ASSUME LimitsInv, LightInv, [Next]_vars PROVE EnabledStep
<1> SUFFICES ASSUME pc \in Sessions, request' = request, NEW c \in SwitchedOn
             PROVE  LET v == bench.voltage[c]
                        i == bench.current[c]
                    IN /\ Rated(c, v, i)
                       /\ request.configured /\ ~request.confirm /\ request.command # "sequence" =>
                            \E k \in confirmed :
                              /\ <<k[1], k[2], k[3]>> = <<c, v, i>>
                              /\ v > 0 /\ i > 0 =>
                                   /\ ~Above(v, Stated(k[4], request, c, "confirm_above_voltage"))
                                   /\ ~Above(i, Stated(k[4], request, c, "confirm_above_current"))
  BY DEF EnabledStep
<1>1. Working /\ Identified /\ (IsRestore(request) => request.confirm)
  BY DEF LimitsInv, WorkInv, IdentityInv, LightInv
<1>2. /\ c \in ToSet(SessionChannels(request, bench)) /\ c \in DOMAIN bench.on
      /\ bench'.on[c] /\ ~bench.on[c] /\ (request.command = "sequence" => c = NextStep[2])
  BY DEF SwitchedOn
<1>3. (Write \/ Raise) /\ todo # <<>> /\ NextStep[1] \in Writes /\ bench' = Effect(bench, NextStep)
  <2>1. bench' # bench
    BY <1>2
  <2>2. pc \notin {"opening", "refused", "planned", "dispatched", "done", "failed"}
    BY DEF Sessions
  <2> QED
    BY <2>1, <2>2 DEF Next, vars, Import, Receive, Admit, Start, Open, CheckLimits, CheckRestore,
       CheckConfirmation, CheckChannel, Check, Write, Raise, Reject, Return, NextRequest, EditFiles
<1>4. NextStep[1] = "on" /\ c \in Switched(bench, NextStep[2])
  <2>1. DOMAIN bench.voltage = DOMAIN bench.on /\ DOMAIN bench.current = DOMAIN bench.on
    BY <1>1 DEF Working, Fitted
  <2>2. DOMAIN bench = {"model", "maker", "name", "serial", "voltage", "current", "on"}
    BY <1>1 DEF Identified
  <2> QED
    BY <1>2, <1>3, <2>1, <2>2, EffectIs
<1>5. Shining
  <2>1. CASE pc = "unwinding"
    <3>1. NextStep \in ToSet(todo)
      BY <1>3, <2>1, FirstAndRest DEF LightInv, NextStep
    <3> QED
      BY <1>4, <2>1, <3>1 DEF LightInv
  <2>2. CASE pc = "session"
    BY <2>2 DEF LightInv
  <2> QED
    BY <2>1, <2>2 DEF Sessions
<1>6. Lights(request, bench, todo[1], c)
  BY <1>2, <1>4 DEF Lights, NextStep
<1>7. 1 \in 1..Len(todo)
  BY <1>3, <1>5, FirstAndRest, LenProperties, EmptySeq DEF Shining, Lit, IsTable
<1>8. PICK v, i : /\ ProgrammedAt(bench, todo, 1 - 1, c, "voltage", v)
                  /\ ProgrammedAt(bench, todo, 1 - 1, c, "current", i)
                  /\ Granted(request, checked, confirmed, todo, 1 - 1, c, v, i)
  BY <1>5, <1>6, <1>7 DEF Shining, Lit
<1>9. v = bench.voltage[c] /\ i = bench.current[c]
  <2>1. \A m \in 1..1 - 1 : FALSE
    OBVIOUS
  <2>2. v = bench["voltage"][c] /\ i = bench["current"][c]
    BY <1>8, <2>1 DEF ProgrammedAt, LastSet
  <2> QED
    BY <2>2
<1>10. Granted(request, checked, confirmed, todo, 0, c, v, i)
  BY <1>8
<1> QED
  BY <1>1, <1>2, <1>5, <1>9, <1>10, GrantedIsSafe

\* A requested channel is switched on only with setpoints that are rated
\* together and that, unless the request is confirmed, asked for no
\* confirmation.
THEOREM EnabledIsChecked == Spec => EnabledChecked
<1>1. LimitsInv /\ LightInv /\ [Next]_vars => [EnabledStep]_vars
  BY StepsEnable
<1>2. Spec => []LimitsInv
  BY LimitsKept
<1>3. Spec => []LightInv
  BY LightKept
<1> QED
  BY <1>1, <1>2, <1>3, PTL DEF Spec, EnabledChecked, EnabledStep
=============================================================================
