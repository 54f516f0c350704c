------------------------------ MODULE Identity ------------------------------
(***************************************************************************)
(* Which physical model an instrument is: the vendor-qualified registry,   *)
(* the resolution of the manufacturer and the model an instrument reports, *)
(* the driver they select, and the identity a request expects or plans     *)
(* with.                                                                   *)
(*                                                                         *)
(* A reported name stands for its normalized form.  A registry is          *)
(*   vendors: sequence of [id, names], names the canonical manufacturer    *)
(*            followed by its aliases;                                     *)
(*   models:  sequence of [id, vendor, names, makers], names the canonical *)
(*            model followed by its aliases, makers the manufacturer       *)
(*            aliases accepted for that model alone.                       *)
(***************************************************************************)
EXTENDS Integers, Sequences, FiniteSets, SequencesExt

CONSTANTS
  Words,             \* vendor or model id -> the words its hyphens separate
  ActiveModels,      \* product-active and candidate models
  DeScoped,          \* known models the project no longer supports
  Drivers,           \* the models with a driver of their own
  ModelChannels,     \* active model or profile -> its output channels
  SimulatedResource, \* active model -> its deterministic simulator resource
  SimulatedModel,    \* known simulator resource -> the model of its IDN
  Profile,           \* the planning profile generic-scpi
  NoModel            \* no identity: none asked for, or none resolved

Unparsed == "unparsed"    \* an IDN with an empty field

\* Channels in their order.
Ascending(channels) ==
  [k \in 1..Cardinality(channels) |->
     CHOOSE c \in channels : Cardinality({d \in channels : d < c}) = k - 1]

-----------------------------------------------------------------------------
(* The registry checks of the import *)

Ids(entries) == {entries[i].id : i \in DOMAIN entries}

\* The names of all entries, with a name per occurrence.
NamesAt(entries) == UNION {{<<i, k>> : k \in DOMAIN entries[i].names} : i \in DOMAIN entries}

NameAt(entries, at) == entries[at[1]].names[at[2]]

VendorsIndexed(vendors) ==
  /\ Cardinality(Ids(vendors)) = Len(vendors)
  /\ \A v \in ToSet(vendors) : v.names # <<>>
  /\ \A a, b \in NamesAt(vendors) : a # b => NameAt(vendors, a) # NameAt(vendors, b)

\* The vendor whose id is the longest one that a model id starts with.
OwnsId(vendors, vendor, id) ==
  /\ IsStrictPrefix(Words[vendor], Words[id])
  /\ \A other \in Ids(vendors) :
       IsStrictPrefix(Words[other], Words[id]) => Len(Words[other]) <= Len(Words[vendor])

\* Within a vendor a model name or alias belongs to one model.
ModelNamesUnique(models) ==
  \A a, b \in NamesAt(models) :
    a # b /\ models[a[1]].vendor = models[b[1]].vendor
      => NameAt(models, a) # NameAt(models, b)

ModelsIndexed(vendors, models) ==
  /\ Cardinality(Ids(models)) = Len(models)
  /\ \A m \in ToSet(models) :
       /\ m.id # Profile
       /\ m.vendor \in Ids(vendors)
       /\ m.names # <<>>
       /\ OwnsId(vendors, m.vendor, m.id)
  /\ ModelNamesUnique(models)

\* A maker of one model alone is listed once, and is not another vendor's name,
\* nor the maker of another vendor's model.
MakersIndexed(vendors, models) ==
  \A m \in ToSet(models) :
    /\ Cardinality(ToSet(m.makers)) = Len(m.makers)
    /\ \A maker \in ToSet(m.makers) :
         /\ \A v \in ToSet(vendors) : maker \in ToSet(v.names) => v.id = m.vendor
         /\ \A other \in ToSet(models) : maker \in ToSet(other.makers) => other.vendor = m.vendor

IndexesBuilt(registry) ==
  /\ VendorsIndexed(registry.vendors)
  /\ ModelsIndexed(registry.vendors, registry.models)
  /\ MakersIndexed(registry.vendors, registry.models)

\* The registry holds exactly the registered and the de-scoped models, and
\* each canonical name has the id the inventory expects.
InventoryAgrees(registry, expected) ==
  /\ Ids(registry.models) = {expected[name] : name \in DOMAIN expected}
  /\ \A m \in ToSet(registry.models) :
       /\ m.names[1] \in DOMAIN expected
       /\ expected[m.names[1]] = m.id
  /\ Cardinality({m.names[1] : m \in ToSet(registry.models)}) = Len(registry.models)

-----------------------------------------------------------------------------
(* Resolution of what an instrument reports *)

\* A manufacturer name stands for a vendor and all its models, or for the
\* models that list it, whatever the order of the registrations.
VendorNamed(registry, maker) ==
  {v.id : v \in {w \in ToSet(registry.vendors) : maker \in ToSet(w.names)}}

RestrictedTo(registry, maker) == {m \in ToSet(registry.models) : maker \in ToSet(m.makers)}

\* A seeded error: an alias of one model is accepted for the vendor's others.
MakerAdmitsVendor(registry, maker, m) ==
  m.vendor \in VendorNamed(registry, maker) \cup {r.vendor : r \in RestrictedTo(registry, maker)}

MakerAdmits(registry, maker, m) ==
  IF VendorNamed(registry, maker) # {} THEN m.vendor \in VendorNamed(registry, maker)
  ELSE m \in RestrictedTo(registry, maker)

Resolved(registry, maker, name) ==
  LET Entry(i) == registry.models[i]
      found == {i \in DOMAIN registry.models :
                  name \in ToSet(Entry(i).names) /\ MakerAdmits(registry, maker, Entry(i))}
  IN IF maker = Unparsed \/ name = Unparsed \/ found = {} THEN NoModel ELSE Entry(Max(found)).id

\* The driver of the resolved model; the generic one for an identity that is
\* malformed, unknown or known without a driver.
Generic == "generic"

DriverFor(model) == IF model \in Drivers THEN model ELSE Generic

-----------------------------------------------------------------------------
(* The identities of a request *)

MaybeModel(id) == id = NoModel \/ id \in ActiveModels

\* A known simulator resource names its model.
InferredModel(resource) ==
  IF resource \in DOMAIN SimulatedModel THEN SimulatedModel[resource] ELSE NoModel

ReconcilePlanningModel(planned, resource) ==
  IF planned # NoModel THEN planned ELSE InferredModel(resource)

PlanningModelsAgree(planned, resource) ==
  /\ MaybeModel(InferredModel(resource))
  /\ NoModel \in {planned, InferredModel(resource)} \/ planned = InferredModel(resource)

ExecutionMode(runtime) == runtime.mode

ValidateRuntimeIdentity(runtime) ==
  /\ MaybeModel(runtime.planning) /\ MaybeModel(runtime.expected)
  /\ runtime.profile \in {NoModel, Profile}
  /\ CASE ExecutionMode(runtime) = "dry_run" ->
            /\ runtime.expected = NoModel
            /\ NoModel \in {runtime.planning, runtime.profile}
            /\ runtime.profile # NoModel => InferredModel(runtime.resource) = NoModel
            /\ PlanningModelsAgree(runtime.planning, runtime.resource)
       [] ExecutionMode(runtime) = "simulate" ->
            /\ runtime.expected = NoModel
            /\ runtime.profile = NoModel
            /\ PlanningModelsAgree(runtime.planning, runtime.resource)
       [] OTHER -> runtime.planning = NoModel /\ runtime.profile = NoModel

\* Without hardware a request plans with a model or, in a dry run, with the
\* profile; a simulated one uses a simulator resource.
NoHardwareResolves(runtime) ==
  LET model == ReconcilePlanningModel(runtime.planning, runtime.resource) IN
  /\ ValidateRuntimeIdentity(runtime)
  /\ runtime.mode # "live" => model # NoModel \/ runtime.profile # NoModel
  /\ runtime.mode = "simulate" =>
       /\ model # NoModel
       /\ runtime.resource = NoModel \/ InferredModel(runtime.resource) # NoModel

ResolveNoHardware(runtime) ==
  LET model == ReconcilePlanningModel(runtime.planning, runtime.resource) IN
  IF runtime.mode = "live" THEN runtime
  ELSE [runtime EXCEPT
          !.planning = model,
          !.resource = IF runtime.mode = "simulate" /\ @ = NoModel
                       THEN SimulatedResource[model] ELSE @]

NoHardwareChannels(runtime) ==
  ModelChannels[IF runtime.profile # NoModel THEN runtime.profile ELSE runtime.planning]

\* The guard of a live request: the model found is the one expected.
ValidateExpectedModel(expected, detected) == expected # NoModel => detected = expected
=============================================================================
