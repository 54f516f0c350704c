--------------------------- MODULE SupportPolicy ---------------------------
(***************************************************************************)
(* The exact live-support policy of Core: which command may be sent to     *)
(* which model over which transport and VISA backend.                      *)
(*                                                                         *)
(* The policy is a registry that the maintainers edit: model policies that *)
(* hold command policies that hold exact scopes that hold feature scopes.  *)
(* A scope that is open to the product cites evidence records of a second  *)
(* registry.  Importing the package validates both; every live request     *)
(* then goes through ensure_live_scope_supported, and the user interface   *)
(* shows exact_live_support_metadata, a projection computed on its own.    *)
(*                                                                         *)
(* Text is abstracted: a note is the fact that there is one, a feature is  *)
(* one value for its kind and its name, an evidence record's paths and     *)
(* dates are the facts that they are well formed.                          *)
(***************************************************************************)
EXTENDS Integers, Sequences, FiniteSets

CONSTANTS
  ProductModels,       \* the product-active models
  CandidateModels,     \* the candidates of live validation
  DeScopedModels,      \* known models the project no longer supports
  CatalogModels,       \* known models without any runtime support
  Generic,             \* the planning profile generic-scpi
  Governed,            \* the commands under the policy
  Exempt,              \* the diagnostic commands, which bypass it
  Offline,             \* the utilities that open no instrument
  Real,                \* model -> the governed commands its driver can run
  Inventory,           \* model -> command -> the features requests can ask for
  Canonical,           \* spelling of a feature -> the feature, or NoFeature
  NoFeature,
  BackendNames,        \* the backends a request can name
  Requirements,        \* the sets of features a request can ask for
  EvidenceIds,
  BuiltEvidence,       \* the evidence records of the repository
  ValidatedTransports, \* model -> the transports of its full suites
  ValidatedCommands,   \* model -> the commands of its full suites
  EvidenceOf,          \* model, transport, command -> the accepted record
  PyvisaPyEvidence,    \* model -> the pyvisa-py record, for the models with one
  PyvisaPyFeatures,    \* model -> command -> the features of that record
  PendingConnections,  \* candidate -> the transport/backend pairs pending
  PendingCommands,     \* candidate -> the commands pending
  RatingCompatible,    \* product models with range-dependent ratings
  MaxEdits             \* bound: edits the maintainers make before the import

ASSUME FeaturesAssumption == Requirements \subseteq SUBSET DOMAIN Canonical

\* The governed commands are those of the contract without the other two kinds.
ASSUME CommandsAssumption == Governed \cap (Exempt \cup Offline) = {}

\* A registered model has one stage, and a de-scoped one is not registered.
ASSUME ModelsAssumption ==
  /\ ProductModels \cap CandidateModels = {}
  /\ (ProductModels \cup CandidateModels) \cap DeScopedModels = {}

\* A spelling the code does not know asks for no feature of the inventory.
ASSUME InventoryAssumption ==
  \A m \in ProductModels \cup CandidateModels, c \in Governed : NoFeature \notin Inventory[m][c]

ActiveModels == ProductModels \cup CandidateModels

Models == ActiveModels \cup DeScopedModels \cup CatalogModels \cup {Generic}

Commands == Governed \cup Exempt \cup Offline

Validated == "live_validated_full_suite"

TransportPending == "transport_pending"

FeaturePending == "feature_pending"

NotSupported == "not_supported_by_model"

ProfileValidated == "profile_validated"

CommandStatuses == {NotSupported, ProfileValidated}

ScopeStatuses == {Validated, TransportPending}

FeatureStatuses == {Validated, FeaturePending, NotSupported}

UnknownTransport == "unknown"

Transports == {"usb", "tcpip", "asrl", "gpib", UnknownTransport}

SystemVisa == "system_visa"

PyvisaPy == "pyvisa_py"

Backends == {SystemVisa, PyvisaPy, "pyvisa_bt", "custom_visa"}

Modes == {"product", "validation"}

(* A backend the code has no name for is a custom VISA.                    *)
NormalizeBackend(name) ==
  CASE name = ""                   -> SystemVisa
    [] name = "@py"                -> PyvisaPy
    [] name = "@bt"                -> "pyvisa_bt"
    [] name \in Backends           -> name
    [] OTHER                       -> "custom_visa"

NormalizeTransport(resource) ==
  IF resource \in Transports THEN resource ELSE UnknownTransport

(***************************************************************************)
(* Building the registry.                                                  *)
(***************************************************************************)

SetToSequence(S) ==
  CHOOSE s \in [1 .. Cardinality(S) -> S] : {s[i] : i \in DOMAIN s} = S

FeatureScopes(m, c, status) ==
  LET features == SetToSequence(Inventory[m][c])
  IN  [i \in DOMAIN features |->
        [feature |-> features[i], status |-> status,
         inherits |-> status = Validated, note |-> TRUE]]

PyvisaPyFeatureScopes(m, c) ==
  LET features == SetToSequence(Inventory[m][c])
      accepted(f) == f \in PyvisaPyFeatures[m][c]
  IN  [i \in DOMAIN features |->
        [feature |-> features[i],
         status |-> IF accepted(features[i]) THEN Validated ELSE FeaturePending,
         inherits |-> accepted(features[i]), note |-> TRUE]]

ValidatedScope(m, c, transport, backend, id, features) ==
  [status |-> Validated, transport |-> transport, backend |-> backend,
   accepted |-> <<id>>, basis |-> <<>>, note |-> TRUE, features |-> features]

(* Every full suite was run over the system VISA; a model with a pyvisa-py *)
(* record has a second scope on TCPIP.                                     *)
ProductScopes(m, c) ==
  LET transports == IF c \in ValidatedCommands[m] THEN ValidatedTransports[m] ELSE {}
      system(t) == ValidatedScope(m, c, t, SystemVisa, EvidenceOf[m][t][c],
                                  FeatureScopes(m, c, Validated))
      python    == ValidatedScope(m, c, "tcpip", PyvisaPy, PyvisaPyEvidence[m],
                                  PyvisaPyFeatureScopes(m, c))
  IN  SetToSequence({system(t) : t \in transports}
        \cup (IF "tcpip" \in transports /\ m \in DOMAIN PyvisaPyEvidence
                THEN {python} ELSE {}))

CandidateScopes(m, c) ==
  SetToSequence({[status |-> TransportPending, transport |-> t[1], backend |-> t[2],
                  accepted |-> <<>>, basis |-> <<>>, note |-> TRUE,
                  features |-> <<>>] :
                   t \in IF c \in PendingCommands[m] THEN PendingConnections[m] ELSE {}})

CommandPolicy(m, c) ==
  IF c \notin Real[m]
    THEN [command |-> c, status |-> NotSupported, scopes |-> <<>>, note |-> TRUE]
    ELSE LET scopes == IF m \in ProductModels THEN ProductScopes(m, c)
                                              ELSE CandidateScopes(m, c)
         IN  [command |-> c, status |-> ProfileValidated, scopes |-> scopes,
              note |-> scopes = <<>>]

BuiltRegistry ==
  LET policies == SetToSequence({<<m>> : m \in ActiveModels})
      commands == SetToSequence(Governed)
  IN  [i \in DOMAIN policies |->
        [model |-> policies[i][1],
         commands |-> [k \in DOMAIN commands |->
                         CommandPolicy(policies[i][1], commands[k])]]]

(***************************************************************************)
(* Validating the evidence and the registry, at import.                    *)
(***************************************************************************)

ElementsOf(s) == {s[i] : i \in DOMAIN s}

NoDuplicates(s) == \A i, j \in DOMAIN s : s[i] = s[j] => i = j

(* A full-suite record of the migration carries its history and no         *)
(* checksum; a later one carries the checksum and no history.              *)
ProvenanceSound(record) ==
  /\ record.wellFormed
  /\ IF record.kind = "full_suite"
       THEN ~record.checksum /\ record.history
       ELSE record.checksum /\ ~record.history

(* validate_support_evidence_registry.                                     *)
EvidenceSound(ev) ==
  \A id \in DOMAIN ev :
    /\ ev[id].id = id
    /\ ev[id].model \in Models \ {Generic}
    /\ ev[id].transport \in Transports \ {UnknownTransport}
    /\ ev[id].backend \in Backends \ {"pyvisa_bt"}
    /\ ProvenanceSound(ev[id])
    /\ ev[id].commands # {}
    /\ \A c \in DOMAIN ev[id].features : c \in ev[id].commands

(* A seeded error: the backend of an accepted record is not compared.      *)
AcceptedAnyBackend(m, c, scope, ev) ==
  \A i \in DOMAIN scope.accepted :
    LET id == scope.accepted[i]
    IN  /\ id \in DOMAIN ev
        /\ ev[id].model = m
        /\ ev[id].transport = scope.transport
        /\ c \in ev[id].commands

(* Every accepted record is about exactly this model, command, transport   *)
(* and backend, and about the features that inherit from it.               *)
AcceptedSound(m, c, scope, ev) ==
  \A i \in DOMAIN scope.accepted :
    LET id == scope.accepted[i]
    IN  /\ id \in DOMAIN ev
        /\ ev[id].model = m
        /\ ev[id].transport = scope.transport
        /\ ev[id].backend = scope.backend
        /\ c \in ev[id].commands
        /\ \A f \in DOMAIN scope.features :
             scope.features[f].status = Validated /\ scope.features[f].inherits =>
               /\ c \in DOMAIN ev[id].features
               /\ scope.features[f].feature \in ev[id].features[c]

(* A basis record only says why a candidate is worth trying: a pending     *)
(* pyvisa-py scope may cite the system-VISA suite of the same transport.   *)
BasisSound(m, c, scope, ev) ==
  \A i \in DOMAIN scope.basis :
    LET id == scope.basis[i]
    IN  /\ id \in DOMAIN ev
        /\ ev[id].model = m
        /\ ev[id].transport = scope.transport
        /\ c \in ev[id].commands
        /\ scope.status = TransportPending
        /\ scope.backend = PyvisaPy
        /\ ev[id].backend = SystemVisa

(* validate_live_feature_scope_metadata.                                   *)
FeaturesSound(m, scope, expected) ==
  /\ \A i, j \in DOMAIN scope.features :
       scope.features[i].feature = scope.features[j].feature => i = j
  /\ {scope.features[i].feature : i \in DOMAIN scope.features} = expected
  /\ \A i \in DOMAIN scope.features :
       LET f == scope.features[i]
       IN  /\ f.status \in FeatureStatuses
           /\ f.status = Validated =>
                scope.status = Validated /\ f.inherits /\ ElementsOf(scope.accepted) # {}
           /\ f.status # Validated => ~f.inherits
           /\ f.status = FeaturePending => f.note

ScopeSound(m, c, scope, ev) ==
  /\ scope.status \in ScopeStatuses
  /\ scope.transport \in Transports \ {UnknownTransport}
  /\ scope.backend \in Backends
  /\ scope.status = Validated <=> ElementsOf(scope.accepted) # {}
  /\ NoDuplicates(scope.accepted)
  /\ NoDuplicates(scope.basis)
  /\ ElementsOf(scope.accepted) \cap ElementsOf(scope.basis) = {}
  /\ scope.status = TransportPending => scope.note
  /\ FeaturesSound(m, scope, Inventory[m][c])
  /\ AcceptedSound(m, c, scope, ev)
  /\ BasisSound(m, c, scope, ev)

SameScope(s, t) == s.transport = t.transport /\ s.backend = t.backend

PolicySound(m, policy, ev) ==
  /\ policy.command \in Governed
  /\ policy.status \in CommandStatuses
  /\ policy.status = NotSupported => policy.scopes = <<>>
  /\ policy.status = ProfileValidated /\ policy.scopes = <<>> => policy.note
  /\ \A i, j \in DOMAIN policy.scopes :
       SameScope(policy.scopes[i], policy.scopes[j]) => i = j
  /\ \A i \in DOMAIN policy.scopes :
       ScopeSound(m, policy.command, policy.scopes[i], ev)

ModelSound(entry, ev) ==
  /\ entry.model \in ActiveModels
  /\ \A i, j \in DOMAIN entry.commands :
       entry.commands[i].command = entry.commands[j].command => i = j
  /\ {entry.commands[i].command : i \in DOMAIN entry.commands} = Governed
  /\ \A i \in DOMAIN entry.commands : PolicySound(entry.model, entry.commands[i], ev)

(* validate_live_support_metadata.                                         *)
RegistrySound(reg, ev) ==
  /\ EvidenceSound(ev)
  /\ \A i, j \in DOMAIN reg : reg[i].model = reg[j].model => i = j
  /\ {reg[i].model : i \in DOMAIN reg} = ActiveModels
  /\ \A i \in DOMAIN reg : ModelSound(reg[i], ev)

(***************************************************************************)
(* The gate of a live request.                                             *)
(***************************************************************************)

(* _model_policy, command_live_support and find_live_support_scope walk    *)
(* the registry and return the first match: the set holds it, or nothing.  *)
PoliciesOf(reg, m) ==
  {reg[i] : i \in {i \in DOMAIN reg :
     reg[i].model = m /\ \A j \in DOMAIN reg \ {i} : reg[j].model = m => i < j}}

CommandPolicies(entry, c) ==
  {entry.commands[i] : i \in {i \in DOMAIN entry.commands :
     /\ entry.commands[i].command = c
     /\ \A j \in DOMAIN entry.commands \ {i} : entry.commands[j].command = c => i < j}}

Lookup(reg, m, c) ==
  IF m \in ActiveModels
    THEN UNION {CommandPolicies(entry, c) : entry \in PoliciesOf(reg, m)}
    ELSE {}

ExactScopes(policy, transport, backend) ==
  {policy.scopes[i] : i \in {i \in DOMAIN policy.scopes :
     /\ policy.scopes[i].transport = transport
     /\ policy.scopes[i].backend = backend
     /\ \A j \in DOMAIN policy.scopes \ {i} :
          policy.scopes[j].transport = transport /\ policy.scopes[j].backend = backend
            => i < j}}

AllowedScope(mode) == IF mode = "product" THEN {Validated} ELSE ScopeStatuses

AllowedFeature(mode) ==
  IF mode = "product" THEN {Validated} ELSE {Validated, FeaturePending}

(* find_feature_support: one entry, exactly this feature, allowed here.    *)
FeatureAdmitted(scope, spelled, mode) ==
  LET f       == Canonical[spelled]
      matches == {i \in DOMAIN scope.features : scope.features[i].feature = f}
  IN  /\ f # NoFeature
      /\ \E i \in matches :
           matches = {i} /\ scope.features[i].status \in AllowedFeature(mode)

(* ensure_live_scope_supported: the scope the request runs under, if any.  *)
(* The list of internal validation candidates is empty in the repository.  *)
AdmittedScopes(reg, m, c, resource, backendName, mode, required) ==
  {scope \in UNION {ExactScopes(policy, NormalizeTransport(resource),
                                NormalizeBackend(backendName)) :
                      policy \in {p \in Lookup(reg, m, c) : p.status = ProfileValidated}} :
     /\ mode \in Modes
     /\ scope.status \in AllowedScope(mode)
     /\ \A spelled \in required : FeatureAdmitted(scope, spelled, mode)}

GateOpen(reg, m, c, resource, backendName, mode, required) ==
  AdmittedScopes(reg, m, c, resource, backendName, mode, required) # {}

(* _enforce_live_support: the diagnostics bypass the policy; a de-scoped   *)
(* model passes nothing else.                                              *)
LiveAllowed(reg, m, c, resource, backendName, mode, required) ==
  \/ c \in Exempt \cup Offline
  \/ /\ m \notin DeScopedModels
     /\ GateOpen(reg, m, c, resource, backendName, mode, required)

(***************************************************************************)
(* The projection the user interface shows for one exact connection.       *)
(***************************************************************************)

(* _public_command_policy: what the page is told of one scope.             *)
PublicScope(scope) ==
  [transport |-> scope.transport, backend |-> scope.backend,
   status |-> scope.status,
   features |-> [f \in {scope.features[i].feature : i \in DOMAIN scope.features} |->
                   \E i \in DOMAIN scope.features :
                     scope.features[i].feature = f /\ scope.features[i].status = Validated]]

PublicCommand(reg, m, c) ==
  LET policies == Lookup(reg, m, c)
  IN  [offline   |-> c \in Offline,
       exempt    |-> c \in Exempt,
       supported |-> \/ c \in Offline \cup Exempt
                     \/ \E p \in policies : p.status = ProfileValidated,
       scopes    |-> IF c \in Offline \cup Exempt \/ policies = {} THEN <<>>
                     ELSE LET p == CHOOSE p \in policies : TRUE
                          IN  [i \in DOMAIN p.scopes |-> PublicScope(p.scopes[i])]]

(* A seeded error: the page shows a pending scope as open.                 *)
ProjectedOpenOrPending(reg, m, c, resource, backendName) ==
  LET entry == PublicCommand(reg, m, c)
  IN  /\ ~entry.offline
      /\ \/ entry.exempt
         \/ ExactScopes(entry, NormalizeTransport(resource),
                        NormalizeBackend(backendName)) # {}

(* exact_live_support_metadata: open, and open for each feature.           *)
ProjectedOpen(reg, m, c, resource, backendName) ==
  LET entry    == PublicCommand(reg, m, c)
      matching == ExactScopes(entry, NormalizeTransport(resource),
                              NormalizeBackend(backendName))
  IN  /\ ~entry.offline
      /\ \/ entry.exempt
         \/ entry.supported /\ \E scope \in matching : scope.status = Validated

ProjectedFeature(reg, m, c, resource, backendName, f) ==
  \E scope \in ExactScopes(PublicCommand(reg, m, c), NormalizeTransport(resource),
                           NormalizeBackend(backendName)) :
    f \in DOMAIN scope.features /\ scope.features[f]

(***************************************************************************)
(* The enablement check: the runtime registries of an enabled model are    *)
(* complete before it is released.                                         *)
(***************************************************************************)

OutputCommands == {"set", "apply", "output-on", "output-off", "safe-off",
                   "cycle-output", "ramp", "ramp-list", "smoke-output", "sequence"}

PolicyMap(reg, m) == CHOOSE entry \in {reg[i] : i \in DOMAIN reg} : entry.model = m

ProductOpen(entry) ==
  UNION {{scope \in ElementsOf(entry.commands[k].scopes) : scope.status = Validated} :
           k \in DOMAIN entry.commands}

(* A candidate is pending everywhere its policy calls it supported.        *)
CandidatePolicySound(m, policy) ==
  policy.status = ProfileValidated =>
    /\ policy.scopes # <<>>
    /\ \A i \in DOMAIN policy.scopes :
         /\ policy.scopes[i].status = TransportPending
         /\ policy.command \in {"sequence", "trigger-step", "trigger-list"} =>
              /\ Inventory[m][policy.command] # {}
              /\ FeaturesSound(m, policy.scopes[i], Inventory[m][policy.command])
              /\ \A f \in DOMAIN policy.scopes[i].features :
                   policy.scopes[i].features[f].status = FeaturePending

(* A seeded error: any driver will do, the generic one included.           *)
HasAnyDriver(inv, m) == m \in DOMAIN inv.driver

HasOwnDriver(inv, m) == m \in DOMAIN inv.driver /\ inv.driver[m] = "specific"

(* _validate_enabled_model.                                                *)
EnabledModelSound(inv, reg, m) ==
  LET candidate == m \in CandidateModels
      policy    == PolicyMap(reg, m)
  IN  /\ m \in inv.channels
      /\ m \in DOMAIN inv.simulator /\ inv.simulator[m] = m
      /\ HasOwnDriver(inv, m)
      /\ Real[m] # {}
      /\ \E i \in DOMAIN reg : reg[i].model = m
      /\ m \in inv.noHardware /\ m \in inv.safety
      /\ Real[m] \cap OutputCommands # {} =>
           /\ m \in inv.ratings \/ (~candidate /\ m \in inv.ratingCompatible)
           /\ m \in inv.ranges
      /\ \A c \in Real[m] \cap Governed :
           \E k \in DOMAIN policy.commands :
             /\ policy.commands[k].command = c
             /\ candidate => CandidatePolicySound(m, policy.commands[k])
      /\ candidate <=> ProductOpen(policy) = {}
      /\ \A scope \in ProductOpen(policy) : scope.accepted # <<>>

(* validate_model_enablement: a model without a runtime has none of it.    *)
InventorySound(inv, reg) ==
  /\ (CatalogModels \cup DeScopedModels)
        \cap (DOMAIN inv.driver \cup DOMAIN inv.simulator
                \cup {reg[i].model : i \in DOMAIN reg}) = {}
  /\ Generic \notin DOMAIN inv.driver \cup DOMAIN inv.simulator
  /\ \A m \in ActiveModels : EnabledModelSound(inv, reg, m)

BuiltInventory ==
  [channels |-> ActiveModels, simulator |-> [m \in ActiveModels |-> m],
   driver |-> [m \in ActiveModels |-> "specific"], ratings |-> ActiveModels \ RatingCompatible,
   ratingCompatible |-> RatingCompatible, ranges |-> ActiveModels,
   safety |-> ActiveModels, noHardware |-> ActiveModels]

-----------------------------------------------------------------------------

VARIABLES
  phase,      \* editing, then imported or refused, then released or blocked
  registry,   \* LIVE_SUPPORT_POLICY_REGISTRY
  evidence,   \* SUPPORT_EVIDENCE_BY_ID
  inventory,  \* the runtime registries of the enablement check
  edits       \* how many edits the maintainers have made

vars == <<phase, registry, evidence, inventory, edits>>

Init ==
  /\ phase = "editing"
  /\ registry = BuiltRegistry
  /\ evidence = BuiltEvidence
  /\ inventory = BuiltInventory
  /\ edits = 0

Edit ==
  /\ phase = "editing"
  /\ edits < MaxEdits
  /\ edits' = edits + 1
  /\ UNCHANGED phase

IdLists == {<<>>} \cup {<<id>> : id \in EvidenceIds}

(* The values a slip of the keyboard can give a scope.                     *)
ScopeVariants(scope) ==
  {[scope EXCEPT !.status = v] : v \in ScopeStatuses}
    \cup {[scope EXCEPT !.transport = v] : v \in Transports}
    \cup {[scope EXCEPT !.backend = v] : v \in Backends}
    \cup {[scope EXCEPT !.accepted = v] : v \in IdLists}
    \cup {[scope EXCEPT !.basis = v] : v \in IdLists}
    \cup {[scope EXCEPT !.features = Append(@, scope.features[i])] : i \in DOMAIN scope.features}
    \cup {[scope EXCEPT !.features = <<>>]}

EditScope ==
  /\ Edit
  /\ \E i \in DOMAIN registry : \E k \in DOMAIN registry[i].commands :
       \E n \in DOMAIN registry[i].commands[k].scopes :
         \E scope \in ScopeVariants(registry[i].commands[k].scopes[n]) :
           registry' = [registry EXCEPT ![i].commands[k].scopes[n] = scope]
  /\ UNCHANGED <<evidence, inventory>>

EditFeature ==
  /\ Edit
  /\ \E i \in DOMAIN registry : \E k \in DOMAIN registry[i].commands :
       \E n \in DOMAIN registry[i].commands[k].scopes :
         \E f \in DOMAIN registry[i].commands[k].scopes[n].features :
           \E status \in FeatureStatuses, inherits \in BOOLEAN :
             registry' =
               [registry EXCEPT ![i].commands[k].scopes[n].features[f] =
                  [@ EXCEPT !.status = status, !.inherits = inherits]]
  /\ UNCHANGED <<evidence, inventory>>

(* A scope is copied to the end, changed: pending beside validated, say.   *)
AddScope ==
  /\ Edit
  /\ \E i \in DOMAIN registry : \E k \in DOMAIN registry[i].commands :
       \E n \in DOMAIN registry[i].commands[k].scopes :
         \E scope \in ScopeVariants(registry[i].commands[k].scopes[n]) :
           registry' = [registry EXCEPT ![i].commands[k].scopes = Append(@, scope)]
  /\ UNCHANGED <<evidence, inventory>>

(* A command policy is withdrawn, repeated for another command, or         *)
(* declared unsupported.                                                   *)
EditCommand ==
  /\ Edit
  /\ \E i \in DOMAIN registry : \E k \in DOMAIN registry[i].commands :
       \/ \E c \in Commands :
            registry' = [registry EXCEPT ![i].commands[k].command = c]
       \/ \E status \in CommandStatuses :
            registry' = [registry EXCEPT ![i].commands[k].status = status]
       \/ registry' = [registry EXCEPT ![i].commands[k].scopes = <<>>,
                                       ![i].commands[k].status = NotSupported]
       \/ registry' = [registry EXCEPT ![i].commands = Append(@, @[k])]
  /\ UNCHANGED <<evidence, inventory>>

EditModel ==
  /\ Edit
  /\ \E i \in DOMAIN registry :
       \/ \E m \in Models : registry' = [registry EXCEPT ![i].model = m]
       \/ \E m \in Models : registry' = Append(registry, [registry[i] EXCEPT !.model = m])
  /\ UNCHANGED <<evidence, inventory>>

EditEvidence ==
  /\ Edit
  /\ \E id \in DOMAIN evidence :
       \/ \E other \in EvidenceIds : evidence' = [evidence EXCEPT ![id].id = other]
       \/ \E m \in Models : evidence' = [evidence EXCEPT ![id].model = m]
       \/ \E t \in Transports : evidence' = [evidence EXCEPT ![id].transport = t]
       \/ \E b \in Backends : evidence' = [evidence EXCEPT ![id].backend = b]
       \/ \E c \in evidence[id].commands :
            evidence' = [evidence EXCEPT ![id].commands = @ \ {c}]
       \/ \E c \in DOMAIN evidence[id].features :
            \E f \in evidence[id].features[c] :
              evidence' = [evidence EXCEPT ![id].features[c] = @ \ {f}]
       \/ evidence' = [evidence EXCEPT ![id].checksum = ~@]
       \/ evidence' = [evidence EXCEPT ![id].history = ~@]
  /\ UNCHANGED <<registry, inventory>>

EditInventory ==
  /\ Edit
  /\ \E m \in Models :
       \/ \E part \in {"channels", "ratings", "ratingCompatible", "ranges", "safety",
                       "noHardware"} :
            inventory' = [inventory EXCEPT ![part] = @ \ {m}]
       \/ \E n \in Models \ {Generic} :
            inventory' = [inventory EXCEPT
                            !.simulator = [x \in DOMAIN @ \cup {m} |->
                                             IF x = m THEN n ELSE @[x]]]
       \/ \E d \in {"specific", "generic"} :
            inventory' = [inventory EXCEPT
                            !.driver = [x \in DOMAIN @ \cup {m} |->
                                          IF x = m THEN d ELSE @[x]]]
  /\ UNCHANGED <<registry, evidence>>

(* The end of support_policy.py: an unsound registry ends the import.      *)
Import ==
  /\ phase = "editing"
  /\ phase' = IF RegistrySound(registry, evidence) THEN "imported" ELSE "refused"
  /\ UNCHANGED <<registry, evidence, inventory, edits>>

(* validate_model_enablement on what was imported, before a release.       *)
CheckEnablement ==
  /\ phase = "imported"
  /\ phase' = IF InventorySound(inventory, registry) THEN "released" ELSE "blocked"
  /\ UNCHANGED <<registry, evidence, inventory, edits>>

Next ==
  \/ EditScope \/ EditFeature \/ AddScope \/ EditCommand \/ EditModel
  \/ EditEvidence \/ EditInventory
  \/ Import \/ CheckEnablement

Spec == Init /\ [][Next]_vars

-----------------------------------------------------------------------------

Phases == {"editing", "imported", "refused", "released", "blocked"}

(* The enablement check that follows an import changes no registry.        *)
Serving == phase = "imported"

(* What the project promises: whatever the product sends to an instrument, *)
(* beyond the diagnostics, was accepted in a full suite with exactly this  *)
(* model, transport and backend, and so was every feature it asks for.     *)
(* ensure_live_scope_supported reads the registry only; the evidence was   *)
(* read once, by the validation at import.                                 *)
HasEvidence(m, c, transport, backend, required) ==
  \E id \in DOMAIN evidence :
    /\ evidence[id].model = m
    /\ evidence[id].transport = transport
    /\ evidence[id].backend = backend
    /\ c \in evidence[id].commands
    /\ \A spelled \in required :
         /\ c \in DOMAIN evidence[id].features
         /\ Canonical[spelled] \in evidence[id].features[c]

(* Once the package is imported, no edit the validation lets through opens *)
(* the product gate beyond the accepted evidence.                          *)
AdmittedHasEvidence ==
  Serving =>
    \A m \in Models, c \in Commands \ (Exempt \cup Offline), resource \in Transports,
       backendName \in BackendNames, required \in Requirements :
      LiveAllowed(registry, m, c, resource, backendName, "product", required) =>
        HasEvidence(m, c, NormalizeTransport(resource), NormalizeBackend(backendName),
                    required)

(* The page and the gate are computed apart; they never disagree: an open  *)
(* command is one the product gate lets through, an open feature is one it *)
(* lets through when asked for, and the diagnostics are always open.       *)
ProjectionAgrees ==
  Serving =>
    \A m \in ActiveModels, c \in Commands, resource \in Transports,
       backendName \in BackendNames :
      /\ c \notin Offline =>
           (ProjectedOpen(registry, m, c, resource, backendName)
              <=> LiveAllowed(registry, m, c, resource, backendName, "product", {}))
      /\ c \in Governed =>
           \A spelled \in DOMAIN Canonical :
             GateOpen(registry, m, c, resource, backendName, "product", {spelled})
               <=> /\ ProjectedOpen(registry, m, c, resource, backendName)
                   /\ ProjectedFeature(registry, m, c, resource, backendName,
                                       Canonical[spelled])

(* What a request that passes the gate goes on to use: channels, the       *)
(* model's own driver, a simulator that answers as the model and, where    *)
(* its driver sets outputs, their ranges and ratings.                      *)
Equipped(m) ==
  /\ m \in inventory.channels
  /\ m \in DOMAIN inventory.driver /\ inventory.driver[m] = "specific"
  /\ m \in DOMAIN inventory.simulator /\ inventory.simulator[m] = m
  /\ Real[m] \cap OutputCommands # {} =>
       m \in inventory.ranges /\ m \in inventory.ratings \cup inventory.ratingCompatible

(* However the registries were edited, a release opens the product gate    *)
(* for the product models and no other, each for some command and each     *)
(* with all it needs at run time; a model without a runtime has neither a  *)
(* driver nor a simulator.                                                 *)
ReleasedModelsUsable ==
  phase = "released" =>
    \A m \in Models :
      LET open == \E c \in Governed, t \in Transports, b \in Backends :
                    GateOpen(registry, m, c, t, b, "product", {})
      IN  /\ open <=> m \in ProductModels
          /\ open => Equipped(m)
          /\ m \notin ActiveModels =>
               m \notin DOMAIN inventory.driver \cup DOMAIN inventory.simulator
=============================================================================
