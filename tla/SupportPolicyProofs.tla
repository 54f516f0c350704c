------------------------ MODULE SupportPolicyProofs ------------------------
(***************************************************************************)
(* A registry the import accepts opens the product gate only where the     *)
(* accepted evidence reaches, whatever the models, commands, transports,   *)
(* features and evidence records are, and however many edits were made.    *)
(***************************************************************************)
EXTENDS SupportPolicy, TLAPS

(***************************************************************************)
(* The registry that serves requests is one the validation passed.         *)
(***************************************************************************)
ServedIsSound ==
  /\ phase \in {"imported", "released"} => RegistrySound(registry, evidence)
  /\ phase = "released" => InventorySound(inventory, registry)

(* Only an import starts to serve, and nothing edits what is served.       *)
LEMMA ServedStaysSound == Spec => []ServedIsSound
<1>1. Init => ServedIsSound
  BY DEF Init, ServedIsSound
<1>2. ServedIsSound /\ [Next]_vars => ServedIsSound'
  <2> SUFFICES ASSUME ServedIsSound, [Next]_vars
               PROVE  ServedIsSound'
    OBVIOUS
  <2>1. CASE EditScope
    BY <2>1 DEF EditScope, Edit, ServedIsSound
  <2>2. CASE EditFeature
    BY <2>2 DEF EditFeature, Edit, ServedIsSound
  <2>3. CASE AddScope
    BY <2>3 DEF AddScope, Edit, ServedIsSound
  <2>4. CASE EditCommand
    BY <2>4 DEF EditCommand, Edit, ServedIsSound
  <2>5. CASE EditModel
    BY <2>5 DEF EditModel, Edit, ServedIsSound
  <2>6. CASE EditEvidence
    BY <2>6 DEF EditEvidence, Edit, ServedIsSound
  <2>7. CASE EditInventory
    BY <2>7 DEF EditInventory, Edit, ServedIsSound
  <2>8. CASE Import
    BY <2>8 DEF Import, ServedIsSound
  <2>9. CASE CheckEnablement
    BY <2>9 DEF CheckEnablement, ServedIsSound
  <2>10. CASE UNCHANGED vars
    BY <2>10 DEF vars, ServedIsSound
  <2> QED
    BY <2>1, <2>2, <2>3, <2>4, <2>5, <2>6, <2>7, <2>8, <2>9, <2>10 DEF Next
<1> QED
  BY <1>1, <1>2, PTL DEF Spec

(* A scope the lookup finds in a sound registry is a sound scope of that   *)
(* model and command, on that transport and backend.                       *)
LEMMA FoundScopeIsSound ==
  ASSUME NEW reg, NEW ev, RegistrySound(reg, ev), NEW m, NEW c,
         NEW policy \in Lookup(reg, m, c), NEW transport, NEW backend,
         NEW scope \in ExactScopes(policy, transport, backend)
  PROVE  /\ ScopeSound(m, c, scope, ev)
         /\ scope.transport = transport
         /\ scope.backend = backend
<1>1. PICK entry \in PoliciesOf(reg, m) : policy \in CommandPolicies(entry, c)
  BY DEF Lookup
<1>2. PICK i \in DOMAIN reg : entry = reg[i] /\ reg[i].model = m
  BY <1>1 DEF PoliciesOf
<1>3. PICK k \in DOMAIN entry.commands :
        policy = entry.commands[k] /\ entry.commands[k].command = c
  BY <1>1 DEF CommandPolicies
<1>4. ModelSound(entry, ev)
  BY <1>2 DEF RegistrySound
<1>5. PolicySound(m, policy, ev)
  BY <1>2, <1>3, <1>4 DEF ModelSound
<1>6. PICK n \in DOMAIN policy.scopes :
        /\ scope = policy.scopes[n]
        /\ policy.scopes[n].transport = transport
        /\ policy.scopes[n].backend = backend
  BY DEF ExactScopes
<1>7. ScopeSound(m, c, scope, ev)
  BY <1>3, <1>5, <1>6 DEF PolicySound
<1> QED
  BY <1>6, <1>7

(* Every record a validated sound scope cites is about this model,         *)
(* command, transport and backend, and covers the features that are open.  *)
LEMMA CitedRecordCovers ==
  ASSUME NEW m, NEW c, NEW scope, NEW ev, ScopeSound(m, c, scope, ev),
         NEW i \in DOMAIN scope.accepted
  PROVE  LET record == ev[scope.accepted[i]]
         IN  /\ scope.accepted[i] \in DOMAIN ev
             /\ record.model = m
             /\ record.transport = scope.transport
             /\ record.backend = scope.backend
             /\ c \in record.commands
             /\ \A f \in DOMAIN scope.features :
                  scope.features[f].status = Validated =>
                    /\ c \in DOMAIN record.features
                    /\ scope.features[f].feature \in record.features[c]
<1>1. AcceptedSound(m, c, scope, ev) /\ FeaturesSound(m, scope, Inventory[m][c])
  BY DEF ScopeSound
<1>2. \A f \in DOMAIN scope.features :
        scope.features[f].status = Validated => scope.features[f].inherits
  BY <1>1 DEF FeaturesSound
<1> QED
  BY <1>1, <1>2 DEF AcceptedSound

(* A request the product gate lets through has a record that covers its    *)
(* model, command, transport, backend and all the features it asks for:    *)
(* any record its scope cites, and a validated scope cites one.            *)
LEMMA GateNeedsEvidence ==
  ASSUME NEW m, NEW c, NEW resource, NEW backendName, NEW required,
         RegistrySound(registry, evidence),
         GateOpen(registry, m, c, resource, backendName, "product", required)
  PROVE  HasEvidence(m, c, NormalizeTransport(resource),
                     NormalizeBackend(backendName), required)
<1> DEFINE transport == NormalizeTransport(resource)
           backend   == NormalizeBackend(backendName)
<1>1. PICK scope \in AdmittedScopes(registry, m, c, resource, backendName,
                                    "product", required) : TRUE
  BY DEF GateOpen
<1>2. PICK policy \in Lookup(registry, m, c) :
        scope \in ExactScopes(policy, transport, backend)
  BY <1>1 DEF AdmittedScopes
<1>3. /\ ScopeSound(m, c, scope, evidence)
      /\ scope.transport = transport
      /\ scope.backend = backend
  BY <1>2, FoundScopeIsSound
<1>4. scope.status = Validated
  BY <1>1 DEF AdmittedScopes, AllowedScope
<1>5. PICK i \in DOMAIN scope.accepted : TRUE
  BY <1>3, <1>4 DEF ScopeSound, ElementsOf
<1> DEFINE id == scope.accepted[i]
<1>6. /\ id \in DOMAIN evidence
      /\ evidence[id].model = m
      /\ evidence[id].transport = transport
      /\ evidence[id].backend = backend
      /\ c \in evidence[id].commands
      /\ \A f \in DOMAIN scope.features :
           scope.features[f].status = Validated =>
             /\ c \in DOMAIN evidence[id].features
             /\ scope.features[f].feature \in evidence[id].features[c]
  BY <1>3, CitedRecordCovers
<1>7. ASSUME NEW spelled \in required
      PROVE  /\ c \in DOMAIN evidence[id].features
             /\ Canonical[spelled] \in evidence[id].features[c]
  <2>1. FeatureAdmitted(scope, spelled, "product")
    BY <1>1 DEF AdmittedScopes
  <2>2. PICK f \in DOMAIN scope.features :
          /\ scope.features[f].feature = Canonical[spelled]
          /\ scope.features[f].status = Validated
    BY <2>1 DEF FeatureAdmitted, AllowedFeature
  <2> QED
    BY <1>6, <2>2
<1> QED
  BY <1>6, <1>7 DEF HasEvidence

(* Whatever the maintainers edit, what the product admits once the package *)
(* is imported was accepted in a full suite, in exactly that combination.  *)
THEOREM ProductNeedsEvidence == Spec => []AdmittedHasEvidence
<1>1. ServedIsSound => AdmittedHasEvidence
  <2> SUFFICES ASSUME ServedIsSound, Serving,
                      NEW m \in Models, NEW c \in Commands \ (Exempt \cup Offline),
                      NEW resource \in Transports, NEW backendName \in BackendNames,
                      NEW required \in Requirements,
                      LiveAllowed(registry, m, c, resource, backendName, "product", required)
               PROVE  HasEvidence(m, c, NormalizeTransport(resource),
                                  NormalizeBackend(backendName), required)
    BY DEF AdmittedHasEvidence
  <2>1. RegistrySound(registry, evidence)
    BY DEF ServedIsSound, Serving
  <2>2. GateOpen(registry, m, c, resource, backendName, "product", required)
    BY DEF LiveAllowed
  <2> QED
    BY <2>1, <2>2, GateNeedsEvidence
<1> QED
  BY <1>1, ServedStaysSound, PTL

(***************************************************************************)
(* The gate and the page look the policy up apart.  In a sound registry    *)
(* each lookup has one answer, so they look at the same scope.             *)
(***************************************************************************)

(* A sound registry has one policy for a model and a command.              *)
LEMMA OnePolicy ==
  ASSUME NEW reg, NEW ev, RegistrySound(reg, ev), NEW m, NEW c,
         NEW p \in Lookup(reg, m, c), NEW q \in Lookup(reg, m, c)
  PROVE  p = q
<1>1. PICK a \in PoliciesOf(reg, m) : p \in CommandPolicies(a, c)
  BY DEF Lookup
<1>2. PICK b \in PoliciesOf(reg, m) : q \in CommandPolicies(b, c)
  BY DEF Lookup
<1>3. PICK i \in DOMAIN reg : a = reg[i] /\ reg[i].model = m
  BY <1>1 DEF PoliciesOf
<1>4. PICK j \in DOMAIN reg : b = reg[j] /\ reg[j].model = m
  BY <1>2 DEF PoliciesOf
<1>5. a = b
  BY <1>3, <1>4 DEF RegistrySound
<1>6. ModelSound(a, ev)
  BY <1>3 DEF RegistrySound
<1>7. PICK k \in DOMAIN a.commands : p = a.commands[k] /\ a.commands[k].command = c
  BY <1>1 DEF CommandPolicies
<1>8. PICK n \in DOMAIN a.commands : q = a.commands[n] /\ a.commands[n].command = c
  BY <1>2, <1>5 DEF CommandPolicies
<1> QED
  BY <1>6, <1>7, <1>8 DEF ModelSound

(* Such a policy is sound, and it is about an active model.                *)
LEMMA FoundPolicyIsSound ==
  ASSUME NEW reg, NEW ev, RegistrySound(reg, ev), NEW m, NEW c,
         NEW policy \in Lookup(reg, m, c)
  PROVE  PolicySound(m, policy, ev) /\ policy.command = c
<1>1. PICK entry \in PoliciesOf(reg, m) : policy \in CommandPolicies(entry, c)
  BY DEF Lookup
<1>2. PICK i \in DOMAIN reg : entry = reg[i] /\ reg[i].model = m
  BY <1>1 DEF PoliciesOf
<1>3. PICK k \in DOMAIN entry.commands :
        policy = entry.commands[k] /\ entry.commands[k].command = c
  BY <1>1 DEF CommandPolicies
<1> QED
  BY <1>2, <1>3 DEF RegistrySound, ModelSound

(* A sound policy has one scope for a transport and a backend.             *)
LEMMA OneScope ==
  ASSUME NEW m, NEW policy, NEW ev, PolicySound(m, policy, ev),
         NEW transport, NEW backend,
         NEW s \in ExactScopes(policy, transport, backend),
         NEW t \in ExactScopes(policy, transport, backend)
  PROVE  s = t
<1>1. PICK i \in DOMAIN policy.scopes :
        /\ s = policy.scopes[i]
        /\ policy.scopes[i].transport = transport
        /\ policy.scopes[i].backend = backend
  BY DEF ExactScopes
<1>2. PICK j \in DOMAIN policy.scopes :
        /\ t = policy.scopes[j]
        /\ policy.scopes[j].transport = transport
        /\ policy.scopes[j].backend = backend
  BY DEF ExactScopes
<1>3. SameScope(policy.scopes[i], policy.scopes[j])
  BY <1>1, <1>2 DEF SameScope
<1> QED
  BY <1>1, <1>2, <1>3 DEF PolicySound

(* What the page finds for a connection is the projection of what the      *)
(* policy of the command has for it: the page's list has the same order.   *)
LEMMA PageShowsPolicy ==
  ASSUME NEW reg, NEW m, NEW c, c \notin Offline \cup Exempt,
         NEW policy, Lookup(reg, m, c) = {policy}, NEW transport, NEW backend
  PROVE  /\ PublicCommand(reg, m, c).supported <=> policy.status = ProfileValidated
         /\ ExactScopes(PublicCommand(reg, m, c), transport, backend)
              = {PublicScope(s) : s \in ExactScopes(policy, transport, backend)}
<1> DEFINE page  == PublicCommand(reg, m, c)
           shown == [i \in DOMAIN policy.scopes |-> PublicScope(policy.scopes[i])]
<1>1. (CHOOSE p \in {policy} : TRUE) = policy
  OBVIOUS
<1>2. page.scopes = shown
  BY <1>1 DEF PublicCommand
<1>3. page.supported <=> policy.status = ProfileValidated
  BY DEF PublicCommand
<1>4. DOMAIN page.scopes = DOMAIN policy.scopes
  BY <1>2
<1> HIDE DEF page
<1>5. ASSUME NEW i \in DOMAIN policy.scopes
      PROVE  /\ page.scopes[i] = PublicScope(policy.scopes[i])
             /\ page.scopes[i].transport = policy.scopes[i].transport
             /\ page.scopes[i].backend = policy.scopes[i].backend
  <2>1. page.scopes[i] = PublicScope(policy.scopes[i])
    BY <1>2
  <2>2. /\ PublicScope(policy.scopes[i]).transport = policy.scopes[i].transport
        /\ PublicScope(policy.scopes[i]).backend = policy.scopes[i].backend
    BY DEF PublicScope
  <2> QED
    BY <2>1, <2>2
<1> DEFINE first(p) == {i \in DOMAIN p.scopes :
                          /\ p.scopes[i].transport = transport
                          /\ p.scopes[i].backend = backend
                          /\ \A j \in DOMAIN p.scopes \ {i} :
                               p.scopes[j].transport = transport
                                 /\ p.scopes[j].backend = backend => i < j}
<1>6. first(page) = first(policy)
  BY <1>4, <1>5
<1>7. /\ ExactScopes(page, transport, backend) = {page.scopes[i] : i \in first(page)}
      /\ ExactScopes(policy, transport, backend) = {policy.scopes[i] : i \in first(policy)}
  BY DEF ExactScopes
<1>8. first(policy) \subseteq DOMAIN policy.scopes
  OBVIOUS
<1> HIDE DEF first
<1>9. ExactScopes(page, transport, backend)
        = {PublicScope(s) : s \in ExactScopes(policy, transport, backend)}
  BY <1>5, <1>6, <1>7, <1>8
<1> QED
  BY <1>3, <1>9 DEF page

(* The page shows a feature of a sound scope as open exactly when the      *)
(* product gate lets it through there.                                     *)
LEMMA FeatureShownIsAdmitted ==
  ASSUME NEW m \in ActiveModels, NEW c \in Governed, NEW ev, NEW scope,
         ScopeSound(m, c, scope, ev), NEW spelled
  PROVE  FeatureAdmitted(scope, spelled, "product") <=>
           /\ Canonical[spelled] \in DOMAIN PublicScope(scope).features
           /\ PublicScope(scope).features[Canonical[spelled]]
<1> DEFINE f       == Canonical[spelled]
           matches == {i \in DOMAIN scope.features : scope.features[i].feature = f}
<1>1. FeaturesSound(m, scope, Inventory[m][c])
  BY DEF ScopeSound
<1>2. \A i \in DOMAIN scope.features : scope.features[i].feature # NoFeature
  BY <1>1, InventoryAssumption DEF FeaturesSound, ActiveModels
<1>3. \A i \in matches : matches = {i}
  BY <1>1 DEF FeaturesSound
<1>4. FeatureAdmitted(scope, spelled, "product") <=>
        \E i \in DOMAIN scope.features :
          scope.features[i].feature = f /\ scope.features[i].status = Validated
  BY <1>2, <1>3 DEF FeatureAdmitted, AllowedFeature
<1>5. PublicScope(scope).features =
        [x \in {scope.features[i].feature : i \in DOMAIN scope.features} |->
           \E i \in DOMAIN scope.features :
             scope.features[i].feature = x /\ scope.features[i].status = Validated]
  BY DEF PublicScope
<1>6. f \in DOMAIN PublicScope(scope).features
        <=> \E i \in DOMAIN scope.features : scope.features[i].feature = f
  BY <1>5
<1>7. f \in DOMAIN PublicScope(scope).features =>
        (PublicScope(scope).features[f] <=>
           \E i \in DOMAIN scope.features :
             scope.features[i].feature = f /\ scope.features[i].status = Validated)
  BY <1>5
<1> QED
  BY <1>4, <1>6, <1>7

(* The page and the gate agree on every governed command and feature.      *)
LEMMA PageAgrees ==
  ASSUME NEW m \in ActiveModels, NEW c \in Commands, c \notin Offline \cup Exempt,
         NEW resource, NEW backendName, RegistrySound(registry, evidence)
  PROVE  /\ ProjectedOpen(registry, m, c, resource, backendName)
              <=> GateOpen(registry, m, c, resource, backendName, "product", {})
         /\ \A spelled :
              GateOpen(registry, m, c, resource, backendName, "product", {spelled})
                <=> /\ ProjectedOpen(registry, m, c, resource, backendName)
                    /\ ProjectedFeature(registry, m, c, resource, backendName,
                                        Canonical[spelled])
<1> DEFINE transport == NormalizeTransport(resource)
           backend   == NormalizeBackend(backendName)
           page      == PublicCommand(registry, m, c)
           Open(required) == GateOpen(registry, m, c, resource, backendName, "product", required)
<1>1. page.offline = (c \in Offline) /\ page.exempt = (c \in Exempt)
  BY DEF PublicCommand
<1>2. CASE Lookup(registry, m, c) = {}
  <2>1. ~page.supported
    BY <1>2 DEF PublicCommand
  <2>2. ~ProjectedOpen(registry, m, c, resource, backendName)
    BY <1>1, <2>1 DEF ProjectedOpen
  <2>3. \A required : ~Open(required)
    BY <1>2 DEF GateOpen, AdmittedScopes
  <2> QED
    BY <2>2, <2>3
<1>3. CASE Lookup(registry, m, c) # {}
  <2>1. PICK policy \in Lookup(registry, m, c) : TRUE
    BY <1>3
  <2>2. Lookup(registry, m, c) = {policy}
    BY <2>1, OnePolicy
  <2>3. PolicySound(m, policy, evidence) /\ policy.command = c
    BY <2>1, FoundPolicyIsSound
  <2> DEFINE scopes == ExactScopes(policy, transport, backend)
  <2>4. \A s, t \in scopes : s = t
    BY <2>3, OneScope
  <2>5. /\ page.supported <=> policy.status = ProfileValidated
        /\ ExactScopes(page, transport, backend) = {PublicScope(s) : s \in scopes}
    BY <2>2, PageShowsPolicy
  <2>6. \A s \in scopes : ScopeSound(m, c, s, evidence)
    BY <2>1, FoundScopeIsSound
  <2>7. c \in Governed
    BY DEF Commands
  <2>8. \A required :
          Open(required) <=>
            /\ policy.status = ProfileValidated
            /\ \E s \in scopes :
                 /\ s.status = Validated
                 /\ \A spelled \in required : FeatureAdmitted(s, spelled, "product")
    BY <2>2 DEF GateOpen, AdmittedScopes, AllowedScope, Modes
  <2>9. \A s : PublicScope(s).status = s.status
    BY DEF PublicScope
  <2>10. ProjectedOpen(registry, m, c, resource, backendName) <=>
           /\ policy.status = ProfileValidated
           /\ \E s \in scopes : s.status = Validated
    <3>1. (\E t \in ExactScopes(page, transport, backend) : t.status = Validated)
            <=> \E s \in scopes : s.status = Validated
      BY <2>5, <2>9
    <3>2. ~page.offline /\ ~page.exempt
      BY <1>1
    <3> QED
      BY <2>5, <3>1, <3>2 DEF ProjectedOpen
  <2>11. ASSUME NEW spelled
         PROVE  ProjectedFeature(registry, m, c, resource, backendName, Canonical[spelled])
                  <=> \E s \in scopes : FeatureAdmitted(s, spelled, "product")
    BY <2>5, <2>6, <2>7, FeatureShownIsAdmitted DEF ProjectedFeature
  <2>12. ASSUME NEW spelled
         PROVE  Open({spelled}) <=>
                  /\ policy.status = ProfileValidated
                  /\ \E s \in scopes : s.status = Validated
                  /\ \E s \in scopes : FeatureAdmitted(s, spelled, "product")
    BY <2>4, <2>8
  <2> QED
    BY <2>8, <2>10, <2>11, <2>12
<1> QED
  BY <1>2, <1>3

(* Whatever the maintainers edit, once the package is imported the page    *)
(* offers a command or a feature for a connection exactly when the product *)
(* gate lets it through.                                                   *)
THEOREM PageAgreesWithGate == Spec => []ProjectionAgrees
<1>1. ServedIsSound => ProjectionAgrees
  <2> SUFFICES ASSUME ServedIsSound, Serving,
                      NEW m \in ActiveModels, NEW c \in Commands,
                      NEW resource \in Transports, NEW backendName \in BackendNames
               PROVE  /\ c \notin Offline =>
                           (ProjectedOpen(registry, m, c, resource, backendName)
                              <=> LiveAllowed(registry, m, c, resource, backendName,
                                              "product", {}))
                      /\ c \in Governed =>
                           \A spelled \in DOMAIN Canonical :
                             GateOpen(registry, m, c, resource, backendName, "product",
                                      {spelled})
                               <=> /\ ProjectedOpen(registry, m, c, resource, backendName)
                                   /\ ProjectedFeature(registry, m, c, resource,
                                                       backendName, Canonical[spelled])
    BY DEF ProjectionAgrees
  <2>1. RegistrySound(registry, evidence)
    BY DEF ServedIsSound, Serving
  <2>2. m \notin DeScopedModels
    BY ModelsAssumption DEF ActiveModels
  <2>3. CASE c \in Offline \cup Exempt
    <3>1. c \notin Governed
      BY <2>3, CommandsAssumption
    <3>2. c \notin Offline => ProjectedOpen(registry, m, c, resource, backendName)
      BY <2>3 DEF ProjectedOpen, PublicCommand
    <3> QED
      BY <2>3, <3>1, <3>2 DEF LiveAllowed
  <2>4. CASE c \notin Offline \cup Exempt
    BY <2>1, <2>2, <2>4, PageAgrees DEF LiveAllowed
  <2> QED
    BY <2>3, <2>4
<1> QED
  BY <1>1, ServedStaysSound, PTL

(***************************************************************************)
(* The enablement check and the gate read different registries.  A         *)
(* release needs both, and then the gate is open for product models alone. *)
(***************************************************************************)

(* A sound registry has one entry for each active model: the one the       *)
(* enablement check reads is the one the gate walks.                       *)
LEMMA EntryOfModel ==
  ASSUME NEW reg, NEW ev, RegistrySound(reg, ev), NEW m \in ActiveModels
  PROVE  /\ PolicyMap(reg, m) \in PoliciesOf(reg, m)
         /\ ModelSound(PolicyMap(reg, m), ev)
         /\ PolicyMap(reg, m).model = m
         /\ PoliciesOf(reg, m) = {PolicyMap(reg, m)}
<1>1. PICK i \in DOMAIN reg : reg[i].model = m
  BY DEF RegistrySound
<1>2. \A j \in DOMAIN reg : reg[j].model = m => j = i
  BY <1>1 DEF RegistrySound
<1>3. PolicyMap(reg, m) = reg[i]
  <2>1. \E entry \in {reg[j] : j \in DOMAIN reg} : entry.model = m
    BY <1>1
  <2>2. /\ PolicyMap(reg, m) \in {reg[j] : j \in DOMAIN reg}
        /\ PolicyMap(reg, m).model = m
    BY <2>1 DEF PolicyMap
  <2> QED
    BY <1>2, <2>2
<1>4. PoliciesOf(reg, m) = {reg[i]}
  BY <1>1, <1>2 DEF PoliciesOf
<1>5. ModelSound(reg[i], ev)
  BY <1>1 DEF RegistrySound
<1> QED
  BY <1>1, <1>3, <1>4, <1>5

(* Where the product gate is open, the entry has a scope open to the       *)
(* product.                                                                *)
LEMMA OpenGateHasScope ==
  ASSUME NEW m \in Models, NEW c, NEW resource, NEW backendName,
         RegistrySound(registry, evidence),
         GateOpen(registry, m, c, resource, backendName, "product", {})
  PROVE  m \in ActiveModels /\ ProductOpen(PolicyMap(registry, m)) # {}
<1>1. PICK policy \in Lookup(registry, m, c) :
        \E scope \in ExactScopes(policy, NormalizeTransport(resource),
                                 NormalizeBackend(backendName)) :
          scope.status = Validated
  BY DEF GateOpen, AdmittedScopes, AllowedScope
<1>2. m \in ActiveModels
  BY <1>1 DEF Lookup
<1> DEFINE entry == PolicyMap(registry, m)
<1>3. policy \in CommandPolicies(entry, c)
  BY <1>1, <1>2, EntryOfModel DEF Lookup
<1>4. PICK k \in DOMAIN entry.commands : policy = entry.commands[k]
  BY <1>3 DEF CommandPolicies
<1>5. PICK n \in DOMAIN policy.scopes : policy.scopes[n].status = Validated
  BY <1>1 DEF ExactScopes
<1>6. policy.scopes[n] \in ProductOpen(entry)
  BY <1>4, <1>5 DEF ProductOpen, ElementsOf
<1> QED
  BY <1>2, <1>6

(* The transports and the backends of a registry are the ones a request    *)
(* is normalised to: they stay what they are.                              *)
LEMMA NamesAreNormal ==
  /\ \A t \in Transports : NormalizeTransport(t) = t
  /\ \A b \in Backends : NormalizeBackend(b) = b
<1>1. \A t \in Transports : NormalizeTransport(t) = t
  BY DEF NormalizeTransport
<1>2. ASSUME NEW b \in Backends
      PROVE  NormalizeBackend(b) = b
  <2>1. b # "" /\ b # "@py" /\ b # "@bt"
    BY DEF Backends, SystemVisa, PyvisaPy
  <2> QED
    BY <2>1 DEF NormalizeBackend
<1> QED
  BY <1>1, <1>2

(* A scope open to the product opens the gate for its command, transport   *)
(* and backend: the lookups have nothing else to find first.               *)
LEMMA OpenScopeOpensGate ==
  ASSUME NEW m \in ActiveModels, RegistrySound(registry, evidence),
         ProductOpen(PolicyMap(registry, m)) # {}
  PROVE  \E c \in Governed, t \in Transports, b \in Backends :
           GateOpen(registry, m, c, t, b, "product", {})
<1> DEFINE entry == PolicyMap(registry, m)
<1>1. /\ PoliciesOf(registry, m) = {entry}
      /\ ModelSound(entry, evidence)
      /\ entry.model = m
  BY EntryOfModel
<1>2. PICK k \in DOMAIN entry.commands :
        \E scope \in ElementsOf(entry.commands[k].scopes) : scope.status = Validated
  BY DEF ProductOpen
<1> DEFINE policy == entry.commands[k]
<1>3. PICK n \in DOMAIN policy.scopes : policy.scopes[n].status = Validated
  BY <1>2 DEF ElementsOf
<1> DEFINE scope == policy.scopes[n]
<1>4. PolicySound(m, policy, evidence)
  BY <1>1 DEF ModelSound
<1>5. policy.command \in Governed /\ policy.status = ProfileValidated
  BY <1>3, <1>4 DEF PolicySound, CommandStatuses
<1>6. ScopeSound(m, policy.command, scope, evidence)
  BY <1>4 DEF PolicySound
<1>7. scope.transport \in Transports /\ scope.backend \in Backends
  BY <1>6 DEF ScopeSound
<1>8. policy \in CommandPolicies(entry, policy.command)
  <2>1. \A j \in DOMAIN entry.commands \ {k} : entry.commands[j].command # policy.command
    BY <1>1 DEF ModelSound
  <2> QED
    BY <2>1 DEF CommandPolicies
<1>9. policy \in Lookup(registry, m, policy.command)
  BY <1>1, <1>8 DEF Lookup
<1>10. scope \in ExactScopes(policy, scope.transport, scope.backend)
  <2>1. \A j \in DOMAIN policy.scopes \ {n} :
          ~(policy.scopes[j].transport = scope.transport
              /\ policy.scopes[j].backend = scope.backend)
    BY <1>4 DEF PolicySound, SameScope
  <2> QED
    BY <2>1 DEF ExactScopes
<1>11. scope \in AdmittedScopes(registry, m, policy.command, scope.transport,
                                scope.backend, "product", {})
  BY <1>3, <1>5, <1>7, <1>9, <1>10, NamesAreNormal
  DEF AdmittedScopes, AllowedScope, Modes
<1> QED
  BY <1>5, <1>7, <1>11 DEF GateOpen

(* Whatever the maintainers edit, a release opens the product gate for the *)
(* product models, each for some governed command and with its own driver, *)
(* its simulator, channels, ranges and ratings, and for no other model; a  *)
(* model that is not active has neither driver nor simulator.              *)
THEOREM ReleaseOpensProductModels == Spec => []ReleasedModelsUsable
<1>1. ServedIsSound => ReleasedModelsUsable
  <2> DEFINE Open(m) == \E c \in Governed, t \in Transports, b \in Backends :
                          GateOpen(registry, m, c, t, b, "product", {})
             Absent(m) == m \notin DOMAIN inventory.driver \cup DOMAIN inventory.simulator
  <2> SUFFICES ASSUME ServedIsSound, phase = "released", NEW m \in Models
               PROVE  /\ Open(m) <=> m \in ProductModels
                      /\ Open(m) => Equipped(m)
                      /\ m \notin ActiveModels => Absent(m)
    BY DEF ReleasedModelsUsable
  <2>1. RegistrySound(registry, evidence) /\ InventorySound(inventory, registry)
    BY DEF ServedIsSound
  <2>2. m \in ActiveModels =>
          (m \in CandidateModels <=> ProductOpen(PolicyMap(registry, m)) = {})
    BY <2>1 DEF InventorySound, EnabledModelSound
  <2>3. m \in ProductModels <=> m \in ActiveModels /\ m \notin CandidateModels
    BY ModelsAssumption DEF ActiveModels
  <2>4. Open(m) => m \in ProductModels
    BY <2>1, <2>2, <2>3, OpenGateHasScope
  <2>5. m \in ProductModels => Open(m)
    BY <2>1, <2>2, <2>3, OpenScopeOpensGate
  <2>6. m \in ActiveModels => Equipped(m)
    BY <2>1 DEF InventorySound, EnabledModelSound, HasOwnDriver, Equipped
  <2>7. m \notin ActiveModels => Absent(m)
    BY <2>1 DEF InventorySound, Models, ActiveModels
  <2> HIDE DEF Open, Absent
  <2> QED
    BY <2>3, <2>4, <2>5, <2>6, <2>7
<1> QED
  BY <1>1, ServedStaysSound, PTL
=============================================================================
