-------------------------------- MODULE Plan --------------------------------
(* `hofctl plan` as operators: the rendered topology reduced to what a plan *)
(* compares (render-topology.mjs, state.mjs), and buildPlan() of plan.mjs.  *)
(*                                                                         *)
(* A manifest m is services.yml with its release lock: the optional        *)
(* services it enables, those it marks dataRetention: retain, one setting  *)
(* that reaches the environment of the Configured units, the backup        *)
(* policy, and the release.  Every service has at most one volume and one   *)
(* secret of its own, both named by the service.                           *)
EXTENDS Integers, Sequences, SequencesExt, FiniteSets

CONSTANTS
  ServiceOrder,  \* the catalog's services, in its order
  UnitOrder,     \* the Compose units, in the order they are rendered
  ServiceOf,     \* unit |-> service
  DependsOn,     \* service |-> services
  Mandatory,     \* services that cannot be disabled
  DbUnit,        \* service with a database |-> the unit that owns it
  WithVolume,    \* services that mount a named volume
  Isolated,      \* services with a network of their own
  Consumers,     \* service with a secret |-> the units that mount it
  Gateway,       \* the unit that reads the Caddyfile
  Routed,        \* services with a route in the Caddyfile
  Sees,          \* unit |-> services whose enablement is in its environment
  Configured,    \* units whose environment holds the setting
  Schema         \* release |-> service with a database |-> [from, to]

Services == ToSet(ServiceOrder)
Units == ToSet(UnitOrder)
Persistent == DOMAIN DbUnit
WithSecret == DOMAIN Consumers
Releases == DOMAIN Schema

ASSUME CatalogAssumption ==
  /\ ServiceOrder \in Seq(Services) /\ UnitOrder \in Seq(Units)
  /\ IsInjective(ServiceOrder) /\ IsInjective(UnitOrder)
  /\ ServiceOf \in [Units -> Services]
  /\ DependsOn \in [Services -> SUBSET Services]
  /\ Persistent \subseteq WithVolume /\ WithVolume \subseteq Services /\ Isolated \subseteq Services
  /\ \A s \in Persistent : DbUnit[s] \in Units /\ ServiceOf[DbUnit[s]] = s
  /\ \A r \in Releases, s \in Persistent : Schema[r][s].to \in Nat \ {0}
  /\ "none" \notin Releases

\* catalog/services-v1.yaml: dependencies come first, so there is no cycle.
ASSUME DependenciesFirst ==
  \A i \in DOMAIN ServiceOrder :
    DependsOn[ServiceOrder[i]] \subseteq {ServiceOrder[j] : j \in 1 .. (i - 1)}

\* Every wireSecret(): a unit of the service itself mounts its secret, and so may units
\* of services that are always there.
ASSUME ConsumersAssumption ==
  \A s \in WithSecret :
    /\ Consumers[s] \subseteq Units /\ \E u \in Consumers[s] : ServiceOf[u] = s
    /\ \A u \in Consumers[s] : ServiceOf[u] \in Mandatory \cup {s}

Files == {"compose.yml", "Caddyfile", "backup-inventory.json"}

-----------------------------------------------------------------------------
(* renderTopology()                                                        *)

Enabled(m) == Mandatory \cup m.enabled

\* It throws when an enabled service depends on a disabled one.
Renders(m) == \A s \in Enabled(m) : DependsOn[s] \subseteq Enabled(m)

RenderedUnits(m) == {u \in Units : ServiceOf[u] \in Enabled(m)}

requiredSecrets(m) == WithSecret \cap Enabled(m)

secretsOf(u, m) == {s \in requiredSecrets(m) : u \in Consumers[s]}

\* A unit of compose.yml without its bookkeeping labels.
Definition(u, m) ==
  [image   |-> m.release,
   shows   |-> Enabled(m) \cap Sees[u],
   setting |-> IF u \in Configured THEN m.setting ELSE "none",
   secrets |-> secretsOf(u, m)]

renderCaddy(m) == Enabled(m) \cap Routed

Networks(m) == {"hof"} \cup (Enabled(m) \cap Isolated)

\* renderedFilesContents(): compose.yml carries the generation in its labels.
FileContents(f, m, generation) ==
  CASE f = "compose.yml" ->
         [units |-> [u \in RenderedUnits(m) |-> Definition(u, m)], generation |-> generation]
    [] f = "Caddyfile" -> renderCaddy(m)
    [] f = "backup-inventory.json" -> [backup |-> m.backup, volumes |-> Enabled(m) \cap WithVolume]

-----------------------------------------------------------------------------
(* topologyToServiceState() and resolveBaseline()                          *)

\* Mutant: the gateway is fingerprinted like any other unit.
unitConfigFingerprintNoCaddyfile(u, m) ==
  [definition |-> Definition(u, m), caddyfile |-> {}]

unitConfigFingerprint(u, m) ==
  [definition |-> Definition(u, m),
   caddyfile  |-> IF u = Gateway THEN renderCaddy(m) ELSE {}]

topologyToServiceState(m) ==
  [release        |-> m.release,
   topologyDigest |-> [enabled |-> Enabled(m), release |-> m.release, backup |-> m.backup],
   enabled        |-> Enabled(m),
   units          |-> [u \in RenderedUnits(m) |->
                        [image |-> m.release, configFingerprint |-> unitConfigFingerprint(u, m)]],
   schemaVersion  |-> [s \in Persistent |-> IF s \in Enabled(m) THEN Schema[m.release][s].to ELSE 0],
   volumes        |-> Enabled(m) \cap WithVolume,
   networks       |-> Networks(m)]

\* A baseline adds its mode, its generation, the retained services with their
\* schema version (0 when not retained) and the recorded file digests.
emptyBaseline ==
  [mode |-> "bootstrap", generation |-> 0, release |-> "none",
   topologyDigest |-> [enabled |-> {}, release |-> "none", backup |-> "none"],
   enabled |-> {}, units |-> <<>>, schemaVersion |-> [s \in Persistent |-> 0],
   volumes |-> {}, networks |-> {}, digests |-> <<>>, retained |-> [s \in Persistent |-> 0]]

RetainedServices(retained) == {s \in Persistent : retained[s] # 0}

\* The volumes a baseline expects: also those of retained services, which
\* nothing mounts.
ExpectedVolumes(current) ==
  (Enabled(current.manifest) \cap WithVolume) \cup RetainedServices(current.retained)

\* The baseline of current.json and topology.json.
appliedBaseline(current) ==
  LET state == topologyToServiceState(current.manifest)
  IN  [mode |-> "applied", generation |-> current.generation, release |-> state.release,
       topologyDigest |-> state.topologyDigest, enabled |-> state.enabled, units |-> state.units,
       schemaVersion |-> state.schemaVersion, volumes |-> ExpectedVolumes(current),
       networks |-> state.networks, retained |-> current.retained,
       digests |-> [f \in Files |-> FileContents(f, current.manifest, current.generation)]]

\* Without state a host that holds a managed resource is refused; an
\* observation o that could not be made is refused by runPlan() for any host.
BaselineResolves(current, o) ==
  /\ o.docker # "unavailable"
  /\ current.generation = 0 =>
       o.containers = <<>> /\ o.volumes = {} /\ o.networks = {}

resolveBaseline(current) ==
  IF current.generation = 0 THEN emptyBaseline ELSE appliedBaseline(current)

-----------------------------------------------------------------------------
(* What differs.  b is a baseline, d the desired service state, and o an    *)
(* observation: Docker's status, the containers by unit, the volumes, the   *)
(* networks and the generated files.  An entry is a unit to be acted on.    *)

Entry(u, fromImage, toImage, imageChanged) ==
  [unit |-> u, fromImage |-> fromImage, toImage |-> toImage, imageChanged |-> imageChanged]

\* The elements of s at the positions in I, in their order: the code's filter().
Pick(s, I) ==
  [n \in 1 .. Cardinality(I) |-> s[CHOOSE i \in I : Cardinality({j \in I : j <= i}) = n]]

\* The units that satisfy Test, in rendering order, each as the entry Make(u).
EntriesFor(Test(_), Make(_)) ==
  LET chosen == Pick(UnitOrder, {i \in DOMAIN UnitOrder : Test(UnitOrder[i])})
  IN  [i \in DOMAIN chosen |-> Make(chosen[i])]

diffUnits(b, d) ==
  LET old == DOMAIN b.units
      new == DOMAIN d.units
  IN  [create |-> EntriesFor(LAMBDA u : u \in new \ old,
                             LAMBDA u : Entry(u, "none", d.units[u].image, TRUE)),
       update |-> EntriesFor(LAMBDA u : /\ u \in new \cap old
                                        /\ d.units[u].configFingerprint # b.units[u].configFingerprint,
                             LAMBDA u : Entry(u, b.units[u].image, d.units[u].image,
                                              b.units[u].image # d.units[u].image)),
       remove |-> EntriesFor(LAMBDA u : u \in old \ new,
                             LAMBDA u : Entry(u, b.units[u].image, "none", FALSE))]

TouchedUnits(entries) == {entries[i].unit : i \in DOMAIN entries}

\* The observed containers are those of this installation.
computeDrift(b, o) ==
  IF o.docker # "available" THEN {}
  ELSE LET expected == DOMAIN b.units
           observed == DOMAIN o.containers
       IN  {[unit |-> u, kind |-> "missing"] : u \in expected \ observed}
             \cup {[unit |-> u, kind |-> "manual-change"] :
                    u \in {v \in expected \cap observed :
                             \/ o.containers[v].image # b.units[v].image
                             \/ o.containers[v].state # "running"}}
             \cup {[unit |-> u, kind |-> "unmanaged"] : u \in observed \ expected}

computeMissingResources(expected, o, present) ==
  IF o.docker = "available" THEN expected \ present ELSE {}

\* A file that was edited by hand has no digest that was ever recorded.
GeneratedKind(expectedDigest, file) ==
  CASE file.status = "unreadable" -> "generated-unreadable"
    [] file.status = "absent" -> "generated-missing"
    [] file.status = "edited" -> "generated-modified"
    [] file.status = "present" ->
         IF file.contents = expectedDigest THEN "none" ELSE "generated-modified"

computeGeneratedDrift(b, o) ==
  {e \in {[file |-> f, kind |-> GeneratedKind(b.digests[f], o.files[f])] : f \in DOMAIN b.digests} :
     e.kind # "none"}

\* A repair of the given kind for units that no entry acts on yet.
foldRepairs(kind, d, drift, create, update) ==
  update \o EntriesFor(LAMBDA u : /\ [unit |-> u, kind |-> kind] \in drift
                                  /\ u \notin TouchedUnits(create \o update)
                                  /\ u \in DOMAIN d.units,
                       LAMBDA u : Entry(u, d.units[u].image, d.units[u].image, TRUE))

foldGatewayRestartForCaddyfile(d, repaired, create, update) ==
  update \o EntriesFor(LAMBDA u : /\ u = Gateway
                                  /\ \E e \in repaired : e.file = "Caddyfile"
                                  /\ u \notin TouchedUnits(create \o update)
                                  /\ u \in DOMAIN d.units,
                       LAMBDA u : Entry(u, d.units[u].image, d.units[u].image, FALSE))

-----------------------------------------------------------------------------
(* What must be migrated, what is retained, and what blocks the plan.       *)
(* A blocker is a pair of its kind and the resource it is about.            *)

\* Mutant: a retained service is initialised like a new one.
servicesNeedingMigrationAlways(b, d, imageChangedUnits) ==
  {s \in Persistent \cap d.enabled :
     \/ s \notin b.enabled
     \/ b.schemaVersion[s] # d.schemaVersion[s]
     \/ DbUnit[s] \in imageChangedUnits}

\* As a set: buildOperations() puts the migrations in the catalog's order.
servicesNeedingMigration(b, d, imageChangedUnits) ==
  {s \in Persistent \cap d.enabled :
     LET wasEnabled == s \in b.enabled
         retainedReenable == /\ ~wasEnabled /\ b.retained[s] # 0
                             /\ b.retained[s] = d.schemaVersion[s]
     IN  /\ ~retainedReenable
         /\ \/ ~wasEnabled
            \/ b.schemaVersion[s] # d.schemaVersion[s]
            \/ DbUnit[s] \in imageChangedUnits}

computeUpgradeBlockers(b, d, update) ==
  {<<"release", r>> : r \in {q \in {d.release} : b.release \notin {"none", q}}}
    \cup {<<"image", u>> :
           u \in {update[i].unit : i \in {j \in DOMAIN update : /\ update[j].imageChanged
                                                               /\ update[j].fromImage # update[j].toImage}}}
    \cup {<<"schema", s>> :
           s \in {t \in Persistent \cap b.enabled \cap d.enabled : b.schemaVersion[t] # d.schemaVersion[t]}}
    \cup {<<"retained schema", s>> :
           s \in {t \in (Persistent \cap d.enabled) \ b.enabled :
                    b.retained[t] # 0 /\ b.retained[t] # d.schemaVersion[t]}}

ServicesOf(entries) == {ServiceOf[u] : u \in TouchedUnits(entries)}

retainBlockers(m, remove) ==
  {<<"retain", s>> : s \in (Persistent \cap ServicesOf(remove)) \ m.retain}

\* Mutant: the map starts empty, so an earlier disable is forgotten.
computeRetainedServicesFresh(b, m, remove, create) ==
  [s \in Persistent |->
     IF s \in ServicesOf(remove) /\ s \in m.retain THEN b.schemaVersion[s] ELSE 0]

computeRetainedServices(b, m, remove, create) ==
  [s \in Persistent |->
     CASE s \in ServicesOf(create) -> 0
       [] s \in ServicesOf(remove) /\ s \in m.retain -> b.schemaVersion[s]
       [] OTHER -> b.retained[s]]

\* A schema-only change still stops and restarts the unit around it.
foldMigrationOnlyIntoUpdates(d, needing, create, update) ==
  update \o EntriesFor(LAMBDA u : /\ \E s \in needing : DbUnit[s] = u
                                  /\ u \notin TouchedUnits(create \o update),
                       LAMBDA u : Entry(u, d.units[u].image, d.units[u].image, FALSE))

migrationBlockers(b, m, needing) ==
  {<<"skips versions", s>> :
     s \in {t \in needing \cap b.enabled : b.schemaVersion[t] # Schema[m.release][t].from}}

computeBlockers(b, o, drift, generatedDrift, missingVolumes, repairDrift, others) ==
  others
    \cup {<<"observation", k>> : k \in IF b.mode = "applied" /\ o.docker # "available" THEN {"docker"} ELSE {}}
    \cup {<<e.kind, e.unit>> :
           e \in {f \in drift : \/ f.kind = "unmanaged"
                                \/ f.kind = "manual-change" /\ ~repairDrift}}
    \cup {<<e.kind, e.file>> :
           e \in {f \in generatedDrift : \/ f.kind = "generated-unreadable"
                                         \/ f.kind = "generated-modified" /\ ~repairDrift}}
    \cup {<<"missing volume", v>> : v \in missingVolumes}

-----------------------------------------------------------------------------
(* The operations, in order.                                               *)

Operation(action, resource) == [action |-> action, resource |-> resource]

ForUnits(action, entries) ==
  [i \in DOMAIN entries |-> Operation(action, entries[i].unit)]

ForResources(action, order, resources) ==
  LET chosen == Pick(order, {i \in DOMAIN order : order[i] \in resources})
  IN  [i \in DOMAIN chosen |-> Operation(action, chosen[i])]

When(condition, action, resource) ==
  IF condition THEN <<Operation(action, resource)>> ELSE <<>>

\* One round of the loop: the earliest entry none of whose dependencies is
\* still to be sequenced moves from remaining to sorted.
SequenceNext(acc) ==
  LET ready == {i \in DOMAIN acc.remaining :
                  DependsOn[ServiceOf[acc.remaining[i].unit]] \cap ServicesOf(acc.remaining) = {}}
      first == CHOOSE i \in ready : \A j \in ready : i <= j
  IN  [sorted    |-> Append(acc.sorted, acc.remaining[first]),
       remaining |-> RemoveAt(acc.remaining, first)]

\* Mutant: creates before updates, whatever depends on what.
keepEntryOrder(entries) == entries

\* As many rounds as there are entries: dependencies have no cycle.
topologicallySortByDependency(entries) ==
  LET round[n \in 0 .. Len(entries)] ==
        IF n = 0 THEN [sorted |-> <<>>, remaining |-> entries] ELSE SequenceNext(round[n - 1])
      sequenced == round[Len(entries)]
  IN  [i \in DOMAIN entries |-> sequenced.sorted[i]]

\* Two operations for each entry, one right after the other.
PairsFor(first, second, entries) ==
  [n \in 1 .. 2 * Len(entries) |->
     Operation(IF n % 2 = 1 THEN first ELSE second, entries[(n + 1) \div 2].unit)]

StartAndWait(entries) == PairsFor("service.start", "readiness.wait", entries)

VerifyAndPull(entries) ==
  PairsFor("image.verify", "image.pull",
           Pick(entries, {i \in DOMAIN entries : entries[i].imageChanged}))

buildOperations(b, d, create, update, remove, needing, missingNetworks, repaired) ==
  LET touched == create \o update
      anyChange == \/ touched \o remove # <<>> \/ needing # {} \/ repaired # {}
                   \/ b.topologyDigest # d.topologyDigest \/ missingNetworks # {}
  IN  When(anyChange /\ b.mode = "bootstrap", "host.prepare", "host")
        \o When(anyChange, "secret.ensure", "secrets.sops.yaml")
        \o ForResources("volume.ensure", ServiceOrder, d.volumes \ b.volumes)
        \o ForResources("network.ensure", <<"hof">> \o ServiceOrder,
                        missingNetworks \cup (d.networks \ b.networks))
        \o VerifyAndPull(touched)
        \o ForUnits("service.stop", update)
        \o ForUnits("service.stop", remove)
        \o When(anyChange, "config.write", "compose.yml")
        \o ForUnits("service.remove", remove)
        \o ForResources("database.migrate", ServiceOrder, needing)
        \o StartAndWait(topologicallySortByDependency(touched))
        \o When(anyChange, "state.commit", "state/current.json")

\* Mutant: every change delivers every required secret.
scopedSecretNamesAll(b, m, touched) == requiredSecrets(m)

\* The secrets the plan's secret.ensure is approved to deliver.
scopedSecretNames(b, m, touched) ==
  IF b.mode = "bootstrap" THEN requiredSecrets(m)
  ELSE UNION {secretsOf(u, m) : u \in TouchedUnits(touched)}

buildPlan(b, m, o, repairDrift) ==
  LET d == topologyToServiceState(m)
      drift == computeDrift(b, o)
      generatedDrift == computeGeneratedDrift(b, o)
      missingVolumes == computeMissingResources(b.volumes, o, o.volumes)
      missingNetworks == computeMissingResources(b.networks, o, o.networks)
      diff == diffUnits(b, d)
      create == diff.create
      repairable == {e \in generatedDrift : \/ e.kind = "generated-missing"
                                            \/ e.kind = "generated-modified" /\ repairDrift}
      withMissing == foldRepairs("missing", d, drift, create, diff.update)
      withManual == IF repairDrift THEN foldRepairs("manual-change", d, drift, create, withMissing)
                                   ELSE withMissing
      withGateway == foldGatewayRestartForCaddyfile(d, repairable, create, withManual)
      imageChanged == {e.unit : e \in {f \in ToSet(create \o withGateway) : f.imageChanged}}
      needing == servicesNeedingMigration(b, d, imageChanged)
      update == foldMigrationOnlyIntoUpdates(d, needing, create, withGateway)
      blockers == computeBlockers(b, o, drift, generatedDrift, missingVolumes, repairDrift,
                                  migrationBlockers(b, m, needing)
                                    \cup computeUpgradeBlockers(b, d, withGateway)
                                    \cup retainBlockers(m, diff.remove))
  IN  [mode       |-> b.mode,
       manifest   |-> m,
       generation |-> b.generation + 1,
       retained   |-> computeRetainedServices(b, m, diff.remove, create),
       secrets    |-> scopedSecretNames(b, m, create \o update),
       operations |-> buildOperations(b, d, create, update, diff.remove, needing,
                                      missingNetworks, repairable),
       blockers   |-> blockers]

executable(p) == p.blockers = {}

-----------------------------------------------------------------------------
(* validateBootstrapActions() and validateAppliedActions()                 *)

COMMON_ACTIONS ==
  {"secret.ensure", "volume.ensure", "network.ensure", "image.verify", "image.pull", "config.write",
   "database.migrate", "service.start", "readiness.wait", "state.commit"}
BOOTSTRAP_ALLOWED_ACTIONS == COMMON_ACTIONS \cup {"host.prepare"}
APPLIED_ALLOWED_ACTIONS == COMMON_ACTIONS \cup {"service.stop", "service.remove"}

ActionsAllowed(p) ==
  {p.operations[i].action : i \in DOMAIN p.operations} \subseteq
    (IF p.mode = "bootstrap" THEN BOOTSTRAP_ALLOWED_ACTIONS ELSE APPLIED_ALLOWED_ACTIONS)
=============================================================================
