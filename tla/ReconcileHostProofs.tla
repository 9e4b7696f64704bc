------------------------- MODULE ReconcileHostProofs -------------------------
(***************************************************************************)
(* Proofs about the host under Reconcile, for any catalog, any manifests   *)
(* and any number of edits, hand changes, failures and rotations: every    *)
(* operation of a plan can succeed when its turn comes, a commit leaves no *)
(* secret delivered in vain, a plan is a no-op only when nothing needs     *)
(* doing, and planning again what was just committed finds nothing to do.  *)
(***************************************************************************)
EXTENDS ReconcileProofs

-----------------------------------------------------------------------------
(* The operation that runs.                                                *)

\* What plan p asks of each unit, volume and secret is complete.
OperationsFit(p) ==
  /\ \A o \in ToSet(p.operations) : o = Operation(o.action, o.resource)
  /\ \A u : Has(p, "service.start", u) =>
              u \in RenderedUnits(p.manifest) /\ secretsOf(u, p.manifest) \subseteq p.secrets
  /\ \A u : Has(p, "readiness.wait", u) => Has(p, "service.start", u)
  /\ \A u : Has(p, "service.stop", u) /\ u \in RenderedUnits(p.manifest) => Has(p, "service.start", u)
  /\ \A u : Has(p, "service.remove", u) => u \in Units \ RenderedUnits(p.manifest)
  /\ \A s : Has(p, "database.migrate", s) =>
              s \in Persistent \cap Enabled(p.manifest) /\ Has(p, "service.start", DbUnit[s])
  /\ \A s : Has(p, "volume.ensure", s) =>
              s \in WithVolume /\ (s \in Persistent => Has(p, "database.migrate", s))
  /\ \A n : Has(p, "network.ensure", n) => n \in {"hof"} \cup Isolated
  /\ \A s \in p.secrets : /\ s \in requiredSecrets(p.manifest)
                          /\ \E u \in Consumers[s] : Has(p, "service.start", u)

\* The plan fits the record c it was made against.
DocumentOf(p, c) ==
  /\ p.mode \in {"bootstrap", "applied"} /\ p.manifest \in Manifests /\ Renders(p.manifest)
  /\ p.generation = c.generation + 1 /\ p.generation <= MaxGeneration
  /\ c.generation > 0 => p.manifest.release = c.manifest.release
  /\ \A s \in Persistent :
       p.retained[s] # 0 => /\ c.generation > 0
                            /\ p.retained[s] = Schema[p.manifest.release][s].to
                            /\ s \in ExpectedVolumes(c)

PlanFits ==
  /\ pos \in 1 .. Len(plan.operations)
  /\ Ordered(plan.operations, 1, 11) /\ StartsInOrder(plan.operations)
  /\ OperationsFit(plan) /\ DocumentOf(plan, current)

\* The operations that are still to be done, the current one included.
Todo == {plan.operations[i] : i \in pos .. Len(plan.operations)}
Ahead(action, resource) == Operation(action, resource) \in Todo

\* The secrets that the started units need are in the store, and delivered once it was
\* their turn.
SecretsInvariant ==
  /\ \A s \in requiredSecrets(plan.manifest) : store[s] > 0
  /\ ~Ahead("secret.ensure", "secrets.sops.yaml") => \A s \in plan.secrets : secrets[s] = store[s]

\* What the manifest needs is on the host or is still to be made.
ResourcesInvariant ==
  /\ docker = "available" \/ Ahead("host.prepare", "host")
  /\ \A s \in Enabled(plan.manifest) \cap WithVolume : s \in DOMAIN volumes \/ Ahead("volume.ensure", s)
  /\ \A n \in Networks(plan.manifest) : n \in networks \/ Ahead("network.ensure", n)
  /\ ~Ahead("config.write", "compose.yml") => \A f \in Files : files[f] = Rendered(f)
  /\ \A s \in Persistent \cap Enabled(plan.manifest) \cap DOMAIN volumes :
       ~Ahead("database.migrate", s) => volumes[s] = Schema[plan.manifest.release][s].to
  /\ current.generation > 0 => ExpectedVolumes(current) \subseteq DOMAIN volumes

\* A unit is as the manifest wants it, or is stopped and started again, or is removed.
UnitsInvariant ==
  /\ \A u \in RenderedUnits(plan.manifest) :
       ~Ahead("service.start", u) => UnitUp(u) /\ containers[u].image = plan.manifest.release
  /\ \A u \in RenderedUnits(plan.manifest) :
       Ahead("service.start", u) /\ ~Ahead("service.stop", u) => ~UnitUp(u)
  /\ \A u \in Units : Ahead("service.remove", u) /\ ~Ahead("service.stop", u) => ~UnitUp(u)
  /\ \A u \in DOMAIN containers : u \in RenderedUnits(plan.manifest) \/ Ahead("service.remove", u)
  /\ \A u \in Units : Has(plan, "service.start", u) /\ ~Ahead("service.start", u) =>
       \A s \in secretsOf(u, plan.manifest) : containers[u].secrets[s] = secrets[s]

\* The unit was started from what m describes.
AsDescribed(u, m) ==
  containers[u].definition = Definition(u, m) /\ (u = Gateway => containers[u].caddyfile = renderCaddy(m))

\* As long as no operation failed: units that are not started again run what the manifest
\* describes, and secrets that are not delivered again are in use.
CleanOperation ==
  /\ \A u \in RenderedUnits(plan.manifest) : ~Ahead("service.start", u) => AsDescribed(u, plan.manifest)
  /\ \A s \in requiredSecrets(plan.manifest) \ plan.secrets :
       \E u \in Consumers[s] : /\ u \in RenderedUnits(plan.manifest) /\ ~Has(plan, "service.start", u)
                               /\ containers[u].secrets[s] = secrets[s]

\* The same between operations, for the containers that are left.
CleanRecord ==
  /\ \A u \in DOMAIN containers \cap RenderedUnits(current.manifest) : AsDescribed(u, current.manifest)
  /\ \A s \in requiredSecrets(current.manifest) :
       \E u \in Consumers[s] : /\ ServiceOf[u] \in Mandatory \cup {s}
                               /\ u \in DOMAIN containers => containers[u].secrets[s] = secrets[s]

\* The data that a baseline expects has the recorded schema version, if it is there.
RecordedData ==
  \A s \in Persistent :
    /\ s \in ExpectedVolumes(current) /\ s \in DOMAIN volumes =>
         volumes[s] = Schema[current.manifest.release][s].to
    /\ current.retained[s] \in {0, Schema[current.manifest.release][s].to}

\* Nothing happened on the host since the last commit.
SettledHost ==
  /\ pos = 0 /\ current.generation > 0 /\ docker = "available"
  /\ DOMAIN containers = RenderedUnits(current.manifest)
  /\ \A u \in DOMAIN containers : UnitUp(u) /\ containers[u].image = current.manifest.release
  /\ ExpectedVolumes(current) \subseteq DOMAIN volumes
  /\ Networks(current.manifest) \subseteq networks
  /\ \A f \in Files : /\ files[f].status = "present"
                      /\ files[f].contents = FileContents(f, current.manifest, current.generation)

HostType ==
  /\ manifest \in Manifests /\ current.manifest \in Manifests
  /\ current.generation \in 0 .. MaxGeneration /\ Len(plan.operations) \in Nat
  /\ pos \in 0 .. Len(plan.operations)
  /\ budget \in [edits : Nat, tampers : Nat, failures : 0 .. MaxFailures, rotations : Nat]
  /\ docker \in {"absent", "available"}

\* The inductive invariant.
HostInv ==
  /\ HostType
  /\ pos = 0 => plan = NoPlan
  /\ current.generation > 0 => RecordedData
  /\ pos > 0 => PlanFits /\ SecretsInvariant /\ ResourcesInvariant /\ UnitsInvariant
  /\ pos > 0 /\ Clean => CleanOperation
  /\ pos = 0 /\ current.generation > 0 /\ Clean => CleanRecord
  /\ settled => SettledHost

-----------------------------------------------------------------------------
(* An operation begins.                                                    *)

\* The schema versions that a record retains are those of its release.
RetainedFits(c) ==
  c.generation > 0 =>
    \A s \in Persistent : c.retained[s] \in {0, Schema[c.manifest.release][s].to}

\* A plan that can be executed, with its parts.
FreshPlan(c, m, o, repairDrift, b, d, p, anyChange, V, W, C, U, R, N) ==
  /\ repairDrift \in BOOLEAN /\ Planned(c, m, o, repairDrift, b, d, p) /\ executable(p)
  /\ anyChange \in BOOLEAN /\ PlanParts(m, o, repairDrift, b, d, p, anyChange, V, W, C, U, R, N)

\* buildOperations(): what a plan asks for is complete.
LEMMA FreshOperationsFit ==
  ASSUME NEW c, NEW m, NEW o, NEW repairDrift, NEW b, NEW d, NEW p, NEW anyChange, NEW V, NEW W,
         NEW C, NEW U, NEW R, NEW N,
         FreshPlan(c, m, o, repairDrift, b, d, p, anyChange, V, W, C, U, R, N)
  PROVE  OperationsFit(p)
<1>0. /\ repairDrift \in BOOLEAN /\ Planned(c, m, o, repairDrift, b, d, p) /\ executable(p)
      /\ PlanParts(m, o, repairDrift, b, d, p, anyChange, V, W, C, U, R, N)
      /\ c.manifest \in Manifests /\ c.generation \in Nat /\ m \in Manifests
  BY DEF FreshPlan, Planned
<1>1. Recorded(c, b) /\ Desired(m, d)
  BY <1>0, PlannedFrom
<1>2. /\ Asks(p, b.mode = "bootstrap", anyChange, V, W, C, U, R, N)
      /\ V = d.volumes \ b.volumes
      /\ W = computeMissingResources(b.networks, o, o.networks) \cup (d.networks \ b.networks)
      /\ C = DOMAIN d.units \ DOMAIN b.units /\ R = DOMAIN b.units \ DOMAIN d.units
      /\ UpdatesFit(b, d, computeDrift(b, o), repairDrift, C, U, N)
      /\ DocumentFits(b, m, p, C, U, R)
  BY <1>0 DEF PlanParts
<1>3. /\ \A o_ \in ToSet(p.operations) : o_ = Operation(o_.action, o_.resource)
      /\ \A r : Has(p, "volume.ensure", r) <=> r \in V
      /\ \A r : Has(p, "network.ensure", r) <=> r \in W
      /\ \A r : Has(p, "service.stop", r) <=> r \in U \cup R
      /\ \A r : Has(p, "service.remove", r) <=> r \in R
      /\ \A r : Has(p, "database.migrate", r) <=> r \in N
      /\ \A r : Has(p, "service.start", r) <=> r \in C \cup U
      /\ \A r : Has(p, "readiness.wait", r) <=> r \in C \cup U
  BY <1>2 DEF Asks
<1>4. /\ p.manifest = m
      /\ p.secrets = IF b.mode = "bootstrap" THEN requiredSecrets(m)
                                             ELSE UNION {secretsOf(u, m) : u \in C \cup U}
  BY <1>2 DEF DocumentFits
<1>5. /\ U \subseteq RenderedUnits(m) /\ C \subseteq RenderedUnits(m) /\ R \subseteq Units \ RenderedUnits(m)
      /\ N \subseteq Persistent \cap Enabled(m) /\ \A s \in N : DbUnit[s] \in C \cup U
      /\ \A s \in (Persistent \cap Enabled(m)) \ N :
           IF s \in b.enabled THEN b.schemaVersion[s] = d.schemaVersion[s]
                              ELSE b.retained[s] # 0 /\ b.retained[s] = d.schemaVersion[s]
  <2>1. DOMAIN b.units \subseteq Units
    BY <1>0, PlanDomains
  <2> QED
    BY <1>1, <1>2, <2>1 DEF UpdatesFit, Desired
<1>6. \A u : Has(p, "service.start", u) =>
               u \in RenderedUnits(p.manifest) /\ secretsOf(u, p.manifest) \subseteq p.secrets
  BY <1>3, <1>4, <1>5 DEF secretsOf
<1>7. \A s : Has(p, "volume.ensure", s) =>
               s \in WithVolume /\ (s \in Persistent => Has(p, "database.migrate", s))
  <2>1. SUFFICES ASSUME NEW s \in V PROVE s \in WithVolume /\ (s \in Persistent => s \in N)
    BY <1>3
  <2>2. s \in Enabled(m) \cap WithVolume /\ s \notin b.volumes
    BY <1>1, <1>2 DEF Desired
  <2>3. ASSUME s \in Persistent, s \notin N PROVE FALSE
    <3>1. IF s \in b.enabled THEN TRUE ELSE b.retained[s] # 0
      BY <1>5, <2>2, <2>3
    <3>2. c.generation # 0 /\ b.volumes = ExpectedVolumes(c)
      BY <1>1, <2>3, <3>1 DEF Recorded
    <3>3. s \in Enabled(c.manifest) \/ c.retained[s] # 0
      BY <1>1, <3>1, <3>2 DEF Recorded
    <3> QED
      BY <2>2, <2>3, <3>2, <3>3 DEF ExpectedVolumes, RetainedServices
  <2> QED
    BY <2>2, <2>3
<1>8. W \subseteq {"hof"} \cup Isolated
  <2>1. b.networks \subseteq {"hof"} \cup Isolated /\ d.networks \subseteq {"hof"} \cup Isolated
    BY <1>1 DEF Recorded, Desired, Networks
  <2> QED
    BY <1>2, <2>1 DEF computeMissingResources
<1>9. ASSUME NEW s \in p.secrets
      PROVE  s \in requiredSecrets(m) /\ \E u \in Consumers[s] : u \in C \cup U
  <2>1. CASE b.mode = "bootstrap"
    <3>1. s \in requiredSecrets(m) /\ DOMAIN b.units = {}
      BY <1>1, <1>4, <2>1 DEF Recorded
    <3>2. s \in WithSecret /\ s \in Enabled(m)
      BY <3>1 DEF requiredSecrets
    <3>3. PICK u \in Consumers[s] : u \in Units /\ ServiceOf[u] = s
      BY <3>2, ConsumersAssumption
    <3>4. u \in RenderedUnits(m)
      BY <3>2, <3>3 DEF RenderedUnits
    <3> QED
      BY <1>1, <1>2, <3>1, <3>3, <3>4 DEF Desired
  <2>2. CASE b.mode # "bootstrap"
    BY <1>4, <2>2 DEF secretsOf
  <2> QED
    BY <2>1, <2>2
<1>10. /\ \A u : Has(p, "readiness.wait", u) => Has(p, "service.start", u)
       /\ \A u : Has(p, "service.stop", u) /\ u \in RenderedUnits(p.manifest) => Has(p, "service.start", u)
       /\ \A u : Has(p, "service.remove", u) => u \in Units \ RenderedUnits(p.manifest)
       /\ \A s : Has(p, "database.migrate", s) =>
                   s \in Persistent \cap Enabled(p.manifest) /\ Has(p, "service.start", DbUnit[s])
       /\ \A n : Has(p, "network.ensure", n) => n \in {"hof"} \cup Isolated
       /\ \A s \in p.secrets : /\ s \in requiredSecrets(p.manifest)
                               /\ \E u \in Consumers[s] : Has(p, "service.start", u)
  BY <1>3, <1>4, <1>5, <1>8, <1>9
<1> QED
  BY <1>3, <1>6, <1>7, <1>10 DEF OperationsFit

\* computeRetainedServices(), computeUpgradeBlockers(): the release stays, and what is retained
\* is data that is expected now.
LEMMA FreshDocumentFits ==
  ASSUME NEW c, NEW m, NEW o, NEW repairDrift, NEW b, NEW d, NEW p, NEW anyChange, NEW V, NEW W,
         NEW C, NEW U, NEW R, NEW N,
         FreshPlan(c, m, o, repairDrift, b, d, p, anyChange, V, W, C, U, R, N),
         RetainedFits(c), Renders(m), c.generation < MaxGeneration
  PROVE  DocumentOf(p, c)
<1>0. /\ repairDrift \in BOOLEAN /\ Planned(c, m, o, repairDrift, b, d, p) /\ executable(p)
      /\ c.manifest \in Manifests /\ c.generation \in Nat /\ m \in Manifests
  BY DEF FreshPlan, Planned
<1>1. Recorded(c, b) /\ Desired(m, d)
  BY <1>0, PlannedFrom
<1>2. Unblocked(m, o, repairDrift, b, d)
  BY <1>0, NothingBlocks
<1>3. /\ R = DOMAIN b.units \ DOMAIN d.units
      /\ p.mode = b.mode /\ p.manifest = m /\ p.generation = b.generation + 1
      /\ p.retained = [s \in Persistent |->
                     CASE s \in {ServiceOf[u] : u \in C} -> 0
                       [] s \in {ServiceOf[u] : u \in R} /\ s \in m.retain -> b.schemaVersion[s]
                       [] OTHER -> b.retained[s]]
  BY DEF FreshPlan, PlanParts, DocumentFits
<1>4. c.generation > 0 => p.manifest.release = c.manifest.release
  BY <1>0, <1>1, <1>2, <1>3 DEF Recorded, Desired, Unblocked
<1>5. ASSUME NEW s \in Persistent, p.retained[s] # 0
      PROVE  /\ c.generation > 0 /\ p.retained[s] = Schema[p.manifest.release][s].to
             /\ s \in ExpectedVolumes(c)
  <2>1. \/ s \in {ServiceOf[u] : u \in R} /\ p.retained[s] = b.schemaVersion[s]
        \/ p.retained[s] = b.retained[s]
    BY <1>3, <1>5
  <2>2. CASE s \in {ServiceOf[u] : u \in R} /\ p.retained[s] = b.schemaVersion[s]
    <3>1. PICK u \in R : s = ServiceOf[u]
      BY <2>2
    <3>2. c.generation # 0 /\ u \in RenderedUnits(c.manifest)
      BY <1>1, <1>3, <3>1 DEF Recorded
    <3>3. s \in Enabled(c.manifest) /\ s \in WithVolume
      BY <3>1, <3>2, CatalogAssumption DEF RenderedUnits
    <3>4. b.schemaVersion[s] = Schema[c.manifest.release][s].to
      BY <1>1, <3>2, <3>3 DEF Recorded
    <3> QED
      BY <1>0, <1>4, <2>2, <3>2, <3>3, <3>4 DEF ExpectedVolumes
  <2>3. CASE p.retained[s] = b.retained[s]
    <3>1. c.generation # 0 /\ c.retained[s] = p.retained[s]
      BY <1>1, <1>5, <2>3 DEF Recorded
    <3>2. c.retained[s] = Schema[c.manifest.release][s].to /\ c.generation > 0
      BY <1>0, <1>5, <3>1 DEF RetainedFits
    <3> QED
      BY <1>4, <1>5, <3>1, <3>2 DEF ExpectedVolumes, RetainedServices
  <2> QED
    BY <2>1, <2>2, <2>3
<1>6. /\ p.mode \in {"bootstrap", "applied"} /\ p.generation = c.generation + 1
      /\ p.generation <= MaxGeneration
  <2>1. b.mode \in {"bootstrap", "applied"} /\ b.generation = c.generation
    BY <1>1 DEF Recorded
  <2> QED
    BY <1>0, <1>3, <2>1, BoundsAssumption
<1> QED
  BY <1>0, <1>3, <1>4, <1>5, <1>6 DEF DocumentOf

\* What is on the host, and what the plan makes of it.
HostFits(c, m, o, p) ==
  /\ \A u \in RenderedUnits(m) : ~Has(p, "service.start", u) =>
       /\ c.generation > 0 /\ u \in RenderedUnits(c.manifest) /\ u \in DOMAIN o.containers
       /\ unitConfigFingerprint(u, m) = unitConfigFingerprint(u, c.manifest)
       /\ o.containers[u].image = m.release /\ o.containers[u].state = "running"
  /\ \A u : Has(p, "service.start", u) /\ ~Has(p, "service.stop", u) => u \notin DOMAIN o.containers
  /\ \A u : Has(p, "service.remove", u) => Has(p, "service.stop", u)
  /\ \A u \in DOMAIN o.containers : u \in RenderedUnits(m) \/ Has(p, "service.remove", u)
  /\ \A s \in Persistent \cap Enabled(m) : ~Has(p, "database.migrate", s) =>
       c.generation > 0 /\ s \in ExpectedVolumes(c)
  /\ \A s \in Enabled(m) \cap WithVolume : s \in o.volumes \/ Has(p, "volume.ensure", s)
  /\ \A n \in Networks(m) : n \in o.networks \/ Has(p, "network.ensure", n)
  /\ c.generation > 0 => o.docker = "available" /\ ExpectedVolumes(c) \subseteq o.volumes

\* computeDrift(), diffUnits(): what the plan leaves alone is as it should be, and what it
\* starts without stopping it is not there.
LEMMA FreshPlanFitsHost ==
  ASSUME NEW c, NEW m, NEW o, NEW repairDrift, NEW b, NEW d, NEW p, NEW anyChange, NEW V, NEW W,
         NEW C, NEW U, NEW R, NEW N,
         FreshPlan(c, m, o, repairDrift, b, d, p, anyChange, V, W, C, U, R, N), BaselineResolves(c, o)
  PROVE  HostFits(c, m, o, p)
<1>0. /\ repairDrift \in BOOLEAN /\ Planned(c, m, o, repairDrift, b, d, p) /\ executable(p)
      /\ PlanParts(m, o, repairDrift, b, d, p, anyChange, V, W, C, U, R, N)
      /\ c.manifest \in Manifests /\ c.generation \in Nat /\ m \in Manifests
  BY DEF FreshPlan, Planned
<1>1. Recorded(c, b) /\ Desired(m, d)
  BY <1>0, PlannedFrom
<1>2. Unblocked(m, o, repairDrift, b, d)
  BY <1>0, NothingBlocks
<1>3. /\ Asks(p, b.mode = "bootstrap", anyChange, V, W, C, U, R, N)
      /\ V = d.volumes \ b.volumes
      /\ W = computeMissingResources(b.networks, o, o.networks) \cup (d.networks \ b.networks)
      /\ C = DOMAIN d.units \ DOMAIN b.units /\ R = DOMAIN b.units \ DOMAIN d.units
      /\ UpdatesFit(b, d, computeDrift(b, o), repairDrift, C, U, N)
  BY <1>0 DEF PlanParts
<1>4. /\ \A r : Has(p, "volume.ensure", r) <=> r \in V
      /\ \A r : Has(p, "network.ensure", r) <=> r \in W
      /\ \A r : Has(p, "service.stop", r) <=> r \in U \cup R
      /\ \A r : Has(p, "service.remove", r) <=> r \in R
      /\ \A r : Has(p, "database.migrate", r) <=> r \in N
      /\ \A r : Has(p, "service.start", r) <=> r \in C \cup U
  BY <1>3 DEF Asks
<1>5. /\ DOMAIN d.units = RenderedUnits(m)
      /\ C = RenderedUnits(m) \ DOMAIN b.units /\ R = DOMAIN b.units \ RenderedUnits(m)
  BY <1>1, <1>3 DEF Desired
<1>6. c.generation > 0 =>
        /\ o.docker = "available" /\ DOMAIN b.units = RenderedUnits(c.manifest)
        /\ ExpectedVolumes(c) \subseteq o.volumes
  BY <1>0, <1>1, <1>2 DEF Recorded, Unblocked, computeMissingResources
<1>7. c.generation = 0 =>
        /\ DOMAIN o.containers = {} /\ DOMAIN b.units = {} /\ b.volumes = {} /\ b.networks = {}
        /\ b.enabled = {} /\ \A s \in Persistent : b.retained[s] = 0
  BY <1>1 DEF Recorded, BaselineResolves
<1>8. c.generation > 0 =>
        /\ \A u \in DOMAIN b.units \ DOMAIN o.containers : [unit |-> u, kind |-> "missing"] \in computeDrift(b, o)
        /\ \A u \in DOMAIN b.units \cap DOMAIN o.containers :
             o.containers[u].image # b.units[u].image \/ o.containers[u].state # "running" =>
               [unit |-> u, kind |-> "manual-change"] \in computeDrift(b, o)
        /\ \A u \in DOMAIN o.containers \ DOMAIN b.units : [unit |-> u, kind |-> "unmanaged"] \in computeDrift(b, o)
  BY <1>6 DEF computeDrift
<1>9. ASSUME NEW u \in RenderedUnits(m), ~Has(p, "service.start", u)
      PROVE  /\ c.generation > 0 /\ u \in RenderedUnits(c.manifest) /\ u \in DOMAIN o.containers
             /\ unitConfigFingerprint(u, m) = unitConfigFingerprint(u, c.manifest)
             /\ o.containers[u].image = m.release /\ o.containers[u].state = "running"
  <2>1. u \in DOMAIN b.units /\ u \notin U
    BY <1>4, <1>5, <1>9
  <2>2. c.generation > 0 /\ u \in RenderedUnits(c.manifest)
    BY <1>0, <1>6, <1>7, <2>1
  <2>3. /\ d.units[u].configFingerprint = b.units[u].configFingerprint
        /\ [unit |-> u, kind |-> "missing"] \notin computeDrift(b, o)
        /\ ~(repairDrift /\ [unit |-> u, kind |-> "manual-change"] \in computeDrift(b, o))
    BY <1>3, <1>5, <2>1 DEF UpdatesFit
  <2>4. [unit |-> u, kind |-> "manual-change"] \notin computeDrift(b, o)
    BY <1>2, <2>3 DEF Unblocked
  <2>5. /\ u \in DOMAIN o.containers
        /\ o.containers[u].image = b.units[u].image /\ o.containers[u].state = "running"
    BY <1>8, <2>1, <2>2, <2>3, <2>4
  <2>6. c.generation # 0
    BY <2>2
  <2>7. b.units[u].image = m.release
    BY <1>1, <1>2, <2>2, <2>6 DEF Recorded, Desired, Unblocked
  <2>8. unitConfigFingerprint(u, m) = unitConfigFingerprint(u, c.manifest)
    BY <1>1, <2>2, <2>3, <2>6 DEF Recorded, Desired
  <2> QED
    BY <2>2, <2>5, <2>7, <2>8
<1>10. ASSUME NEW u, u \in DOMAIN o.containers PROVE u \in DOMAIN b.units
  <2>1. CASE c.generation = 0
    BY <1>7, <1>10, <2>1
  <2>2. CASE c.generation > 0
    BY <1>2, <1>8, <1>10, <2>2 DEF Unblocked
  <2> QED
    BY <1>0, <2>1, <2>2
<1>11. /\ \A u : Has(p, "service.start", u) /\ ~Has(p, "service.stop", u) => u \notin DOMAIN o.containers
       /\ \A u : Has(p, "service.remove", u) => Has(p, "service.stop", u)
       /\ \A u \in DOMAIN o.containers : u \in RenderedUnits(m) \/ Has(p, "service.remove", u)
  BY <1>4, <1>5, <1>10
<1>12. ASSUME NEW s \in Persistent \cap Enabled(m), ~Has(p, "database.migrate", s)
       PROVE  c.generation > 0 /\ s \in ExpectedVolumes(c)
  <2>1. IF s \in b.enabled THEN TRUE ELSE b.retained[s] # 0
    BY <1>1, <1>3, <1>4, <1>12 DEF UpdatesFit, Desired
  <2>2. c.generation # 0 /\ c.generation > 0
    BY <1>0, <1>7, <2>1
  <2>3. s \in Enabled(c.manifest) \/ c.retained[s] # 0
    BY <1>1, <2>1, <2>2 DEF Recorded
  <2> QED
    BY <2>2, <2>3, CatalogAssumption DEF ExpectedVolumes, RetainedServices
<1>13. ASSUME NEW s \in Enabled(m) \cap WithVolume PROVE s \in o.volumes \/ Has(p, "volume.ensure", s)
  <2>1. s \in V \/ s \in b.volumes
    BY <1>1, <1>3 DEF Desired
  <2>2. b.volumes \subseteq o.volumes
    BY <1>0, <1>1, <1>6, <1>7 DEF Recorded
  <2> QED
    BY <1>4, <2>1, <2>2
<1>14. ASSUME NEW n \in Networks(m) PROVE n \in o.networks \/ Has(p, "network.ensure", n)
  <2>1. n \in W \/ n \in b.networks
    BY <1>1, <1>3 DEF Desired
  <2>2. n \in b.networks => n \in o.networks \/ n \in W
    BY <1>0, <1>3, <1>6, <1>7 DEF computeMissingResources
  <2> QED
    BY <1>4, <2>1, <2>2
<1> QED
  BY <1>6, <1>9, <1>11, <1>12, <1>13, <1>14 DEF HostFits

\* A plan with operations is about a change.
LEMMA FreshPlanChanges ==
  ASSUME NEW c, NEW m, NEW o, NEW repairDrift, NEW b, NEW d, NEW p, NEW anyChange, NEW V, NEW W,
         NEW C, NEW U, NEW R, NEW N,
         FreshPlan(c, m, o, repairDrift, b, d, p, anyChange, V, W, C, U, R, N)
  PROVE  /\ p.operations # << >> => /\ Has(p, "secret.ensure", "secrets.sops.yaml")
                                    /\ Has(p, "config.write", "compose.yml")
                                    /\ c.generation = 0 => Has(p, "host.prepare", "host")
                                    /\ 1 \in 1 .. Len(p.operations)
         /\ Ordered(p.operations, 1, 11) /\ StartsInOrder(p.operations)
         /\ p.operations = << >> => ~anyChange
<1>0. /\ repairDrift \in BOOLEAN /\ Planned(c, m, o, repairDrift, b, d, p) /\ executable(p)
      /\ anyChange \in BOOLEAN
      /\ Asks(p, b.mode = "bootstrap", anyChange, V, W, C, U, R, N)
      /\ c.manifest \in Manifests /\ m \in Manifests
      /\ b = resolveBaseline(c) /\ p = buildPlan(b, m, o, repairDrift)
  BY DEF FreshPlan, PlanParts, Planned
<1>1. /\ IsSeq(p.operations)
      /\ p.operations # << >> => p.operations[Len(p.operations)].action = "state.commit"
  <2>1. IsSeq(p.operations)
    BY <1>0, ExecutablePlan
  <2>2. p.operations # << >> => p.operations[Len(p.operations)].action = "state.commit"
    BY <1>0, ExecutablePlan
  <2> QED
    BY <2>1, <2>2
<1>2. Recorded(c, b)
  BY <1>0, PlannedFrom
<1>3. /\ \A o_ \in ToSet(p.operations) : o_ = Operation(o_.action, o_.resource)
      /\ \A r : Has(p, "state.commit", r) => anyChange
      /\ anyChange => Has(p, "secret.ensure", "secrets.sops.yaml") /\ Has(p, "config.write", "compose.yml")
      /\ anyChange /\ b.mode = "bootstrap" => Has(p, "host.prepare", "host")
      /\ Ordered(p.operations, 1, 11) /\ StartsInOrder(p.operations)
  BY <1>0 DEF Asks
<1>4. ASSUME p.operations # << >> PROVE anyChange /\ 1 \in 1 .. Len(p.operations)
  <2>1. Len(p.operations) \in DOMAIN p.operations /\ 1 \in 1 .. Len(p.operations)
    BY <1>1, <1>4 DEF IsSeq
  <2>2. p.operations[Len(p.operations)] \in ToSet(p.operations)
    BY <2>1 DEF ToSet
  <2> QED
    BY <1>1, <1>3, <1>4, <2>1, <2>2 DEF Has
<1>5. p.operations = << >> => ~Has(p, "config.write", "compose.yml")
  BY DEF Has, ToSet
<1> QED
  BY <1>2, <1>3, <1>4, <1>5 DEF Recorded

\* A plan that was just made and approved fits the host.
LEMMA BeginKeepsHost ==
  ASSUME HostInv, NEW repairDrift \in BOOLEAN, BeginApply(repairDrift)
  PROVE  HostInv'
<1>1. PICK o : o = observation
  OBVIOUS
<1>2. PICK b : b = resolveBaseline(current)
  OBVIOUS
<1>3. PICK d : d = topologyToServiceState(manifest)
  OBVIOUS
<1>4. PICK p : p = buildPlan(b, manifest, o, repairDrift)
  OBVIOUS
<1>5. /\ pos = 0 /\ current.generation < MaxGeneration /\ Renders(manifest)
      /\ BaselineResolves(current, o) /\ \A s \in requiredSecrets(manifest) : store[s] > 0
      /\ executable(p) /\ p.operations # << >> /\ plan' = p /\ pos' = 1 /\ settled' = FALSE
      /\ UNCHANGED <<manifest, store, current, docker, containers, volumes, networks, files, secrets,
                     live, budget>>
  BY <1>1, <1>2, <1>4 DEF BeginApply, PlanNow, Idle, host
<1>6. /\ o.docker = docker /\ o.containers = containers /\ o.volumes = DOMAIN volumes
      /\ o.networks = networks
  BY <1>1 DEF observation
<1>7. /\ HostType /\ (current.generation > 0 => RecordedData) /\ RetainedFits(current)
      /\ manifest \in Manifests /\ current.manifest \in Manifests /\ current.generation \in Nat
  BY DEF HostInv, HostType, RecordedData, RetainedFits
<1>8. Planned(current, manifest, o, repairDrift, b, d, p)
  BY <1>2, <1>3, <1>4, <1>7 DEF Planned
<1>9. PICK anyChange, V, W, C, U, R, N :
        FreshPlan(current, manifest, o, repairDrift, b, d, p, anyChange, V, W, C, U, R, N)
  <2>1. PICK anyChange \in BOOLEAN : \E V, W, C, U, R, N :
          PlanParts(manifest, o, repairDrift, b, d, p, anyChange, V, W, C, U, R, N)
    BY <1>8, PlanInParts
  <2> QED
    BY <1>5, <1>8, <2>1 DEF FreshPlan
<1>10. OperationsFit(p) /\ DocumentOf(p, current) /\ HostFits(current, manifest, o, p)
  BY <1>5, <1>7, <1>9, FreshOperationsFit, FreshDocumentFits, FreshPlanFitsHost
<1>11. /\ Has(p, "secret.ensure", "secrets.sops.yaml") /\ Has(p, "config.write", "compose.yml")
       /\ current.generation = 0 => Has(p, "host.prepare", "host")
       /\ 1 \in 1 .. Len(p.operations)
       /\ Ordered(p.operations, 1, 11) /\ StartsInOrder(p.operations)
  BY <1>5, <1>9, FreshPlanChanges
<1>12. p.manifest = manifest
  BY <1>4, <1>8 DEF buildPlan
<1>13. ASSUME NEW action, NEW resource PROVE Ahead(action, resource)' <=> Has(p, action, resource)
  <2>1. DOMAIN p.operations = 1 .. Len(p.operations)
    BY <1>11 DEF Ordered, IsSeq
  <2> QED
    BY <1>5, <2>1 DEF Ahead, Todo, Has, ToSet
<1>14. PlanFits'
  BY <1>5, <1>10, <1>11 DEF PlanFits
<1>15. SecretsInvariant'
  BY <1>5, <1>11, <1>12, <1>13 DEF SecretsInvariant
<1>16. ResourcesInvariant'
  <2>1. docker = "available" \/ Has(p, "host.prepare", "host")
    BY <1>6, <1>7, <1>10, <1>11 DEF HostFits
  <2>2. /\ \A s \in Enabled(manifest) \cap WithVolume : s \in DOMAIN volumes \/ Has(p, "volume.ensure", s)
        /\ \A n \in Networks(manifest) : n \in networks \/ Has(p, "network.ensure", n)
        /\ current.generation > 0 => ExpectedVolumes(current) \subseteq DOMAIN volumes
    BY <1>6, <1>10 DEF HostFits
  <2>3. ASSUME NEW s \in Persistent \cap Enabled(manifest) \cap DOMAIN volumes, ~Has(p, "database.migrate", s)
        PROVE  volumes[s] = Schema[manifest.release][s].to
    <3>1. current.generation > 0 /\ s \in ExpectedVolumes(current)
      BY <1>10, <2>3 DEF HostFits
    <3>2. manifest.release = current.manifest.release
      BY <1>10, <1>12, <3>1 DEF DocumentOf
    <3> QED
      BY <1>7, <3>1, <3>2 DEF RecordedData
  <2>4. ExpectedVolumes(current)' = ExpectedVolumes(current)
    BY <1>5
  <2> QED
    BY <1>5, <1>11, <1>12, <1>13, <2>1, <2>2, <2>3, <2>4 DEF ResourcesInvariant
<1>17. UnitsInvariant'
  <2>1. /\ \A u \in RenderedUnits(manifest) :
             ~Has(p, "service.start", u) => UnitUp(u) /\ containers[u].image = manifest.release
        /\ \A u : Has(p, "service.start", u) /\ ~Has(p, "service.stop", u) => ~UnitUp(u)
        /\ \A u : Has(p, "service.remove", u) => Has(p, "service.stop", u)
        /\ \A u \in DOMAIN containers : u \in RenderedUnits(manifest) \/ Has(p, "service.remove", u)
    BY <1>6, <1>10 DEF HostFits, UnitUp
  <2>2. \A u : UnitUp(u)' <=> UnitUp(u)
    BY <1>5 DEF UnitUp
  <2> QED
    BY <1>5, <1>12, <1>13, <2>1, <2>2 DEF UnitsInvariant
<1>18. ASSUME Clean PROVE CleanOperation'
  <2>1. ASSUME NEW u \in RenderedUnits(manifest), ~Has(p, "service.start", u)
        PROVE  AsDescribed(u, manifest) /\ u \in DOMAIN containers /\ current.generation > 0
    <3>1. /\ current.generation > 0 /\ u \in RenderedUnits(current.manifest) /\ u \in DOMAIN containers
          /\ unitConfigFingerprint(u, manifest) = unitConfigFingerprint(u, current.manifest)
      BY <1>6, <1>10, <2>1 DEF HostFits
    <3>2. AsDescribed(u, current.manifest)
      BY <1>5, <1>18, <3>1 DEF HostInv, CleanRecord
    <3>3. /\ Definition(u, manifest) = Definition(u, current.manifest)
          /\ u = Gateway => renderCaddy(manifest) = renderCaddy(current.manifest)
      BY <3>1 DEF unitConfigFingerprint
    <3> QED
      BY <3>1, <3>2, <3>3 DEF AsDescribed
  <2>2. ASSUME NEW s \in requiredSecrets(manifest) \ p.secrets
        PROVE  \E u \in Consumers[s] : /\ u \in RenderedUnits(manifest) /\ ~Has(p, "service.start", u)
                                       /\ containers[u].secrets[s] = secrets[s]
    <3>1. ASSUME NEW u \in Consumers[s], ServiceOf[u] \in Mandatory \cup {s}
          PROVE  u \in RenderedUnits(manifest) /\ ~Has(p, "service.start", u)
      <4>1. u \in RenderedUnits(manifest) /\ s \in secretsOf(u, manifest)
        BY <2>2, <3>1, ConsumersAssumption DEF requiredSecrets, RenderedUnits, Enabled, secretsOf
      <4> QED
        BY <1>10, <1>12, <2>2, <4>1 DEF OperationsFit
    <3>2. PICK v \in Consumers[s] : ServiceOf[v] = s
      BY <2>2, ConsumersAssumption DEF requiredSecrets
    <3>3. /\ v \in RenderedUnits(manifest) /\ ~Has(p, "service.start", v)
          /\ current.generation > 0 /\ v \in RenderedUnits(current.manifest)
      BY <1>10, <3>1, <3>2 DEF HostFits
    <3>4. s \in requiredSecrets(current.manifest)
      BY <2>2, <3>2, <3>3 DEF requiredSecrets, RenderedUnits
    <3>5. CleanRecord
      BY <1>5, <1>18, <3>3 DEF HostInv
    <3>6. PICK u \in Consumers[s] : /\ ServiceOf[u] \in Mandatory \cup {s}
                                    /\ u \in DOMAIN containers => containers[u].secrets[s] = secrets[s]
      BY <3>4, <3>5 DEF CleanRecord
    <3>7. u \in RenderedUnits(manifest) /\ ~Has(p, "service.start", u) /\ u \in DOMAIN containers
      BY <2>1, <3>1, <3>6
    <3> QED
      BY <3>6, <3>7
  <2>3. \A u, m : AsDescribed(u, m)' <=> AsDescribed(u, m)
    BY <1>5 DEF AsDescribed
  <2> QED
    BY <1>5, <1>12, <1>13, <2>1, <2>2, <2>3 DEF CleanOperation
<1>19. HostType' /\ Clean' = Clean
  <2>1. Len(p.operations) \in Nat /\ 1 \in 0 .. Len(p.operations)
    BY <1>11 DEF Ordered, IsSeq
  <2> QED
    BY <1>5, <1>7, <2>1 DEF HostType, Clean
<1>20. current.generation > 0 => RecordedData'
  <2>1. ExpectedVolumes(current)' = ExpectedVolumes(current)
    BY <1>5
  <2> QED
    BY <1>5, <1>7, <2>1 DEF RecordedData
<1> QED
  BY <1>5, <1>14, <1>15, <1>16, <1>17, <1>18, <1>19, <1>20 DEF HostInv

-----------------------------------------------------------------------------
(* One operation at a time.                                                *)

\* Operations come in the order of their phases: what is ahead has no earlier phase than the
\* current operation, and what the plan has of a later phase is ahead.
LEMMA TurnOf ==
  ASSUME PlanFits, NEW op, op = plan.operations[pos]
  PROVE  /\ op = Operation(op.action, op.resource)
         /\ Ahead(op.action, op.resource) /\ Has(plan, op.action, op.resource)
         /\ \A a, r : Ahead(a, r) => Has(plan, a, r) /\ Phase(op.action) <= Phase(a)
         /\ \A a, r : Has(plan, a, r) /\ ~(Phase(a) <= Phase(op.action)) => Ahead(a, r)
         /\ Phase(op.action) \in Int
<1>1. PICK ops : ops = plan.operations
  OBVIOUS
<1>2. /\ pos \in 1 .. Len(ops) /\ IsSeq(ops)
      /\ \A i \in DOMAIN ops : Phase(ops[i].action) \in 1 .. 11
      /\ \A i, j \in DOMAIN ops : i <= j => Phase(ops[i].action) <= Phase(ops[j].action)
      /\ \A o \in ToSet(ops) : o = Operation(o.action, o.resource)
  BY <1>1 DEF PlanFits, Ordered, OperationsFit
<1>3. DOMAIN ops = 1 .. Len(ops) /\ Len(ops) \in Nat /\ pos \in Nat /\ pos \in DOMAIN ops
  BY <1>2 DEF IsSeq
<1>4. op \in ToSet(ops) /\ Phase(op.action) \in Int
  BY <1>1, <1>2, <1>3 DEF ToSet
<1>5. \A a, r : Ahead(a, r) <=> \E i \in pos .. Len(ops) : ops[i] = Operation(a, r)
  BY <1>1 DEF Ahead, Todo
<1>6. \A a, r : Has(plan, a, r) <=> \E i \in 1 .. Len(ops) : ops[i] = Operation(a, r)
  BY <1>1, <1>3 DEF Has, ToSet
<1>7. \A a, r : Operation(a, r).action = a
  BY DEF Operation
<1>8. op = Operation(op.action, op.resource)
  BY <1>2, <1>4
<1>9. Ahead(op.action, op.resource) /\ Has(plan, op.action, op.resource)
  BY <1>1, <1>3, <1>5, <1>6, <1>8
<1>10. ASSUME NEW a, NEW r, Ahead(a, r) PROVE Has(plan, a, r) /\ Phase(op.action) <= Phase(a)
  <2>1. PICK i \in pos .. Len(ops) : ops[i] = Operation(a, r)
    BY <1>5, <1>10
  <2>2. i \in 1 .. Len(ops) /\ pos <= i
    BY <1>3
  <2> QED
    BY <1>1, <1>2, <1>3, <1>6, <1>7, <2>1, <2>2
<1>11. ASSUME NEW a, NEW r, Has(plan, a, r), ~(Phase(a) <= Phase(op.action)) PROVE Ahead(a, r)
  <2>1. PICK i \in 1 .. Len(ops) : ops[i] = Operation(a, r)
    BY <1>6, <1>11
  <2>2. ~(i <= pos)
    BY <1>1, <1>2, <1>3, <1>7, <1>11, <2>1
  <2>3. i \in pos .. Len(ops)
    BY <1>3, <2>2
  <2> QED
    BY <1>5, <2>1, <2>3
<1> QED
  BY <1>4, <1>8, <1>9, <1>10, <1>11

\* What is ahead after the operation a0 on r0: what was ahead, except that operation.
Advances(a0, r0) ==
  /\ \A a, r : Ahead(a, r)' => Ahead(a, r)
  /\ \A a, r : Ahead(a, r) => Ahead(a, r)' \/ (a = a0 /\ r = r0)

\* The current operation is the unit's only start, and when a unit is awaited, it and what it
\* depends on have been started.
LEMMA OneOperationLess ==
  ASSUME PlanFits, NEW op, op = plan.operations[pos], pos' = pos + 1, plan' = plan
  PROVE  Advances(op.action, op.resource) /\ (op.action = "service.start" => ~Ahead("service.start", op.resource)')
<1>1. PICK ops : ops = plan.operations
  OBVIOUS
<1>2. /\ pos \in 1 .. Len(ops) /\ IsSeq(ops) /\ StartsInOrder(ops)
  BY <1>1 DEF PlanFits, Ordered
<1>3. DOMAIN ops = 1 .. Len(ops) /\ Len(ops) \in Nat /\ pos \in Nat /\ pos \in DOMAIN ops
  BY <1>2 DEF IsSeq
<1>4. \A a, r : Ahead(a, r) <=> \E i \in pos .. Len(ops) : ops[i] = Operation(a, r)
  BY <1>1 DEF Ahead, Todo
<1>5. \A a, r : Ahead(a, r)' <=> \E i \in (pos + 1) .. Len(ops) : ops[i] = Operation(a, r)
  BY <1>1 DEF Ahead, Todo
<1>6. \A i : i \in pos .. Len(ops) <=> i = pos \/ i \in (pos + 1) .. Len(ops)
  BY <1>3, <1>2
<1>7. \A a, r : Operation(a, r).action = a /\ Operation(a, r).resource = r
  BY DEF Operation
<1>8. Advances(op.action, op.resource)
  BY <1>1, <1>4, <1>5, <1>6, <1>7 DEF Advances
<1>9. ASSUME op.action = "service.start", Ahead("service.start", op.resource)' PROVE FALSE
  <2>1. PICK i \in (pos + 1) .. Len(ops) : ops[i] = Operation("service.start", op.resource)
    BY <1>5, <1>9
  <2>2. i \in DOMAIN ops /\ pos < i
    BY <1>3
  <2> QED
    BY <1>1, <1>2, <1>3, <1>7, <1>9, <2>1, <2>2 DEF StartsInOrder
<1> QED
  BY <1>8, <1>9

\* The same about a unit that is awaited.
LEMMA StartedBeforeAwaited ==
  ASSUME PlanFits, NEW op, op = plan.operations[pos], op.action = "readiness.wait"
  PROVE  \A v : Ahead("service.start", v) =>
            v # op.resource /\ ServiceOf[v] \notin DependsOn[ServiceOf[op.resource]]
<1>1. PICK ops : ops = plan.operations
  OBVIOUS
<1>2. /\ pos \in 1 .. Len(ops) /\ IsSeq(ops) /\ StartsInOrder(ops)
  BY <1>1 DEF PlanFits, Ordered
<1>3. DOMAIN ops = 1 .. Len(ops) /\ Len(ops) \in Nat /\ pos \in Nat /\ pos \in DOMAIN ops
  BY <1>2 DEF IsSeq
<1>4. \A a, r : Ahead(a, r) <=> \E i \in pos .. Len(ops) : ops[i] = Operation(a, r)
  BY <1>1 DEF Ahead, Todo
<1>5. \A a, r : Operation(a, r).action = a /\ Operation(a, r).resource = r
  BY DEF Operation
<1> SUFFICES ASSUME NEW v, Ahead("service.start", v)
             PROVE  v # op.resource /\ ServiceOf[v] \notin DependsOn[ServiceOf[op.resource]]
  OBVIOUS
<1>6. PICK i \in pos .. Len(ops) : ops[i] = Operation("service.start", v)
  BY <1>4
<1>7. i # pos
  BY <1>1, <1>5, <1>6
<1>8. i \in DOMAIN ops /\ pos < i
  BY <1>3, <1>7
<1> QED
  BY <1>1, <1>2, <1>3, <1>5, <1>6, <1>8 DEF StartsInOrder

-----------------------------------------------------------------------------
(* The roles.                                                              *)

\* The role of the operation op does its work, and the invariant holds.
Turn(op) ==
  /\ pos > 0 /\ op = plan.operations[pos] /\ op = Operation(op.action, op.resource)
  /\ PlanFits /\ SecretsInvariant /\ ResourcesInvariant /\ UnitsInvariant /\ (Clean => CleanOperation)
  /\ Has(plan, op.action, op.resource) /\ Phase(op.action) \in Int
  /\ \A a, r : Ahead(a, r) => Has(plan, a, r) /\ Phase(op.action) <= Phase(a)
  /\ \A a, r : Has(plan, a, r) /\ ~(Phase(a) <= Phase(op.action)) => Ahead(a, r)
  /\ Advances(op.action, op.resource)
  /\ op.action = "service.start" => ~Ahead("service.start", op.resource)'
  /\ plan' = plan /\ current' = current /\ store' = store /\ budget' = budget

\* So it is.
LEMMA TurnHolds ==
  ASSUME HostInv, NEW op, op = plan.operations[pos], pos > 0, Done
  PROVE  Turn(op)
<1>1. /\ PlanFits /\ SecretsInvariant /\ ResourcesInvariant /\ UnitsInvariant /\ (Clean => CleanOperation)
      /\ pos' = pos + 1 /\ plan' = plan /\ current' = current /\ store' = store /\ budget' = budget
  BY DEF HostInv, Done
<1>2. /\ op = Operation(op.action, op.resource) /\ Has(plan, op.action, op.resource)
      /\ \A a, r : Ahead(a, r) => Has(plan, a, r) /\ Phase(op.action) <= Phase(a)
      /\ \A a, r : Has(plan, a, r) /\ ~(Phase(a) <= Phase(op.action)) => Ahead(a, r)
      /\ Phase(op.action) \in Int
  BY <1>1, TurnOf
<1>3. Advances(op.action, op.resource) /\ (op.action = "service.start" => ~Ahead("service.start", op.resource)')
  BY <1>1, OneOperationLess
<1> QED
  BY <1>1, <1>2, <1>3 DEF Turn

\* What the role leaves on the host.
LeavesHost ==
  /\ docker' \in {"absent", "available"}
  /\ SecretsInvariant' /\ ResourcesInvariant' /\ UnitsInvariant' /\ (Clean => CleanOperation')
  /\ DOMAIN volumes \subseteq DOMAIN volumes'
  /\ \A s \in Persistent \cap DOMAIN volumes :
       volumes'[s] = volumes[s] \/ volumes'[s] = Schema[plan.manifest.release][s].to

\* Then the invariant holds for the next operation.
LEMMA WorkKeepsHost ==
  ASSUME HostInv, DataInv, NEW op, op = plan.operations[pos], pos > 0, op.action # "state.commit",
         Done, LeavesHost
  PROVE  HostInv'
<1>1. /\ HostType /\ PlanFits /\ (current.generation > 0 => RecordedData)
      /\ ResourcesInvariant /\ ~settled
  <2>1. settled => SettledHost
    BY DEF HostInv
  <2> QED
    BY <2>1 DEF HostInv, SettledHost
<1>2. /\ pos' = pos + 1 /\ settled' = settled
      /\ plan' = plan /\ current' = current /\ manifest' = manifest /\ budget' = budget
  BY DEF Done
<1>3. pos' \in 1 .. Len(plan.operations) /\ Len(plan.operations) \in Nat
  <2>1. PlanKeepsData
    BY DEF DataInv
  <2> QED
    BY <1>1, <1>2, <2>1 DEF PlanKeepsData, HostType
<1>4. PlanFits'
  BY <1>1, <1>2, <1>3 DEF PlanFits
<1>5. HostType' /\ (Clean' <=> Clean)
  BY <1>1, <1>2, <1>3 DEF HostType, LeavesHost, Clean
<1>6. current.generation > 0 => RecordedData'
  <2>1. SUFFICES ASSUME current.generation > 0 PROVE RecordedData'
    OBVIOUS
  <2>2. /\ RecordedData /\ ExpectedVolumes(current) \subseteq DOMAIN volumes
        /\ plan.manifest.release = current.manifest.release
    BY <1>1, <2>1 DEF ResourcesInvariant, PlanFits, DocumentOf
  <2>3. ExpectedVolumes(current)' = ExpectedVolumes(current)
    BY <1>2
  <2> QED
    BY <1>2, <2>2, <2>3 DEF RecordedData, LeavesHost
<1>7. pos' > 0
  BY <1>3
<1> QED
  BY <1>1, <1>2, <1>4, <1>5, <1>6, <1>7 DEF HostInv, LeavesHost

\* The secrets stay as they are.
LEMMA SecretsKept ==
  ASSUME NEW op, Turn(op), op.action # "secret.ensure", secrets' = secrets
  PROVE  SecretsInvariant'
<1>1. /\ SecretsInvariant /\ plan' = plan /\ store' = store
      /\ Ahead("secret.ensure", "secrets.sops.yaml") => Ahead("secret.ensure", "secrets.sops.yaml")'
  BY DEF Turn, Advances
<1> QED
  BY <1>1 DEF SecretsInvariant

\* So do the resources and files ...
LEMMA ResourcesKept ==
  ASSUME NEW op, Turn(op), UNCHANGED <<docker, volumes, networks, files>>,
         op.action \notin {"host.prepare", "volume.ensure", "network.ensure", "config.write",
                           "database.migrate"}
  PROVE  ResourcesInvariant'
<1>1. ResourcesInvariant /\ plan' = plan /\ current' = current
  BY DEF Turn
<1>2. \A a, r : a # op.action => (Ahead(a, r)' <=> Ahead(a, r))
  BY DEF Turn, Advances
<1>3. ExpectedVolumes(current)' = ExpectedVolumes(current)
  BY <1>1
<1>4. \A f : Rendered(f)' = Rendered(f)
  BY <1>1 DEF Rendered
<1> QED
  BY <1>1, <1>2, <1>3, <1>4 DEF ResourcesInvariant

\* ... and the containers.
LEMMA UnitsKept ==
  ASSUME NEW op, Turn(op), UNCHANGED <<containers, secrets>>,
         op.action \notin {"service.start", "service.stop", "service.remove"}
  PROVE  UnitsInvariant' /\ (Clean => CleanOperation')
<1>1. UnitsInvariant /\ (Clean => CleanOperation) /\ plan' = plan
  BY DEF Turn
<1>2. \A a, r : a # op.action => (Ahead(a, r)' <=> Ahead(a, r))
  BY DEF Turn, Advances
<1>3. \A u : UnitUp(u)' <=> UnitUp(u)
  BY DEF UnitUp
<1>4. \A u, m : AsDescribed(u, m)' <=> AsDescribed(u, m)
  BY DEF AsDescribed
<1>5. \A a, r : Has(plan, a, r)' <=> Has(plan, a, r)
  BY <1>1
<1>6. UnitsInvariant'
  BY <1>1, <1>2, <1>3, <1>5 DEF UnitsInvariant
<1>7. ASSUME Clean PROVE CleanOperation'
  BY <1>1, <1>2, <1>4, <1>5, <1>7 DEF CleanOperation
<1> QED
  BY <1>6, <1>7

\* Docker is installed, a network made, an image pulled, or a unit found healthy.
LEMMA SmallRolesKeepHost ==
  ASSUME HostInv, DataInv, hostPrepare \/ networkEnsure \/ imageVerifyOrPull \/ readinessWait
  PROVE  HostInv'
<1>1. PICK op : op = plan.operations[pos]
  OBVIOUS
<1>2. /\ pos > 0 /\ Done /\ UNCHANGED <<containers, volumes, files, secrets>>
      /\ op.action \in {"host.prepare", "network.ensure", "image.verify", "image.pull", "readiness.wait"}
  BY <1>1 DEF hostPrepare, networkEnsure, imageVerifyOrPull, readinessWait, At, host
<1>3. Turn(op)
  BY <1>1, <1>2, TurnHolds
<1>4. SecretsInvariant' /\ UnitsInvariant' /\ (Clean => CleanOperation')
  BY <1>2, <1>3, SecretsKept, UnitsKept
<1>5. docker \in {"absent", "available"}
  BY DEF HostInv, HostType
<1>6. /\ ResourcesInvariant /\ plan' = plan /\ current' = current
      /\ op = Operation(op.action, op.resource)
      /\ \A a, r : Ahead(a, r) => Ahead(a, r)' \/ (a = op.action /\ r = op.resource)
      /\ \A a, r : Ahead(a, r)' => Ahead(a, r)
  BY <1>3 DEF Turn, Advances
<1>7. docker' \in {"absent", "available"} /\ ResourcesInvariant'
  <2>1. ExpectedVolumes(current)' = ExpectedVolumes(current) /\ \A f : Rendered(f)' = Rendered(f)
    BY <1>6 DEF Rendered
  <2>2. CASE hostPrepare
    <3>1. docker' = "available" /\ networks' = networks /\ op.action = "host.prepare"
      BY <1>1, <2>2 DEF hostPrepare, At
    <3> QED
      BY <1>2, <1>6, <2>1, <3>1 DEF ResourcesInvariant
  <2>3. CASE networkEnsure
    <3>1. docker' = docker /\ networks' = networks \cup {op.resource} /\ op.action = "network.ensure"
      BY <1>1, <2>3 DEF networkEnsure, At, Resource
    <3> QED
      BY <1>2, <1>5, <1>6, <2>1, <3>1 DEF ResourcesInvariant
  <2>4. CASE imageVerifyOrPull \/ readinessWait
    <3>1. /\ UNCHANGED <<docker, volumes, networks, files>>
          /\ op.action \in {"image.verify", "image.pull", "readiness.wait"}
      BY <1>1, <2>4 DEF imageVerifyOrPull, readinessWait, At, host
    <3> QED
      BY <1>3, <1>5, <3>1, ResourcesKept
  <2> QED
    BY <2>2, <2>3, <2>4
<1>8. LeavesHost
  BY <1>2, <1>4, <1>7 DEF LeavesHost
<1> QED
  BY <1>1, <1>2, <1>8, WorkKeepsHost

\* secret.ensure: nothing was started yet that could hold an older version.
LEMMA SecretsKeepHost ==
  ASSUME HostInv, DataInv, secretEnsure
  PROVE  HostInv'
<1>1. PICK op : op = plan.operations[pos]
  OBVIOUS
<1>2. /\ pos > 0 /\ Done /\ UNCHANGED <<docker, containers, volumes, networks, files>>
      /\ op.action = "secret.ensure"
      /\ secrets' = [s \in WithSecret |-> IF s \in plan.secrets THEN store[s] ELSE secrets[s]]
  BY <1>1 DEF secretEnsure, At
<1>3. Turn(op)
  BY <1>1, <1>2, TurnHolds
<1>4. ResourcesInvariant'
  BY <1>2, <1>3, ResourcesKept
<1>5. /\ SecretsInvariant /\ UnitsInvariant /\ (Clean => CleanOperation)
      /\ plan' = plan /\ store' = store /\ OperationsFit(plan)
      /\ \A a, r : a # "secret.ensure" => (Ahead(a, r)' <=> Ahead(a, r))
      /\ \A u : Has(plan, "service.start", u) => Ahead("service.start", u)
  BY <1>2, <1>3, Phases DEF Turn, Advances, PlanFits
<1>6. SecretsInvariant'
  <2>1. \A s \in plan.secrets : s \in WithSecret
    BY <1>5 DEF OperationsFit, requiredSecrets
  <2>2. \A s \in plan.secrets : secrets'[s] = store[s]
    BY <1>2, <2>1
  <2> QED
    BY <1>5, <2>2 DEF SecretsInvariant
<1>7. \A u : UnitUp(u)' <=> UnitUp(u)
  BY <1>2 DEF UnitUp
<1>8. \A a, r : Has(plan, a, r)' <=> Has(plan, a, r)
  BY <1>5
<1>9. UnitsInvariant'
  BY <1>2, <1>5, <1>7, <1>8 DEF UnitsInvariant
<1>10. ASSUME Clean PROVE CleanOperation'
  <2>1. \A u, m : AsDescribed(u, m)' <=> AsDescribed(u, m)
    BY <1>2 DEF AsDescribed
  <2>2. \A s \in requiredSecrets(plan.manifest) \ plan.secrets : secrets'[s] = secrets[s]
    BY <1>2 DEF requiredSecrets
  <2> QED
    BY <1>2, <1>5, <1>8, <1>10, <2>1, <2>2 DEF CleanOperation
<1>11. docker \in {"absent", "available"}
  BY DEF HostInv, HostType
<1>12. LeavesHost
  BY <1>2, <1>4, <1>6, <1>9, <1>10, <1>11 DEF LeavesHost
<1> QED
  BY <1>1, <1>2, <1>12, WorkKeepsHost

\* volume.ensure and database.migrate: a volume that is made for a database is migrated later.
LEMMA VolumesKeepHost ==
  ASSUME HostInv, DataInv, volumeEnsure \/ databaseMigrate
  PROVE  HostInv'
<1>1. PICK op : op = plan.operations[pos]
  OBVIOUS
<1>2. /\ pos > 0 /\ Done /\ UNCHANGED <<docker, containers, networks, files, secrets>>
      /\ op.action \in {"volume.ensure", "database.migrate"}
  BY <1>1 DEF volumeEnsure, databaseMigrate, At
<1>3. Turn(op)
  BY <1>1, <1>2, TurnHolds
<1>4. SecretsInvariant' /\ UnitsInvariant' /\ (Clean => CleanOperation')
  BY <1>2, <1>3, SecretsKept, UnitsKept
<1>5. docker \in {"absent", "available"}
  BY DEF HostInv, HostType
<1>6. /\ ResourcesInvariant /\ plan' = plan /\ current' = current
      /\ op = Operation(op.action, op.resource) /\ OperationsFit(plan)
      /\ Has(plan, op.action, op.resource)
      /\ \A a, r : Ahead(a, r) => Ahead(a, r)' \/ (a = op.action /\ r = op.resource)
      /\ \A a, r : Ahead(a, r)' => Ahead(a, r)
  BY <1>3 DEF Turn, Advances, PlanFits
<1>7. ExpectedVolumes(current)' = ExpectedVolumes(current) /\ \A f : Rendered(f)' = Rendered(f)
  BY <1>6 DEF Rendered
<1>8. CASE volumeEnsure
  <2>1. /\ volumes' = IF op.resource \in DOMAIN volumes THEN volumes ELSE Put(volumes, op.resource, 0)
        /\ op.action = "volume.ensure"
    BY <1>1, <1>8 DEF volumeEnsure, At, Resource
  <2>2. /\ DOMAIN volumes' = DOMAIN volumes \cup {op.resource}
        /\ \A s \in DOMAIN volumes : volumes'[s] = volumes[s]
    BY <2>1 DEF Put
  <2>3. op.resource \in Persistent => Ahead("database.migrate", op.resource)
    <3>1. op.resource \in Persistent => Has(plan, "database.migrate", op.resource)
      BY <1>6, <2>1 DEF OperationsFit
    <3> QED
      BY <1>3, <2>1, <3>1, Phases DEF Turn
  <2>4. ResourcesInvariant'
    <3>1. \A s \in Persistent : Ahead("database.migrate", s)' <=> Ahead("database.migrate", s)
      BY <1>6, <2>1
    <3>2. \A s : s \in DOMAIN volumes' /\ (s \in Persistent => ~Ahead("database.migrate", s)) =>
                  s \in DOMAIN volumes \/ s \notin Persistent
      BY <2>2, <2>3
    <3>3. \A s \in Persistent \cap Enabled(plan.manifest) \cap DOMAIN volumes' :
            ~Ahead("database.migrate", s)' => volumes'[s] = Schema[plan.manifest.release][s].to
      BY <1>6, <2>2, <3>1, <3>2 DEF ResourcesInvariant
    <3>4. \A s \in Enabled(plan.manifest) \cap WithVolume : s \in DOMAIN volumes' \/ Ahead("volume.ensure", s)'
      BY <1>6, <2>2 DEF ResourcesInvariant
    <3> QED
      BY <1>2, <1>6, <1>7, <2>1, <2>2, <3>3, <3>4 DEF ResourcesInvariant
  <2>5. LeavesHost
    BY <1>2, <1>4, <1>5, <2>2, <2>4 DEF LeavesHost
  <2> QED
    BY <1>1, <1>2, <2>5, WorkKeepsHost
<1>9. CASE databaseMigrate
  <2>1. /\ volumes' = Put(volumes, op.resource, Schema[plan.manifest.release][op.resource].to)
        /\ op.action = "database.migrate"
    BY <1>1, <1>9 DEF databaseMigrate, At, Resource
  <2>2. /\ DOMAIN volumes' = DOMAIN volumes \cup {op.resource}
        /\ \A s \in DOMAIN volumes : s # op.resource => volumes'[s] = volumes[s]
        /\ volumes'[op.resource] = Schema[plan.manifest.release][op.resource].to
    BY <2>1 DEF Put
  <2>3. op.resource \in Enabled(plan.manifest) \cap WithVolume /\ ~Ahead("volume.ensure", op.resource)
    <3>1. op.resource \in Persistent \cap Enabled(plan.manifest)
      BY <1>6, <2>1 DEF OperationsFit
    <3>2. op.resource \in WithVolume
      BY <3>1, CatalogAssumption
    <3>3. Phase("volume.ensure") = 3 /\ Phase(op.action) = 9
      BY <2>1, Phases
    <3>4. Ahead("volume.ensure", op.resource) => Phase(op.action) <= Phase("volume.ensure")
      BY <1>3 DEF Turn
    <3> QED
      BY <3>1, <3>2, <3>3, <3>4
  <2>4. op.resource \in DOMAIN volumes
    BY <1>6, <2>3 DEF ResourcesInvariant
  <2>5. ResourcesInvariant'
    <3>1. \A s : s # op.resource => (Ahead("database.migrate", s)' <=> Ahead("database.migrate", s))
      BY <1>6, <2>1
    <3>2. DOMAIN volumes' = DOMAIN volumes
      BY <2>2, <2>4
    <3>3. \A s \in Persistent \cap Enabled(plan.manifest) \cap DOMAIN volumes' :
            ~Ahead("database.migrate", s)' => volumes'[s] = Schema[plan.manifest.release][s].to
      BY <1>6, <2>2, <3>1, <3>2 DEF ResourcesInvariant
    <3>4. \A s : Ahead("volume.ensure", s)' <=> Ahead("volume.ensure", s)
      BY <1>6, <2>1
    <3>5. \A s \in Enabled(plan.manifest) \cap WithVolume : s \in DOMAIN volumes' \/ Ahead("volume.ensure", s)'
      BY <1>6, <3>2, <3>4 DEF ResourcesInvariant
    <3>6. /\ docker' = "available" \/ Ahead("host.prepare", "host")'
          /\ \A n \in Networks(plan.manifest) : n \in networks' \/ Ahead("network.ensure", n)'
      BY <1>2, <1>6, <2>1 DEF ResourcesInvariant
    <3>7. ~Ahead("config.write", "compose.yml")' => \A g \in Files : files'[g] = Rendered(g)'
      BY <1>2, <1>6, <1>7, <2>1 DEF ResourcesInvariant
    <3>8. current'.generation > 0 => ExpectedVolumes(current)' \subseteq DOMAIN volumes'
      BY <1>6, <1>7, <3>2 DEF ResourcesInvariant
    <3> QED
      BY <1>6, <3>3, <3>5, <3>6, <3>7, <3>8 DEF ResourcesInvariant
  <2>6. LeavesHost
    BY <1>2, <1>4, <1>5, <2>2, <2>5 DEF LeavesHost
  <2> QED
    BY <1>1, <1>2, <2>6, WorkKeepsHost
<1> QED
  BY <1>8, <1>9

\* config.write: from now on the files are those of the plan.
LEMMA ConfigKeepsHost ==
  ASSUME HostInv, DataInv, configWrite
  PROVE  HostInv'
<1>1. PICK op : op = plan.operations[pos]
  OBVIOUS
<1>2. /\ pos > 0 /\ Done /\ UNCHANGED <<docker, containers, volumes, networks, secrets>>
      /\ op.action = "config.write" /\ files' = [f \in Files |-> Rendered(f)]
  BY <1>1 DEF configWrite, At
<1>3. Turn(op)
  BY <1>1, <1>2, TurnHolds
<1>4. SecretsInvariant' /\ UnitsInvariant' /\ (Clean => CleanOperation')
  BY <1>2, <1>3, SecretsKept, UnitsKept
<1>5. docker \in {"absent", "available"}
  BY DEF HostInv, HostType
<1>6. /\ ResourcesInvariant /\ plan' = plan /\ current' = current
      /\ \A a, r : a # "config.write" => (Ahead(a, r)' <=> Ahead(a, r))
  BY <1>2, <1>3 DEF Turn, Advances
<1>7. ExpectedVolumes(current)' = ExpectedVolumes(current) /\ \A f : Rendered(f)' = Rendered(f)
  BY <1>6 DEF Rendered
<1>8. \A f \in Files : files'[f] = Rendered(f)'
  BY <1>2, <1>7
<1>9. ResourcesInvariant'
  BY <1>2, <1>6, <1>7, <1>8 DEF ResourcesInvariant
<1>10. LeavesHost
  BY <1>2, <1>4, <1>5, <1>9 DEF LeavesHost
<1> QED
  BY <1>1, <1>2, <1>10, WorkKeepsHost

\* service.stop: a unit that is stopped is started again or removed.
LEMMA StopKeepsHost ==
  ASSUME HostInv, DataInv, serviceStop
  PROVE  HostInv'
<1>1. PICK op : op = plan.operations[pos]
  OBVIOUS
<1>2. /\ pos > 0 /\ Done /\ UNCHANGED <<docker, volumes, networks, files, secrets>>
      /\ op.action = "service.stop"
      /\ containers' = IF op.resource \in DOMAIN containers
                         THEN [containers EXCEPT ![op.resource].state = "exited"] ELSE containers
  BY <1>1 DEF serviceStop, At, Resource
<1>3. Turn(op)
  BY <1>1, <1>2, TurnHolds
<1>4. SecretsInvariant' /\ ResourcesInvariant' /\ docker \in {"absent", "available"}
  BY <1>2, <1>3, SecretsKept, ResourcesKept DEF HostInv, HostType
<1>5. /\ UnitsInvariant /\ (Clean => CleanOperation) /\ plan' = plan /\ OperationsFit(plan)
      /\ Has(plan, "service.stop", op.resource)
      /\ \A a, r : a # "service.stop" => (Ahead(a, r)' <=> Ahead(a, r))
      /\ \A r : Ahead("service.stop", r) => Ahead("service.stop", r)' \/ r = op.resource
      /\ \A u : Has(plan, "service.start", u) <=> Ahead("service.start", u)
  BY <1>2, <1>3, Phases DEF Turn, Advances, PlanFits
<1>6. /\ DOMAIN containers' = DOMAIN containers
      /\ \A u : u # op.resource /\ u \in DOMAIN containers => containers'[u] = containers[u]
      /\ ~UnitUp(op.resource)'
      /\ \A u \in DOMAIN containers : /\ containers'[u].image = containers[u].image
                                      /\ containers'[u].definition = containers[u].definition
                                      /\ containers'[u].caddyfile = containers[u].caddyfile
                                      /\ containers'[u].secrets = containers[u].secrets
  BY <1>2 DEF UnitUp
<1>7. \A u : u # op.resource => (UnitUp(u)' <=> UnitUp(u))
  BY <1>6 DEF UnitUp
<1>8. \A u \in RenderedUnits(plan.manifest) : ~Ahead("service.start", u) => u # op.resource
  BY <1>5 DEF OperationsFit
<1>9. \A u \in RenderedUnits(plan.manifest) : ~Ahead("service.start", u) =>
        UnitUp(u) /\ u \in DOMAIN containers
  BY <1>5 DEF UnitsInvariant, UnitUp
<1>10. \A a, r : Has(plan, a, r)' <=> Has(plan, a, r)
  BY <1>5
<1>11. UnitsInvariant'
  BY <1>5, <1>6, <1>7, <1>8, <1>9, <1>10 DEF UnitsInvariant
<1>12. ASSUME Clean PROVE CleanOperation'
  <2>1. \A u \in DOMAIN containers : \A m : AsDescribed(u, m)' <=> AsDescribed(u, m)
    BY <1>6 DEF AsDescribed
  <2> QED
    BY <1>2, <1>5, <1>6, <1>8, <1>9, <1>10, <1>12, <2>1 DEF CleanOperation
<1>13. LeavesHost
  BY <1>2, <1>4, <1>11, <1>12 DEF LeavesHost
<1> QED
  BY <1>1, <1>2, <1>13, WorkKeepsHost

\* service.remove: of a unit that is not rendered.
LEMMA RemoveKeepsHost ==
  ASSUME HostInv, DataInv, serviceRemove
  PROVE  HostInv'
<1>1. PICK op : op = plan.operations[pos]
  OBVIOUS
<1>2. /\ pos > 0 /\ Done /\ UNCHANGED <<docker, volumes, networks, files, secrets>>
      /\ op.action = "service.remove" /\ containers' = Without(containers, op.resource)
  BY <1>1 DEF serviceRemove, At, Resource
<1>3. Turn(op)
  BY <1>1, <1>2, TurnHolds
<1>4. SecretsInvariant' /\ ResourcesInvariant' /\ docker \in {"absent", "available"}
  BY <1>2, <1>3, SecretsKept, ResourcesKept DEF HostInv, HostType
<1>5. /\ UnitsInvariant /\ (Clean => CleanOperation) /\ plan' = plan /\ OperationsFit(plan)
      /\ Has(plan, "service.remove", op.resource)
      /\ \A a, r : a # "service.remove" => (Ahead(a, r)' <=> Ahead(a, r))
      /\ \A r : Ahead("service.remove", r)' => Ahead("service.remove", r)
      /\ \A r : Ahead("service.remove", r) => Ahead("service.remove", r)' \/ r = op.resource
  BY <1>2, <1>3 DEF Turn, Advances, PlanFits
<1>6. /\ DOMAIN containers' = DOMAIN containers \ {op.resource}
      /\ \A u \in DOMAIN containers : u # op.resource => containers'[u] = containers[u]
  BY <1>2 DEF Without
<1>7. /\ \A u : u # op.resource => (UnitUp(u)' <=> UnitUp(u))
      /\ \A u : UnitUp(u)' => UnitUp(u)
  BY <1>6 DEF UnitUp
<1>8. /\ \A u \in RenderedUnits(plan.manifest) : u # op.resource
      /\ \A u : Has(plan, "service.start", u) => u \in RenderedUnits(plan.manifest)
  BY <1>5 DEF OperationsFit
<1>9. \A u \in RenderedUnits(plan.manifest) : ~Ahead("service.start", u) =>
        UnitUp(u) /\ u \in DOMAIN containers
  BY <1>5 DEF UnitsInvariant, UnitUp
<1>10. \A a, r : Has(plan, a, r)' <=> Has(plan, a, r)
  BY <1>5
<1>11. UnitsInvariant'
  BY <1>2, <1>5, <1>6, <1>7, <1>8, <1>9, <1>10 DEF UnitsInvariant
<1>12. ASSUME Clean PROVE CleanOperation'
  <2>1. \A u \in DOMAIN containers : \A m : u # op.resource => (AsDescribed(u, m)' <=> AsDescribed(u, m))
    BY <1>6 DEF AsDescribed
  <2>2. \A u \in RenderedUnits(plan.manifest) : ~Has(plan, "service.start", u) => ~Ahead("service.start", u)
    BY <1>3 DEF Turn
  <2> QED
    BY <1>2, <1>5, <1>6, <1>8, <1>9, <1>10, <1>12, <2>1, <2>2 DEF CleanOperation
<1>13. LeavesHost
  BY <1>2, <1>4, <1>11, <1>12 DEF LeavesHost
<1> QED
  BY <1>1, <1>2, <1>13, WorkKeepsHost

\* service.start: the unit finds the files of the plan, and its volume.
LEMMA StartsFromFiles ==
  ASSUME HostInv, serviceStart, NEW op, op = plan.operations[pos]
  PROVE  /\ op.resource \in RenderedUnits(plan.manifest) /\ op.resource \in Units
         /\ plan.manifest \in Manifests /\ volumes' = volumes
         /\ OnDisk(op.resource) = Definition(op.resource, plan.manifest)
         /\ files["Caddyfile"].contents = renderCaddy(plan.manifest)
<1>1. pos > 0 /\ Done /\ op.action = "service.start" /\ volumes' = Mounted(op.resource)
  BY DEF serviceStart, At, Resource
<1>2. Turn(op)
  BY <1>1, TurnHolds
<1>3. /\ ResourcesInvariant /\ OperationsFit(plan) /\ plan.manifest \in Manifests
      /\ Has(plan, "service.start", op.resource)
      /\ ~Ahead("config.write", "compose.yml") /\ \A s : ~Ahead("volume.ensure", s)
  BY <1>1, <1>2, Phases DEF Turn, PlanFits, DocumentOf
<1>4. /\ op.resource \in RenderedUnits(plan.manifest) /\ op.resource \in Units
      /\ ServiceOf[op.resource] \in Enabled(plan.manifest)
  BY <1>3 DEF OperationsFit, RenderedUnits
<1>5. ServiceOf[op.resource] \in WithVolume => ServiceOf[op.resource] \in DOMAIN volumes
  BY <1>3, <1>4 DEF ResourcesInvariant
<1>6. volumes' = volumes
  BY <1>1, <1>5 DEF Mounted
<1>7. files["compose.yml"] = Rendered("compose.yml") /\ files["Caddyfile"] = Rendered("Caddyfile")
  BY <1>3 DEF ResourcesInvariant, Files
<1>8. /\ files["compose.yml"].contents.units =
           [u \in RenderedUnits(plan.manifest) |-> Definition(u, plan.manifest)]
      /\ files["Caddyfile"].contents = renderCaddy(plan.manifest)
  BY <1>7 DEF Rendered, FileContents
<1>9. OnDisk(op.resource) = Definition(op.resource, plan.manifest)
  BY <1>4, <1>8 DEF OnDisk
<1> QED
  BY <1>3, <1>4, <1>6, <1>8, <1>9

\* service.start: from what was written and delivered before.
LEMMA StartKeepsHost ==
  ASSUME HostInv, DataInv, serviceStart
  PROVE  HostInv'
<1>1. PICK op : op = plan.operations[pos]
  OBVIOUS
<1>2. /\ pos > 0 /\ Done /\ UNCHANGED <<docker, networks, files, secrets>>
      /\ op.action = "service.start" /\ volumes' = Mounted(op.resource)
      /\ containers' = Put(containers, op.resource,
           [state |-> "running", image |-> OnDisk(op.resource).image, definition |-> OnDisk(op.resource),
            secrets |-> [s \in WithSecret |-> IF s \in OnDisk(op.resource).secrets THEN secrets[s] ELSE 0],
            caddyfile |-> IF op.resource = Gateway THEN files["Caddyfile"].contents ELSE {}])
  BY <1>1 DEF serviceStart, At, Resource
<1>3. Turn(op)
  BY <1>1, <1>2, TurnHolds
<1>4. SecretsInvariant' /\ docker \in {"absent", "available"}
  BY <1>2, <1>3, SecretsKept DEF HostInv, HostType
<1>5. /\ ResourcesInvariant /\ UnitsInvariant /\ (Clean => CleanOperation) /\ OperationsFit(plan)
      /\ plan' = plan
      /\ Has(plan, "service.start", op.resource) /\ ~Ahead("service.start", op.resource)'
      /\ \A a, r : a # "service.start" => (Ahead(a, r)' <=> Ahead(a, r))
      /\ \A r : r # op.resource => (Ahead("service.start", r)' <=> Ahead("service.start", r))
  BY <1>2, <1>3 DEF Turn, Advances, PlanFits
<1>6. op.resource \in RenderedUnits(plan.manifest) /\ op.resource \in Units
  BY <1>1, StartsFromFiles
<1>7. volumes' = volumes
  BY <1>1, StartsFromFiles
<1>8. ResourcesInvariant'
  BY <1>2, <1>3, <1>7, ResourcesKept
<1>9. OnDisk(op.resource) = Definition(op.resource, plan.manifest)
      /\ files["Caddyfile"].contents = renderCaddy(plan.manifest)
  BY <1>1, StartsFromFiles
<1>10. /\ DOMAIN containers' = DOMAIN containers \cup {op.resource}
       /\ \A u \in DOMAIN containers : u # op.resource => containers'[u] = containers[u]
       /\ containers'[op.resource].state = "running"
       /\ containers'[op.resource].image = plan.manifest.release
       /\ containers'[op.resource].definition = Definition(op.resource, plan.manifest)
       /\ op.resource = Gateway => containers'[op.resource].caddyfile = renderCaddy(plan.manifest)
       /\ \A s \in secretsOf(op.resource, plan.manifest) : containers'[op.resource].secrets[s] = secrets[s]
  <2>1. PICK c : c = [state |-> "running", image |-> OnDisk(op.resource).image,
                      definition |-> OnDisk(op.resource),
                      secrets |-> [s \in WithSecret |->
                                     IF s \in OnDisk(op.resource).secrets THEN secrets[s] ELSE 0],
                      caddyfile |-> IF op.resource = Gateway THEN files["Caddyfile"].contents ELSE {}]
    OBVIOUS
  <2>2. /\ c.state = "running" /\ c.image = OnDisk(op.resource).image
        /\ c.definition = OnDisk(op.resource)
        /\ c.secrets = [s \in WithSecret |-> IF s \in OnDisk(op.resource).secrets THEN secrets[s] ELSE 0]
        /\ op.resource = Gateway => c.caddyfile = files["Caddyfile"].contents
    BY <2>1
  <2>3. /\ OnDisk(op.resource).image = plan.manifest.release
        /\ OnDisk(op.resource).secrets = secretsOf(op.resource, plan.manifest)
    BY <1>9 DEF Definition
  <2>4. /\ DOMAIN containers' = DOMAIN containers \cup {op.resource}
        /\ \A u \in DOMAIN containers : u # op.resource => containers'[u] = containers[u]
        /\ containers'[op.resource] = c
    BY <1>2, <2>1 DEF Put
  <2>5. \A s \in secretsOf(op.resource, plan.manifest) : c.secrets[s] = secrets[s]
    BY <2>2, <2>3 DEF secretsOf, requiredSecrets
  <2> QED
    BY <1>9, <2>2, <2>3, <2>4, <2>5
<1>11. UnitUp(op.resource)' /\ \A u : u # op.resource => (UnitUp(u)' <=> UnitUp(u))
  BY <1>10 DEF UnitUp
<1>12. \A u \in RenderedUnits(plan.manifest) : ~Ahead("service.start", u) =>
         UnitUp(u) /\ u \in DOMAIN containers
  BY <1>5 DEF UnitsInvariant, UnitUp
<1>13. \A u : Has(plan, "service.start", u) => u \in RenderedUnits(plan.manifest)
  BY <1>5 DEF OperationsFit
<1>14. UnitsInvariant'
  <2>1. \A u \in RenderedUnits(plan.manifest) : ~Ahead("service.start", u)' =>
          UnitUp(u)' /\ containers'[u].image = plan.manifest.release
    BY <1>5, <1>10, <1>11, <1>12 DEF UnitsInvariant
  <2>2. \A u \in Units : Ahead("service.start", u)' => u # op.resource
    BY <1>5
  <2>3. \A u \in Units : Ahead("service.remove", u) => u # op.resource
    <3>1. \A u \in Units : Ahead("service.remove", u) => Has(plan, "service.remove", u)
      BY <1>3 DEF Turn
    <3> QED
      BY <1>5, <1>6, <3>1 DEF OperationsFit
  <2>4. \A u \in Units : Has(plan, "service.start", u) /\ ~Ahead("service.start", u)' =>
          \A s \in secretsOf(u, plan.manifest) : containers'[u].secrets[s] = secrets[s]
    BY <1>5, <1>10, <1>12, <1>13 DEF UnitsInvariant
  <2>5. \A a, r : Has(plan, a, r)' <=> Has(plan, a, r)
    BY <1>5
  <2>6. RenderedUnits(plan.manifest) \subseteq Units
    BY DEF RenderedUnits
  <2>7. \A u \in RenderedUnits(plan.manifest) :
          Ahead("service.start", u)' /\ ~Ahead("service.stop", u)' => ~UnitUp(u)'
    BY <1>5, <1>11, <2>2, <2>6 DEF UnitsInvariant
  <2>8. \A u \in Units : Ahead("service.remove", u)' /\ ~Ahead("service.stop", u)' => ~UnitUp(u)'
    BY <1>5, <1>11, <2>3 DEF UnitsInvariant
  <2>9. \A u \in DOMAIN containers' : u \in RenderedUnits(plan.manifest) \/ Ahead("service.remove", u)'
    BY <1>5, <1>6, <1>10 DEF UnitsInvariant
  <2>10. \A u \in Units : Has(plan, "service.start", u)' /\ ~Ahead("service.start", u)' =>
           \A s \in secretsOf(u, plan.manifest) : containers'[u].secrets[s] = secrets'[s]
    BY <1>2, <2>4, <2>5
  <2> QED
    BY <1>5, <2>1, <2>7, <2>8, <2>9, <2>10 DEF UnitsInvariant
<1>15. ASSUME Clean PROVE CleanOperation'
  <2>1. \A u \in DOMAIN containers : \A m : u # op.resource => (AsDescribed(u, m)' <=> AsDescribed(u, m))
    BY <1>10 DEF AsDescribed
  <2>2. AsDescribed(op.resource, plan.manifest)'
    BY <1>5, <1>10 DEF AsDescribed
  <2>3. \A u \in RenderedUnits(plan.manifest) : ~Has(plan, "service.start", u) =>
          u # op.resource /\ u \in DOMAIN containers
    BY <1>3, <1>5, <1>12 DEF Turn
  <2>4. \A u \in RenderedUnits(plan.manifest) : ~Ahead("service.start", u)' => AsDescribed(u, plan.manifest)'
    BY <1>5, <1>12, <1>15, <2>1, <2>2 DEF CleanOperation
  <2>5. \A a, r : Has(plan, a, r)' <=> Has(plan, a, r)
    BY <1>5
  <2>6. ASSUME NEW s \in requiredSecrets(plan.manifest) \ plan.secrets
        PROVE  \E u \in Consumers[s] : /\ u \in RenderedUnits(plan.manifest) /\ ~Has(plan, "service.start", u)
                                       /\ containers'[u].secrets[s] = secrets[s]
    <3>1. PICK u \in Consumers[s] : /\ u \in RenderedUnits(plan.manifest) /\ ~Has(plan, "service.start", u)
                                    /\ containers[u].secrets[s] = secrets[s]
      BY <1>5, <1>15, <2>6 DEF CleanOperation
    <3>2. containers'[u] = containers[u]
      BY <1>10, <2>3, <3>1
    <3> QED
      BY <3>1, <3>2
  <2> QED
    BY <1>2, <1>5, <2>4, <2>5, <2>6 DEF CleanOperation
<1>16. LeavesHost
  BY <1>2, <1>4, <1>7, <1>8, <1>14, <1>15 DEF LeavesHost
<1> QED
  BY <1>1, <1>2, <1>16, WorkKeepsHost

\* state.commit: nothing is left to do, so the host is as the manifest wants it.
LEMMA CommitKeepsHost ==
  ASSUME HostInv, stateCommit
  PROVE  HostInv'
<1>1. PICK op : op = plan.operations[pos]
  OBVIOUS
<1>2. /\ pos > 0 /\ op.action = "state.commit" /\ pos' = 0 /\ plan' = NoPlan
      /\ current' = [generation |-> plan.generation, manifest |-> plan.manifest, retained |-> plan.retained]
      /\ UNCHANGED <<manifest, store, docker, containers, volumes, networks, files, secrets, budget>>
  BY <1>1 DEF stateCommit, At, host
<1>3. current'.generation = plan.generation /\ current'.manifest = plan.manifest
      /\ current'.retained = plan.retained
  BY <1>2
<1>4. /\ HostType /\ PlanFits /\ SecretsInvariant /\ ResourcesInvariant /\ UnitsInvariant
      /\ (Clean => CleanOperation) /\ (current.generation > 0 => RecordedData)
  BY <1>2 DEF HostInv
<1>5. OperationsFit(plan) /\ DocumentOf(plan, current)
  BY <1>4 DEF PlanFits
<1>6. \A a, r : Phase(a) \in 1 .. 10 => ~Ahead(a, r)
  <2>1. \A a, r : Ahead(a, r) => Phase(op.action) <= Phase(a)
    BY <1>1, <1>4, TurnOf
  <2>2. Phase(op.action) = 11
    BY <1>2, Phases
  <2> QED
    BY <2>1, <2>2
<1>7. /\ ~Ahead("host.prepare", "host") /\ ~Ahead("secret.ensure", "secrets.sops.yaml")
      /\ ~Ahead("config.write", "compose.yml")
      /\ \A r : /\ ~Ahead("volume.ensure", r) /\ ~Ahead("network.ensure", r)
                /\ ~Ahead("database.migrate", r) /\ ~Ahead("service.start", r)
                /\ ~Ahead("service.remove", r)
  BY <1>6, Phases
<1>8. /\ plan.manifest \in Manifests /\ plan.generation \in 1 .. MaxGeneration
      /\ current.generation \in Nat
  BY <1>4, <1>5, BoundsAssumption DEF DocumentOf, HostType
<1>9. \A s \in Persistent :
        plan.retained[s] # 0 => /\ current.generation > 0 /\ s \in ExpectedVolumes(current)
                                /\ plan.retained[s] = Schema[plan.manifest.release][s].to
                                /\ plan.manifest.release = current.manifest.release
  BY <1>5 DEF DocumentOf
<1>10. \A s : s \in ExpectedVolumes(current)' <=>
                \/ s \in Enabled(plan.manifest) \cap WithVolume
                \/ s \in Persistent /\ plan.retained[s] # 0
  BY <1>3 DEF ExpectedVolumes, RetainedServices
<1>11. \A s \in Enabled(plan.manifest) \cap WithVolume : s \in DOMAIN volumes
  BY <1>4, <1>7 DEF ResourcesInvariant
<1>12. RecordedData'
  <2> SUFFICES ASSUME NEW s \in Persistent
               PROVE  /\ s \in ExpectedVolumes(current)' /\ s \in DOMAIN volumes =>
                           volumes[s] = Schema[plan.manifest.release][s].to
                      /\ plan.retained[s] \in {0, Schema[plan.manifest.release][s].to}
    BY <1>2, <1>3 DEF RecordedData
  <2>1. plan.retained[s] \in {0, Schema[plan.manifest.release][s].to}
    BY <1>9
  <2>2. ASSUME s \in ExpectedVolumes(current)', s \in DOMAIN volumes
        PROVE  volumes[s] = Schema[plan.manifest.release][s].to
    <3>1. CASE s \in Enabled(plan.manifest)
      BY <1>4, <1>7, <2>2, <3>1 DEF ResourcesInvariant
    <3>2. CASE s \notin Enabled(plan.manifest)
      <4>1. plan.retained[s] # 0
        BY <1>10, <2>2, <3>2
      <4> QED
        BY <1>4, <1>9, <2>2, <4>1 DEF RecordedData
    <3> QED
      BY <3>1, <3>2
  <2> QED
    BY <2>1, <2>2
<1>13. SettledHost'
  <2>1. DOMAIN containers = RenderedUnits(plan.manifest)
    BY <1>4, <1>7 DEF UnitsInvariant, UnitUp
  <2>2. \A u \in DOMAIN containers : UnitUp(u)' /\ containers[u].image = plan.manifest.release
    BY <1>2, <1>4, <1>7, <2>1 DEF UnitsInvariant, UnitUp
  <2>3. \A s \in ExpectedVolumes(current)' : s \in DOMAIN volumes
    BY <1>4, <1>9, <1>10, <1>11 DEF ResourcesInvariant
  <2>4. \A f \in Files : /\ files[f].status = "present"
                         /\ files[f].contents = FileContents(f, plan.manifest, plan.generation)
    <3>1. \A f \in Files : files[f] = Rendered(f)
      BY <1>4, <1>7 DEF ResourcesInvariant
    <3>2. \A f : /\ Rendered(f).status = "present"
                 /\ Rendered(f).contents = FileContents(f, plan.manifest, plan.generation)
      BY DEF Rendered
    <3> QED
      BY <3>1, <3>2
  <2>5. docker = "available" /\ Networks(plan.manifest) \subseteq networks
    BY <1>4, <1>7 DEF ResourcesInvariant
  <2> QED
    BY <1>2, <1>3, <1>8, <2>1, <2>2, <2>3, <2>4, <2>5 DEF SettledHost
<1>14. ASSUME Clean PROVE CleanRecord'
  <2>1. \A u, m : AsDescribed(u, m)' <=> AsDescribed(u, m)
    BY <1>2 DEF AsDescribed
  <2>2. \A u \in RenderedUnits(plan.manifest) : AsDescribed(u, plan.manifest)
    BY <1>4, <1>7, <1>14 DEF CleanOperation
  <2>3. ASSUME NEW s \in requiredSecrets(plan.manifest)
        PROVE  \E u \in Consumers[s] : /\ ServiceOf[u] \in Mandatory \cup {s}
                                       /\ containers[u].secrets[s] = secrets[s]
    <3>1. \A u \in Consumers[s] : u \in Units /\ ServiceOf[u] \in Mandatory \cup {s}
      BY <2>3, ConsumersAssumption DEF requiredSecrets
    <3>2. CASE s \in plan.secrets
      <4>1. PICK u \in Consumers[s] : Has(plan, "service.start", u)
        BY <1>5, <3>2 DEF OperationsFit
      <4>2. s \in secretsOf(u, plan.manifest)
        BY <2>3 DEF secretsOf
      <4>3. containers[u].secrets[s] = secrets[s]
        BY <1>4, <1>7, <3>1, <4>1, <4>2 DEF UnitsInvariant
      <4> QED
        BY <3>1, <4>3
    <3>3. CASE s \notin plan.secrets
      BY <1>4, <1>14, <2>3, <3>1, <3>3 DEF CleanOperation
    <3> QED
      BY <3>2, <3>3
  <2> QED
    BY <1>2, <1>3, <2>1, <2>2, <2>3 DEF CleanRecord
<1>15. HostType' /\ (Clean' <=> Clean)
  BY <1>2, <1>3, <1>4, <1>8 DEF HostType, NoPlan, Clean
<1> QED
  BY <1>2, <1>12, <1>13, <1>14, <1>15 DEF HostInv

-----------------------------------------------------------------------------
(* The invariant holds always.                                             *)

\* Every role but the commit keeps the invariant.
LEMMA RolesKeepHost ==
  ASSUME HostInv, DataInv, RoleStep
  PROVE  HostInv'
BY SmallRolesKeepHost, SecretsKeepHost, VolumesKeepHost, ConfigKeepsHost, StopKeepsHost,
   RemoveKeepsHost, StartKeepsHost, CommitKeepsHost DEF RoleStep

\* An operation that fails leaves no plan, and may leave half of its files.
LEMMA FailureKeepsHost ==
  ASSUME HostInv, FailOperation
  PROVE  HostInv'
<1>1. /\ pos > 0 /\ pos' = 0 /\ plan' = NoPlan /\ UNCHANGED <<manifest, current, settled, volumes, docker>>
      /\ budget.failures > 0 /\ budget' = [budget EXCEPT !.failures = @ - 1]
  BY DEF FailOperation, Spend, host
<1>2. HostType /\ (current.generation > 0 => RecordedData) /\ ~settled
  <2>1. settled => SettledHost
    BY DEF HostInv
  <2> QED
    BY <1>1, <2>1 DEF HostInv, SettledHost
<1>3. HostType' /\ ~Clean'
  <2>1. /\ budget' \in [edits : Nat, tampers : Nat, failures : 0 .. MaxFailures, rotations : Nat]
        /\ budget'.failures # MaxFailures
    BY <1>1, <1>2, BoundsAssumption DEF HostType
  <2>2. pos' \in 0 .. Len(plan'.operations) /\ Len(plan'.operations) \in Nat
    BY <1>1 DEF NoPlan
  <2> QED
    BY <1>1, <1>2, <2>1, <2>2 DEF HostType, Clean
<1>4. current.generation > 0 => RecordedData'
  <2>1. ExpectedVolumes(current)' = ExpectedVolumes(current)
    BY <1>1
  <2> QED
    BY <1>1, <1>2, <2>1 DEF RecordedData
<1> QED
  BY <1>1, <1>2, <1>3, <1>4 DEF HostInv

\* Nor does what happens between operations break it: it may take containers and volumes away.
LEMMA IdleStepKeepsHost ==
  ASSUME HostInv, pos = 0, UNCHANGED <<current, docker, secrets, plan, pos>>, manifest' \in Manifests,
         budget' \in [edits : Nat, tampers : Nat, failures : {budget.failures}, rotations : Nat],
         \/ ~settled'
         \/ UNCHANGED <<settled, containers, volumes, networks, files>>,
         DOMAIN volumes' \subseteq DOMAIN volumes, \A s \in DOMAIN volumes' : volumes'[s] = volumes[s],
         DOMAIN containers' \subseteq DOMAIN containers,
         \A u \in DOMAIN containers' : /\ containers'[u].definition = containers[u].definition
                                       /\ containers'[u].caddyfile = containers[u].caddyfile
                                       /\ containers'[u].secrets = containers[u].secrets
  PROVE  HostInv'
<1>1. /\ HostType /\ plan = NoPlan /\ (current.generation > 0 => RecordedData)
      /\ (current.generation > 0 /\ Clean => CleanRecord) /\ (settled => SettledHost)
  BY DEF HostInv
<1>2. HostType' /\ (Clean' <=> Clean)
  BY <1>1 DEF HostType, Clean
<1>3. current.generation > 0 => RecordedData'
  <2>1. ExpectedVolumes(current)' = ExpectedVolumes(current)
    OBVIOUS
  <2> QED
    BY <1>1, <2>1 DEF RecordedData
<1>4. current.generation > 0 /\ Clean => CleanRecord'
  <2>1. \A u \in DOMAIN containers' : \A m : AsDescribed(u, m)' <=> AsDescribed(u, m)
    BY DEF AsDescribed
  <2> QED
    BY <1>1, <2>1 DEF CleanRecord
<1>5. settled' => SettledHost'
  <2>1. SUFFICES ASSUME settled' PROVE SettledHost'
    OBVIOUS
  <2>2. SettledHost /\ UNCHANGED <<containers, volumes, networks, files>>
    BY <1>1, <2>1
  <2>3. ExpectedVolumes(current)' = ExpectedVolumes(current) /\ \A u : UnitUp(u)' <=> UnitUp(u)
    BY <2>2 DEF UnitUp
  <2> QED
    BY <2>2, <2>3 DEF SettledHost
<1> QED
  BY <1>1, <1>2, <1>3, <1>4, <1>5 DEF HostInv

\* Every step of the reconciler keeps the invariant.
LEMMA StepKeepsHost ==
  ASSUME HostInv, DataInv, [Next]_vars
  PROVE  HostInv'
<1>0. /\ HostType /\ manifest \in Manifests
      /\ budget \in [edits : Nat, tampers : Nat, failures : 0 .. MaxFailures, rotations : Nat]
      /\ budget \in [edits : Nat, tampers : Nat, failures : {budget.failures}, rotations : Nat]
  BY DEF HostInv, HostType
<1>1. CASE EditManifest \/ ensureSecrets \/ (\E s \in WithSecret : RotateSecret(s))
  <2>1. /\ pos = 0 /\ UNCHANGED <<current, plan, pos, settled, docker, containers, volumes, networks,
                                  files, secrets>>
        /\ manifest' \in Manifests
    BY <1>0, <1>1 DEF EditManifest, ensureSecrets, RotateSecret, Idle, host
  <2>2. budget' \in [edits : Nat, tampers : Nat, failures : {budget.failures}, rotations : Nat]
    BY <1>0, <1>1 DEF EditManifest, ensureSecrets, RotateSecret, Spend
  <2> QED
    BY <2>1, <2>2, IdleStepKeepsHost
<1>2. CASE \E repairDrift \in BOOLEAN : BeginApply(repairDrift)
  BY <1>2, BeginKeepsHost
<1>3. CASE RoleStep
  BY <1>3, RolesKeepHost
<1>4. CASE FailOperation
  BY <1>4, FailureKeepsHost
<1>5. CASE HandChange
  <2>1. Tamper
    BY <1>5 DEF HandChange, RemoveContainer, StopContainer, SwapImage, DropVolume, DropNetwork,
                ChangeFile
  <2>2. /\ pos = 0 /\ UNCHANGED <<manifest, current, docker, secrets, plan, pos>> /\ ~settled'
        /\ budget' \in [edits : Nat, tampers : Nat, failures : {budget.failures}, rotations : Nat]
    BY <1>0, <2>1 DEF Tamper, Idle, Spend
  <2>3. /\ DOMAIN volumes' \subseteq DOMAIN volumes /\ \A s \in DOMAIN volumes' : volumes'[s] = volumes[s]
        /\ DOMAIN containers' \subseteq DOMAIN containers
        /\ \A u \in DOMAIN containers' : /\ containers'[u].definition = containers[u].definition
                                         /\ containers'[u].caddyfile = containers[u].caddyfile
                                         /\ containers'[u].secrets = containers[u].secrets
    <3>1. CASE \E u \in Units : RemoveContainer(u)
      BY <3>1 DEF RemoveContainer, Without
    <3>2. CASE \E u \in Units : StopContainer(u)
      <4>1. PICK u \in Units : StopContainer(u)
        BY <3>2
      <4> QED
        BY <4>1 DEF StopContainer
    <3>3. CASE \E u \in Units : SwapImage(u)
      <4>1. PICK u \in Units : SwapImage(u)
        BY <3>3
      <4> QED
        BY <4>1 DEF SwapImage
    <3>4. CASE \E s \in WithVolume : DropVolume(s)
      BY <3>4 DEF DropVolume, Without
    <3>5. CASE \/ \E n \in {"hof"} \cup Isolated : DropNetwork(n)
               \/ \E f \in Files, status \in {"absent", "edited", "unreadable"} : ChangeFile(f, status)
      BY <3>5 DEF DropNetwork, ChangeFile
    <3> QED
      BY <1>5, <3>1, <3>2, <3>3, <3>4, <3>5 DEF HandChange
  <2> QED
    BY <1>0, <2>2, <2>3, IdleStepKeepsHost
<1>6. CASE UNCHANGED vars
  <2>1. UNCHANGED <<manifest, store, current, docker, containers, volumes, networks, files, secrets,
                    plan, pos, live, settled, budget>>
    BY <1>6 DEF vars, host
  <2>2. CASE pos = 0
    BY <1>0, <2>1, <2>2, IdleStepKeepsHost
  <2>3. CASE pos # 0
    <3>1. /\ \A u : UnitUp(u)' <=> UnitUp(u)
          /\ \A a, r : Ahead(a, r)' <=> Ahead(a, r)
          /\ \A u, m : AsDescribed(u, m)' <=> AsDescribed(u, m)
          /\ \A f : Rendered(f)' = Rendered(f)
          /\ ExpectedVolumes(current)' = ExpectedVolumes(current)
      BY <2>1 DEF UnitUp, Ahead, Todo, AsDescribed, Rendered
    <3>2. PlanFits' <=> PlanFits
      BY <2>1 DEF PlanFits
    <3>3. SecretsInvariant' <=> SecretsInvariant
      BY <2>1, <3>1 DEF SecretsInvariant
    <3>4. ResourcesInvariant' <=> ResourcesInvariant
      BY <2>1, <3>1 DEF ResourcesInvariant
    <3>5. UnitsInvariant' <=> UnitsInvariant
      BY <2>1, <3>1 DEF UnitsInvariant
    <3>6. (CleanOperation' <=> CleanOperation) /\ (Clean' <=> Clean)
      BY <2>1, <3>1 DEF CleanOperation, Clean
    <3>7. RecordedData' <=> RecordedData
      BY <2>1, <3>1 DEF RecordedData
    <3>8. HostType'
      BY <1>0, <2>1 DEF HostType
    <3>9. ~settled
      <4>1. settled => SettledHost
        BY DEF HostInv
      <4> QED
        BY <2>3, <4>1 DEF SettledHost
    <3>10. /\ (pos > 0 => PlanFits /\ SecretsInvariant /\ ResourcesInvariant /\ UnitsInvariant)
           /\ (pos > 0 /\ Clean => CleanOperation) /\ (current.generation > 0 => RecordedData)
      BY DEF HostInv
    <3> QED
      BY <2>1, <2>3, <3>2, <3>3, <3>4, <3>5, <3>6, <3>7, <3>8, <3>9, <3>10 DEF HostInv
  <2> QED
    BY <2>2, <2>3
<1> QED
  BY <1>1, <1>2, <1>3, <1>4, <1>5, <1>6 DEF Next

\* Initially there is no operation, no record and nothing on the host.
LEMMA HostInvHolds == Spec => []HostInv
<1>1. Init => HostInv
  <2>1. SUFFICES ASSUME Init PROVE HostInv
    OBVIOUS
  <2>2. /\ manifest \in Manifests /\ current.manifest \in Manifests /\ current.generation = 0
        /\ pos = 0 /\ plan = NoPlan /\ settled = FALSE /\ docker = "absent"
    BY <2>1, ManifestAssumption DEF Init
  <2>3. budget \in [edits : Nat, tampers : Nat, failures : 0 .. MaxFailures, rotations : Nat]
    BY <2>1, BoundsAssumption DEF Init
  <2>4. Len(plan.operations) = 0
    BY <2>2 DEF NoPlan
  <2>5. HostType
    BY <2>2, <2>3, <2>4, BoundsAssumption DEF HostType
  <2> QED
    BY <2>2, <2>5 DEF HostInv
<1>2. HostInv /\ DataInv /\ [Next]_vars => HostInv'
  BY StepKeepsHost
<1> QED
  BY <1>1, <1>2, DataInvHolds, PTL DEF Spec

-----------------------------------------------------------------------------
(* What follows for an operation whose turn it is.                         *)

\* A unit that the plan starts can be run once the files are written.
LEMMA RenderedUnitsRun ==
  ASSUME PlanFits, SecretsInvariant, ResourcesInvariant, NEW u, Has(plan, "service.start", u),
         ~Ahead("config.write", "compose.yml"), ~Ahead("secret.ensure", "secrets.sops.yaml"),
         \A n : ~Ahead("network.ensure", n)
  PROVE  Runnable(u) /\ u \in RenderedUnits(plan.manifest)
<1>1. /\ u \in RenderedUnits(plan.manifest) /\ secretsOf(u, plan.manifest) \subseteq plan.secrets
      /\ plan.secrets \subseteq requiredSecrets(plan.manifest) /\ ServiceOf[u] \in Enabled(plan.manifest)
  BY DEF PlanFits, OperationsFit, RenderedUnits
<1>2. ComposeHas(u) /\ OnDisk(u).secrets = secretsOf(u, plan.manifest)
  <2>1. files["compose.yml"] = Rendered("compose.yml")
    BY DEF ResourcesInvariant, Files
  <2>2. /\ files["compose.yml"].status = "present"
        /\ files["compose.yml"].contents.units =
             [v \in RenderedUnits(plan.manifest) |-> Definition(v, plan.manifest)]
    BY <2>1 DEF Rendered, FileContents
  <2>3. OnDisk(u) = Definition(u, plan.manifest)
    BY <1>1, <2>2 DEF OnDisk
  <2> QED
    BY <1>1, <2>2, <2>3 DEF ComposeHas, Definition
<1>3. NetworksOf(u) \subseteq networks
  <2>1. \A n \in NetworksOf(u) : n \in Networks(plan.manifest)
    BY <1>1 DEF NetworksOf, Networks
  <2> QED
    BY <2>1 DEF ResourcesInvariant
<1>4. \A s \in secretsOf(u, plan.manifest) : secrets[s] > 0
  BY <1>1 DEF SecretsInvariant
<1> QED
  BY <1>1, <1>2, <1>3, <1>4 DEF Runnable

\* What each role needs when it is its turn.
LEMMA TurnCanSucceed ==
  ASSUME HostInv
  PROVE  OperationCanSucceed
<1> SUFFICES ASSUME pos > 0 PROVE OperationCanSucceed
  BY DEF OperationCanSucceed
<1>1. PICK op : op = plan.operations[pos]
  OBVIOUS
<1>2. PlanFits /\ SecretsInvariant /\ ResourcesInvariant /\ UnitsInvariant
  BY DEF HostInv
<1>3. OperationsFit(plan) /\ DocumentOf(plan, current)
  BY <1>2 DEF PlanFits
<1>4. /\ Has(plan, op.action, op.resource) /\ Ahead(op.action, op.resource)
      /\ \A a, r : Ahead(a, r) => Has(plan, a, r) /\ Phase(op.action) <= Phase(a)
      /\ \A a, r : Has(plan, a, r) /\ ~(Phase(a) <= Phase(op.action)) => Ahead(a, r)
  BY <1>1, <1>2, TurnOf
<1>5. \A u : Has(plan, "service.start", u) => u \in RenderedUnits(plan.manifest) /\ u \in Units
  BY <1>3 DEF OperationsFit, RenderedUnits
<1>6. \A u : Ahead("service.start", u) /\ ~Ahead("service.stop", u) => ~UnitUp(u)
  BY <1>2, <1>4, <1>5 DEF UnitsInvariant
<1>7. ASSUME op.action = "service.remove" PROVE ~UnitUp(op.resource)
  <2>1. ~Ahead("service.stop", op.resource)
    BY <1>4, <1>7, Phases
  <2>2. op.resource \in Units /\ Ahead("service.remove", op.resource)
    BY <1>3, <1>4, <1>7 DEF OperationsFit
  <2> QED
    BY <1>2, <2>1, <2>2 DEF UnitsInvariant
<1>8. ASSUME op.action = "database.migrate"
      PROVE  ~UnitUp(DbUnit[op.resource]) /\ Runnable(DbUnit[op.resource])
  <2>1. PICK u : u = DbUnit[op.resource]
    OBVIOUS
  <2>2. Has(plan, "service.start", u)
    BY <1>3, <1>4, <1>8, <2>1 DEF OperationsFit
  <2>3. /\ Ahead("service.start", u) /\ ~Ahead("service.stop", u)
        /\ ~Ahead("config.write", "compose.yml") /\ ~Ahead("secret.ensure", "secrets.sops.yaml")
        /\ \A n : ~Ahead("network.ensure", n)
    BY <1>4, <1>8, <2>2, Phases
  <2> QED
    BY <1>2, <1>6, <2>1, <2>2, <2>3, RenderedUnitsRun
<1>9. ASSUME op.action = "service.start"
      PROVE  /\ ~UnitUp(op.resource) /\ Runnable(op.resource)
             /\ ServiceOf[op.resource] \in WithVolume => ServiceOf[op.resource] \in DOMAIN volumes
             /\ ServiceOf[op.resource] \in Persistent =>
                  volumes[ServiceOf[op.resource]] =
                    Schema[plan.manifest.release][ServiceOf[op.resource]].to
  <2>1. /\ Has(plan, "service.start", op.resource) /\ Ahead("service.start", op.resource)
        /\ ~Ahead("service.stop", op.resource)
        /\ ~Ahead("config.write", "compose.yml") /\ ~Ahead("secret.ensure", "secrets.sops.yaml")
        /\ \A n : ~Ahead("network.ensure", n)
    BY <1>4, <1>9, Phases
  <2>2. \A s : ~Ahead("volume.ensure", s) /\ ~Ahead("database.migrate", s)
    BY <1>4, <1>9, Phases
  <2>3. Runnable(op.resource) /\ ~UnitUp(op.resource)
    BY <1>2, <1>6, <2>1, RenderedUnitsRun
  <2>4. PICK s : s = ServiceOf[op.resource]
    OBVIOUS
  <2>5. s \in Enabled(plan.manifest)
    BY <1>5, <2>1, <2>4 DEF RenderedUnits
  <2>6. s \in WithVolume => s \in DOMAIN volumes
    BY <1>2, <2>2, <2>5 DEF ResourcesInvariant
  <2>7. s \in Persistent => volumes[s] = Schema[plan.manifest.release][s].to
    BY <1>2, <2>2, <2>5, <2>6, CatalogAssumption DEF ResourcesInvariant
  <2> QED
    BY <2>3, <2>4, <2>6, <2>7
<1>10. ASSUME op.action = "readiness.wait" PROVE UnitUp(op.resource) /\ DependenciesUp(op.resource)
  <2>1. \A v : Ahead("service.start", v) =>
            v # op.resource /\ ServiceOf[v] \notin DependsOn[ServiceOf[op.resource]]
    BY <1>1, <1>2, <1>10, StartedBeforeAwaited
  <2>2. op.resource \in RenderedUnits(plan.manifest)
    BY <1>3, <1>4, <1>5, <1>10 DEF OperationsFit
  <2>3. \A s \in DependsOn[ServiceOf[op.resource]] : s \in Enabled(plan.manifest)
    BY <1>3, <2>2 DEF DocumentOf, Renders, RenderedUnits
  <2>4. UnitUp(op.resource)
    BY <1>2, <2>1, <2>2 DEF UnitsInvariant
  <2>5. ASSUME NEW s \in DependsOn[ServiceOf[op.resource]], NEW v \in Units, ServiceOf[v] = s
        PROVE  UnitUp(v)
    <3>1. v \in RenderedUnits(plan.manifest) /\ ~Ahead("service.start", v)
      BY <2>1, <2>3, <2>5 DEF RenderedUnits
    <3> QED
      BY <1>2, <3>1 DEF UnitsInvariant
  <2> QED
    BY <2>4, <2>5 DEF DependenciesUp, ServiceUp
<1> QED
  BY <1>1, <1>7, <1>8, <1>9, <1>10 DEF OperationCanSucceed, At, Resource

\* buildOperations(): whatever was edited, tampered with or left by failed operations,
\* when an operation's turn comes its unit is down, described and has its networks,
\* secrets and migrated volume, and what a unit depends on is up before it is awaited.
THEOREM OperationCanSucceedHolds == Spec => []OperationCanSucceed
<1>1. HostInv => OperationCanSucceed
  BY TurnCanSucceed
<1> QED
  BY <1>1, HostInvHolds, PTL

\* buildOperations(), scopedSecretNames(): as long as no operation failed, a commit leaves no
\* secret file that none of its consumers was started with, whatever was rotated before.
THEOREM DeliveredSecretsAreInUseHolds == Spec => []DeliveredSecretsAreInUse
<1>1. ASSUME HostInv PROVE DeliveredSecretsAreInUse
  <2>1. SUFFICES ASSUME Clean, settled, NEW s \in requiredSecrets(current.manifest)
                 PROVE  \E u \in Consumers[s] : UnitUp(u) /\ containers[u].secrets[s] = secrets[s]
    BY DEF DeliveredSecretsAreInUse
  <2>2. SettledHost /\ CleanRecord
    <3>1. SettledHost
      BY <1>1, <2>1 DEF HostInv
    <3> QED
      BY <1>1, <2>1, <3>1 DEF HostInv, SettledHost
  <2>3. PICK u \in Consumers[s] : /\ ServiceOf[u] \in Mandatory \cup {s}
                                  /\ u \in DOMAIN containers => containers[u].secrets[s] = secrets[s]
    BY <2>1, <2>2 DEF CleanRecord
  <2>4. u \in RenderedUnits(current.manifest)
    BY <2>1, <2>3, ConsumersAssumption DEF requiredSecrets, RenderedUnits, Enabled
  <2> QED
    BY <2>2, <2>3, <2>4 DEF SettledHost
<1>2. HostInv => DeliveredSecretsAreInUse
  BY <1>1
<1> QED
  BY <1>2, HostInvHolds, PTL

-----------------------------------------------------------------------------
(* Types.                                                                  *)

\* What is in the store, on the host and in its containers.
TypeInv ==
  /\ store \in [WithSecret -> Nat] /\ secrets \in [WithSecret -> Nat]
  /\ DOMAIN containers \subseteq Units /\ \A u \in DOMAIN containers : containers[u] \in Container
  /\ DOMAIN volumes \subseteq WithVolume /\ \A s \in DOMAIN volumes : volumes[s] \in Nat
  /\ networks \subseteq {"hof"} \cup Isolated
  /\ DOMAIN files = Files
  /\ \A f \in Files : files[f].status \in {"absent", "present", "edited", "unreadable"}

\* The definitions that a container may have been started from.
DefinitionsOf == {Definition(u, m) : u \in Units, m \in Manifests}

\* A container that is stopped or whose image is swapped stays one.
LEMMA ContainersChange ==
  ASSUME NEW c \in Container
  PROVE  [c EXCEPT !.state = "exited"] \in Container /\ [c EXCEPT !.image = "other"] \in Container
<1>1. PICK D : D = DefinitionsOf
  OBVIOUS
<1>2. Container = [state : {"running", "exited"}, image : Releases \cup {"other"}, definition : D,
                   secrets : [WithSecret -> Nat], caddyfile : SUBSET Routed]
  BY <1>1 DEF Container, DefinitionsOf
<1> QED
  BY <1>2

\* The roles put nothing else on the host.
LEMMA RolesKeepTypes ==
  ASSUME HostInv, TypeInv, RoleStep
  PROVE  TypeInv'
<1>1. PICK op : op = plan.operations[pos]
  OBVIOUS
<1>2. pos > 0 /\ PlanFits
  BY RolesKeepVolumes DEF HostInv
<1>3. Has(plan, op.action, op.resource) /\ OperationsFit(plan) /\ plan.manifest \in Manifests
  <2>1. Has(plan, op.action, op.resource)
    BY <1>1, <1>2, TurnOf
  <2> QED
    BY <1>2, <2>1 DEF PlanFits, DocumentOf
<1>4. CASE hostPrepare \/ imageVerifyOrPull \/ readinessWait \/ stateCommit
  BY <1>4 DEF hostPrepare, imageVerifyOrPull, readinessWait, stateCommit, Done, host, TypeInv
<1>5. CASE secretEnsure
  BY <1>5 DEF secretEnsure, Done, TypeInv
<1>6. CASE volumeEnsure
  <2>1. op.action = "volume.ensure" /\ op.resource \in WithVolume
    BY <1>1, <1>3, <1>6 DEF volumeEnsure, At, OperationsFit
  <2>2. /\ volumes' = IF op.resource \in DOMAIN volumes THEN volumes ELSE Put(volumes, op.resource, 0)
        /\ UNCHANGED <<store, secrets, containers, networks, files>>
    BY <1>1, <1>6 DEF volumeEnsure, Resource, Done
  <2> QED
    BY <2>1, <2>2 DEF TypeInv, Put
<1>7. CASE networkEnsure
  <2>1. op.action = "network.ensure" /\ op.resource \in {"hof"} \cup Isolated
    BY <1>1, <1>3, <1>7 DEF networkEnsure, At, OperationsFit
  <2> QED
    BY <1>1, <1>7, <2>1 DEF networkEnsure, Resource, Done, TypeInv
<1>8. CASE serviceStop
  <2>1. /\ containers' = IF op.resource \in DOMAIN containers
                           THEN [containers EXCEPT ![op.resource].state = "exited"] ELSE containers
        /\ UNCHANGED <<store, secrets, volumes, networks, files>>
    BY <1>1, <1>8 DEF serviceStop, Resource, Done
  <2>2. \A u \in DOMAIN containers : containers[u] \in Container /\ [containers[u] EXCEPT !.state = "exited"] \in Container
    BY ContainersChange DEF TypeInv
  <2> QED
    BY <2>1, <2>2 DEF TypeInv
<1>9. CASE configWrite
  <2>1. \A f : Rendered(f).status = "present"
    BY DEF Rendered
  <2> QED
    BY <1>9, <2>1 DEF configWrite, Done, TypeInv
<1>10. CASE serviceRemove
  BY <1>10 DEF serviceRemove, Done, Without, TypeInv
<1>11. CASE databaseMigrate
  <2>1. op.action = "database.migrate" /\ op.resource \in Persistent
    BY <1>1, <1>3, <1>11 DEF databaseMigrate, At, OperationsFit
  <2>2. Schema[plan.manifest.release][op.resource].to \in Nat /\ op.resource \in WithVolume
    BY <1>3, <2>1, ManifestAssumption, CatalogAssumption
  <2>3. /\ volumes' = Put(volumes, op.resource, Schema[plan.manifest.release][op.resource].to)
        /\ UNCHANGED <<store, secrets, containers, networks, files>>
    BY <1>1, <1>11 DEF databaseMigrate, Resource, Done
  <2> QED
    BY <2>2, <2>3 DEF TypeInv, Put
<1>12. CASE serviceStart
  <2>1. PICK c : c = [state |-> "running", image |-> OnDisk(op.resource).image,
                      definition |-> OnDisk(op.resource),
                      secrets |-> [s \in WithSecret |->
                                     IF s \in OnDisk(op.resource).secrets THEN secrets[s] ELSE 0],
                      caddyfile |-> IF op.resource = Gateway THEN files["Caddyfile"].contents ELSE {}]
    OBVIOUS
  <2>2. containers' = Put(containers, op.resource, c) /\ UNCHANGED <<store, secrets, networks, files>>
    BY <1>1, <1>12, <2>1 DEF serviceStart, Resource, Done
  <2>3. /\ op.resource \in Units /\ volumes' = volumes
        /\ OnDisk(op.resource) = Definition(op.resource, plan.manifest)
        /\ files["Caddyfile"].contents = renderCaddy(plan.manifest)
    BY <1>1, <1>12, StartsFromFiles
  <2>4. c \in Container
    <3>1. PICK D : D = DefinitionsOf
      OBVIOUS
    <3>2. Container = [state : {"running", "exited"}, image : Releases \cup {"other"}, definition : D,
                       secrets : [WithSecret -> Nat], caddyfile : SUBSET Routed]
      BY <3>1 DEF Container, DefinitionsOf
    <3>3. OnDisk(op.resource) \in D
      BY <1>3, <2>3, <3>1 DEF DefinitionsOf
    <3>4. OnDisk(op.resource).image \in Releases
      <4>1. OnDisk(op.resource).image = plan.manifest.release
        BY <2>3 DEF Definition
      <4> QED
        BY <1>3, <4>1, ManifestAssumption
    <3>5. [s \in WithSecret |-> IF s \in OnDisk(op.resource).secrets THEN secrets[s] ELSE 0]
            \in [WithSecret -> Nat]
      BY DEF TypeInv
    <3>6. (IF op.resource = Gateway THEN files["Caddyfile"].contents ELSE {}) \in SUBSET Routed
      BY <2>3 DEF renderCaddy
    <3> QED
      BY <2>1, <3>2, <3>3, <3>4, <3>5, <3>6
  <2> QED
    BY <2>2, <2>3, <2>4 DEF TypeInv, Put
<1> QED
  BY <1>4, <1>5, <1>6, <1>7, <1>8, <1>9, <1>10, <1>11, <1>12 DEF RoleStep

\* Nor does anything else.
LEMMA StepKeepsTypes ==
  ASSUME HostInv, TypeInv, [Next]_vars
  PROVE  TypeInv'
<1>1. CASE \/ EditManifest \/ (\E repairDrift \in BOOLEAN : BeginApply(repairDrift)) \/ UNCHANGED vars
  BY <1>1 DEF EditManifest, BeginApply, vars, host, TypeInv
<1>2. CASE ensureSecrets \/ (\E s \in WithSecret : RotateSecret(s))
  <2>1. UNCHANGED <<secrets, containers, volumes, networks, files>>
    BY <1>2 DEF ensureSecrets, RotateSecret, host
  <2>2. store' \in [WithSecret -> Nat]
    BY <1>2 DEF ensureSecrets, RotateSecret, TypeInv
  <2> QED
    BY <2>1, <2>2 DEF TypeInv
<1>3. CASE RoleStep
  BY <1>3, RolesKeepTypes
<1>4. CASE FailOperation
  <2>1. UNCHANGED <<store, secrets, containers, volumes, networks>> /\ DOMAIN files' = Files
    BY <1>4 DEF FailOperation, host, TypeInv
  <2>2. \A f \in Files : files'[f].status \in {"absent", "present", "edited", "unreadable"}
    <3>1. \A f : Rendered(f).status = "present"
      BY DEF Rendered
    <3> QED
      BY <1>4, <3>1 DEF FailOperation, host, TypeInv
  <2> QED
    BY <2>1, <2>2 DEF TypeInv
<1>5. CASE HandChange
  <2>1. UNCHANGED <<store, secrets>>
    BY <1>5 DEF HandChange, RemoveContainer, StopContainer, SwapImage, DropVolume, DropNetwork,
                ChangeFile, Tamper
  <2>2. CASE \E u \in Units : RemoveContainer(u)
    BY <2>1, <2>2 DEF RemoveContainer, Without, TypeInv
  <2>3. \A u \in DOMAIN containers : /\ containers[u] \in Container
                                     /\ [containers[u] EXCEPT !.state = "exited"] \in Container
                                     /\ [containers[u] EXCEPT !.image = "other"] \in Container
    BY ContainersChange DEF TypeInv
  <2>4. CASE \E u \in Units : StopContainer(u) \/ SwapImage(u)
    BY <2>1, <2>3, <2>4 DEF StopContainer, SwapImage, TypeInv
  <2>5. CASE \E s \in WithVolume : DropVolume(s)
    BY <2>1, <2>5 DEF DropVolume, Without, TypeInv
  <2>6. CASE \E n \in {"hof"} \cup Isolated : DropNetwork(n)
    BY <2>1, <2>6 DEF DropNetwork, TypeInv
  <2>7. CASE \E f \in Files, status \in {"absent", "edited", "unreadable"} : ChangeFile(f, status)
    <3>1. PICK f \in Files, status \in {"absent", "edited", "unreadable"} : ChangeFile(f, status)
      BY <2>7
    <3>2. /\ files' = [files EXCEPT ![f].status = status]
          /\ UNCHANGED <<containers, volumes, networks>>
      BY <3>1 DEF ChangeFile
    <3>3. /\ DOMAIN files' = Files
          /\ \A g \in Files : files'[g].status \in {"absent", "present", "edited", "unreadable"}
      BY <3>2 DEF TypeInv
    <3> QED
      BY <2>1, <3>2, <3>3 DEF TypeInv
  <2> QED
    BY <1>5, <2>2, <2>4, <2>5, <2>6, <2>7 DEF HandChange
<1> QED
  BY <1>1, <1>2, <1>3, <1>4, <1>5 DEF Next

\* Together with the invariant of the host.
LEMMA TypeInvHolds == Spec => []TypeInv
<1>1. Init => TypeInv
  <2>1. SUFFICES ASSUME Init PROVE TypeInv
    OBVIOUS
  <2>2. DOMAIN containers = {} /\ DOMAIN volumes = {}
    BY <2>1 DEF Init
  <2>3. DOMAIN files = Files /\ \A f \in Files : files[f].status = "absent"
    BY <2>1 DEF Init
  <2> QED
    BY <2>1, <2>2, <2>3 DEF Init, TypeInv
<1>2. TypeInv /\ HostInv /\ [Next]_vars => TypeInv'
  BY StepKeepsTypes
<1> QED
  BY <1>1, <1>2, HostInvHolds, PTL DEF Spec

\* The types of the state: no role starts a unit from anything but a rendered definition, and
\* the records stay within their bounds.
THEOREM TypeOKHolds == Spec => []TypeOK
<1>1. ASSUME HostInv, TypeInv, DataInv PROVE TypeOK
  <2>1. pos # 0 => plan # NoPlan
    <3>1. ASSUME pos # 0, plan = NoPlan PROVE FALSE
      <4>1. Len(plan.operations) = 0
        BY <3>1 DEF NoPlan
      <4>2. pos \in 1 .. Len(plan.operations)
        BY <1>1, <3>1 DEF HostInv, HostType, PlanFits
      <4> QED
        BY <4>1, <4>2
    <3> QED
      BY <3>1
  <2>2. HostType /\ (pos = 0 => plan = NoPlan) /\ live \subseteq Persistent
    BY <1>1 DEF HostInv, DataInv
  <2> QED
    BY <1>1, <2>1, <2>2 DEF TypeOK, TypeInv, HostType
<1>2. HostInv /\ TypeInv /\ DataInv => TypeOK
  BY <1>1
<1> QED
  BY <1>2, HostInvHolds, TypeInvHolds, DataInvHolds, PTL

-----------------------------------------------------------------------------
(* A plan without operations.                                              *)

\* The files of two manifests with the same services, definitions and backup policy.
LEMMA SameFiles ==
  ASSUME NEW m, NEW c, NEW generation, Enabled(m) = Enabled(c), m.backup = c.backup,
         \A u \in RenderedUnits(m) : Definition(u, m) = Definition(u, c)
  PROVE  \A f \in Files : FileContents(f, m, generation) = FileContents(f, c, generation)
<1>1. RenderedUnits(m) = RenderedUnits(c) /\ renderCaddy(m) = renderCaddy(c)
  BY DEF RenderedUnits, renderCaddy
<1>2. [u \in RenderedUnits(m) |-> Definition(u, m)] = [u \in RenderedUnits(c) |-> Definition(u, c)]
  BY <1>1
<1>3. [units |-> [u \in RenderedUnits(m) |-> Definition(u, m)], generation |-> generation]
        = [units |-> [u \in RenderedUnits(c) |-> Definition(u, c)], generation |-> generation]
  BY <1>2
<1>4. [backup |-> m.backup, volumes |-> Enabled(m) \cap WithVolume]
        = [backup |-> c.backup, volumes |-> Enabled(c) \cap WithVolume]
  OBVIOUS
<1>5. FileContents("compose.yml", m, generation) = FileContents("compose.yml", c, generation)
  BY <1>3 DEF FileContents
<1>6. FileContents("Caddyfile", m, generation) = FileContents("Caddyfile", c, generation)
  BY <1>1 DEF FileContents
<1>7. FileContents("backup-inventory.json", m, generation)
        = FileContents("backup-inventory.json", c, generation)
  BY <1>4 DEF FileContents
<1> QED
  BY <1>5, <1>6, <1>7 DEF Files

\* computeGeneratedDrift(): files that nothing blocks and nothing repairs are as recorded.
LEMMA FilesAsRecorded ==
  ASSUME NEW m, NEW o, NEW b, NEW d, Unblocked(m, o, FALSE, b, d), Repairable(b, o, FALSE) = {},
         NEW f \in DOMAIN b.digests,
         o.files[f].status \in {"absent", "present", "edited", "unreadable"}
  PROVE  o.files[f].status = "present" /\ o.files[f].contents = b.digests[f]
<1>1. PICK kind : kind = GeneratedKind(b.digests[f], o.files[f])
  OBVIOUS
<1>2. PICK e : e = [file |-> f, kind |-> kind]
  OBVIOUS
<1>3. e.kind = kind /\ (kind # "none" => e \in computeGeneratedDrift(b, o))
  BY <1>1, <1>2 DEF computeGeneratedDrift
<1>4. kind # "none" => /\ kind # "generated-unreadable" /\ kind # "generated-modified"
                       /\ kind # "generated-missing"
  BY <1>3 DEF Unblocked, Repairable
<1>5. kind = "none"
  BY <1>1, <1>4 DEF GeneratedKind
<1> QED
  BY <1>1, <1>5 DEF GeneratedKind

\* buildPlan(): a plan that finds nothing to do, and nothing in its way.
LEMMA NothingToDoConverged ==
  ASSUME HostInv, TypeInv, Clean, Idle, current.generation > 0, NothingToDo(PlanNow(FALSE))
  PROVE  Converged(manifest)
<1>1. PICK o : o = observation
  OBVIOUS
<1>2. PICK b : b = resolveBaseline(current)
  OBVIOUS
<1>3. PICK d : d = topologyToServiceState(manifest)
  OBVIOUS
<1>4. PICK p : p = buildPlan(b, manifest, o, FALSE)
  OBVIOUS
<1>5. executable(p) /\ p.operations = << >> /\ pos = 0
  BY <1>1, <1>2, <1>4 DEF NothingToDo, PlanNow, Idle
<1>6. /\ o.docker = docker /\ o.containers = containers /\ o.volumes = DOMAIN volumes
      /\ o.networks = networks /\ o.files = files
  BY <1>1 DEF observation
<1>7. /\ HostType /\ RecordedData /\ CleanRecord /\ BaselineResolves(current, o)
      /\ manifest \in Manifests /\ current.manifest \in Manifests /\ current.generation \in Nat
      /\ current.generation # 0
  BY <1>5, <1>6 DEF HostInv, HostType, BaselineResolves
<1>8. Planned(current, manifest, o, FALSE, b, d, p)
  BY <1>2, <1>3, <1>4, <1>7 DEF Planned
<1>9. PICK anyChange, V, W, C, U, R, N :
        FreshPlan(current, manifest, o, FALSE, b, d, p, anyChange, V, W, C, U, R, N)
  <2>1. PICK anyChange \in BOOLEAN : \E V, W, C, U, R, N :
          PlanParts(manifest, o, FALSE, b, d, p, anyChange, V, W, C, U, R, N)
    BY <1>8, PlanInParts
  <2> QED
    BY <1>5, <1>8, <2>1 DEF FreshPlan
<1>10. HostFits(current, manifest, o, p)
  BY <1>7, <1>9, FreshPlanFitsHost
<1>11. \A a, r : ~Has(p, a, r)
  BY <1>5 DEF Has, ToSet
<1>12. Repairable(b, o, FALSE) = {} /\ b.topologyDigest = d.topologyDigest
  <2>1. ~anyChange
    BY <1>5, <1>9, FreshPlanChanges
  <2> QED
    BY <1>9, <2>1 DEF FreshPlan, PlanParts
<1>13. Recorded(current, b) /\ Desired(manifest, d) /\ Unblocked(manifest, o, FALSE, b, d)
  BY <1>5, <1>8, PlannedFrom, NothingBlocks
<1>14. /\ Enabled(manifest) = Enabled(current.manifest) /\ manifest.release = current.manifest.release
       /\ manifest.backup = current.manifest.backup
  <2>1. /\ b.topologyDigest = [enabled |-> Enabled(current.manifest),
                               release |-> current.manifest.release, backup |-> current.manifest.backup]
        /\ d.topologyDigest = [enabled |-> Enabled(manifest), release |-> manifest.release,
                               backup |-> manifest.backup]
    BY <1>7, <1>13 DEF Recorded, Desired
  <2>2. /\ b.topologyDigest.enabled = Enabled(current.manifest)
        /\ b.topologyDigest.release = current.manifest.release
        /\ b.topologyDigest.backup = current.manifest.backup
        /\ d.topologyDigest.enabled = Enabled(manifest) /\ d.topologyDigest.release = manifest.release
        /\ d.topologyDigest.backup = manifest.backup
    BY <2>1
  <2> QED
    BY <1>12, <2>2
<1>15. \A u \in RenderedUnits(manifest) :
         /\ u \in RenderedUnits(current.manifest) /\ u \in DOMAIN containers
         /\ Definition(u, manifest) = Definition(u, current.manifest)
         /\ UnitUp(u) /\ containers[u].image = manifest.release
  <2> SUFFICES ASSUME NEW u \in RenderedUnits(manifest)
               PROVE  /\ u \in RenderedUnits(current.manifest) /\ u \in DOMAIN containers
                      /\ Definition(u, manifest) = Definition(u, current.manifest)
                      /\ UnitUp(u) /\ containers[u].image = manifest.release
    OBVIOUS
  <2>1. /\ u \in RenderedUnits(current.manifest) /\ u \in DOMAIN containers
        /\ unitConfigFingerprint(u, manifest) = unitConfigFingerprint(u, current.manifest)
        /\ containers[u].image = manifest.release /\ containers[u].state = "running"
    BY <1>6, <1>10, <1>11 DEF HostFits
  <2>2. Definition(u, manifest) = Definition(u, current.manifest)
    BY <2>1 DEF unitConfigFingerprint
  <2> QED
    BY <2>1, <2>2 DEF UnitUp
<1>16. \A u \in RenderedUnits(manifest) : RunsAsDesired(u, manifest)
  <2>1. renderCaddy(manifest) = renderCaddy(current.manifest)
    BY <1>14 DEF renderCaddy
  <2> QED
    BY <1>7, <1>15, <2>1 DEF CleanRecord, AsDescribed, RunsAsDesired
<1>17. DOMAIN containers = RenderedUnits(manifest)
  BY <1>6, <1>10, <1>11, <1>15 DEF HostFits
<1>18. Networks(manifest) \subseteq networks
  BY <1>6, <1>10, <1>11 DEF HostFits
<1>19. \A s \in Persistent \cap Enabled(manifest) :
         s \in DOMAIN volumes /\ volumes[s] = Schema[manifest.release][s].to
  <2> SUFFICES ASSUME NEW s \in Persistent \cap Enabled(manifest)
               PROVE  s \in DOMAIN volumes /\ volumes[s] = Schema[manifest.release][s].to
    OBVIOUS
  <2>1. s \in ExpectedVolumes(current) /\ s \in DOMAIN volumes
    BY <1>6, <1>10, <1>11, CatalogAssumption DEF HostFits
  <2> QED
    BY <1>7, <1>14, <2>1 DEF RecordedData
<1>20. ASSUME NEW f \in Files
       PROVE  /\ files[f].status = "present"
              /\ files[f].contents = FileContents(f, manifest, current.generation)
  <2>1. f \in DOMAIN b.digests /\ b.digests[f] = FileContents(f, current.manifest, current.generation)
    BY <1>7, <1>13 DEF Recorded
  <2>2. o.files[f].status \in {"absent", "present", "edited", "unreadable"}
    BY <1>6 DEF TypeInv
  <2>3. o.files[f].status = "present" /\ o.files[f].contents = b.digests[f]
    BY ONLY <1>12, <1>13, <2>1, <2>2, FilesAsRecorded
  <2>4. FileContents(f, manifest, current.generation) = FileContents(f, current.manifest, current.generation)
    BY <1>14, <1>15, SameFiles
  <2> QED
    BY <1>6, <2>1, <2>3, <2>4
<1> QED
  BY <1>16, <1>17, <1>18, <1>19, <1>20 DEF Converged

\* plan.mjs, foldMissingIntoRepairs(): as long as no operation failed, a plan is a no-op only when
\* nothing needs doing, after any edits and any changes by hand.
THEOREM NoOpMeansConvergedHolds == Spec => []NoOpMeansConverged
<1>1. HostInv /\ TypeInv => NoOpMeansConverged
  BY NothingToDoConverged DEF NoOpMeansConverged, NoOpMeansConvergedHere
<1> QED
  BY <1>1, HostInvHolds, TypeInvHolds, PTL

-----------------------------------------------------------------------------
(* Planning again what was just committed.                                 *)

\* diffUnits(): no differences.
LEMMA NothingDiffers ==
  ASSUME NEW b, NEW d, DOMAIN b.units \subseteq Units, DOMAIN d.units = DOMAIN b.units,
         \A u \in DOMAIN b.units : d.units[u].configFingerprint = b.units[u].configFingerprint
  PROVE  /\ diffUnits(b, d).create = << >> /\ diffUnits(b, d).update = << >>
         /\ diffUnits(b, d).remove = << >>
<1>1. PICK diff : diff = diffUnits(b, d)
  OBVIOUS
<1>2. /\ Distinct(diff.create) /\ Distinct(diff.update) /\ Distinct(diff.remove)
      /\ TouchedUnits(diff.create) = DOMAIN d.units \ DOMAIN b.units
      /\ TouchedUnits(diff.update) = {u \in DOMAIN d.units \cap DOMAIN b.units :
                                        d.units[u].configFingerprint # b.units[u].configFingerprint}
      /\ TouchedUnits(diff.remove) = DOMAIN b.units \ DOMAIN d.units
  BY <1>1, DiffInDetail
<1>3. /\ TouchedUnits(diff.create) = {} /\ TouchedUnits(diff.update) = {}
      /\ TouchedUnits(diff.remove) = {}
  BY <1>2
<1>4. ASSUME NEW e, Distinct(e), TouchedUnits(e) = {} PROVE e = << >>
  <2>1. e \in Seq(ToSet(e)) /\ ToSet(e) = {}
    BY <1>4 DEF Distinct, IsSeq, TouchedUnits, ToSet
  <2> QED
    BY <2>1
<1> QED
  BY <1>1, <1>2, <1>3, <1>4

\* The folds: nothing is added when there is nothing to repair or to migrate.
LEMMA NothingToFold ==
  ASSUME NEW d
  PROVE  /\ \A kind : foldRepairs(kind, d, {}, << >>, << >>) = << >>
         /\ foldGatewayRestartForCaddyfile(d, {}, << >>, << >>) = << >>
         /\ foldMigrationOnlyIntoUpdates(d, {}, << >>, << >>) = << >>
<1>0. << >> \o << >> = << >> /\ Pick(UnitOrder, {}) = << >>
  BY PickNothing
<1>1. ASSUME NEW kind PROVE foldRepairs(kind, d, {}, << >>, << >>) = << >>
  <2> DEFINE I == {i \in DOMAIN UnitOrder : /\ [unit |-> UnitOrder[i], kind |-> kind] \in {}
                                            /\ UnitOrder[i] \notin TouchedUnits(<< >> \o << >>)
                                            /\ UnitOrder[i] \in DOMAIN d.units}
             make(u) == Entry(u, d.units[u].image, d.units[u].image, TRUE)
  <2>1. foldRepairs(kind, d, {}, << >>, << >>)
          = << >> \o [i \in DOMAIN Pick(UnitOrder, I) |-> make(Pick(UnitOrder, I)[i])]
    BY DEF foldRepairs, EntriesFor
  <2>2. I = {}
    OBVIOUS
  <2> HIDE DEF I, make
  <2>3. [i \in DOMAIN Pick(UnitOrder, I) |-> make(Pick(UnitOrder, I)[i])] = << >>
    BY <1>0, <2>2
  <2> QED
    BY <1>0, <2>1, <2>3
<1>2. foldGatewayRestartForCaddyfile(d, {}, << >>, << >>) = << >>
  <2> DEFINE I == {i \in DOMAIN UnitOrder : /\ UnitOrder[i] = Gateway
                                            /\ \E g \in {} : g.file = "Caddyfile"
                                            /\ UnitOrder[i] \notin TouchedUnits(<< >> \o << >>)
                                            /\ UnitOrder[i] \in DOMAIN d.units}
             make(u) == Entry(u, d.units[u].image, d.units[u].image, FALSE)
  <2>1. foldGatewayRestartForCaddyfile(d, {}, << >>, << >>)
          = << >> \o [i \in DOMAIN Pick(UnitOrder, I) |-> make(Pick(UnitOrder, I)[i])]
    BY DEF foldGatewayRestartForCaddyfile, EntriesFor
  <2>2. I = {}
    OBVIOUS
  <2> HIDE DEF I, make
  <2>3. [i \in DOMAIN Pick(UnitOrder, I) |-> make(Pick(UnitOrder, I)[i])] = << >>
    BY <1>0, <2>2
  <2> QED
    BY <1>0, <2>1, <2>3
<1>3. foldMigrationOnlyIntoUpdates(d, {}, << >>, << >>) = << >>
  <2> DEFINE I == {i \in DOMAIN UnitOrder : /\ \E s \in {} : DbUnit[s] = UnitOrder[i]
                                            /\ UnitOrder[i] \notin TouchedUnits(<< >> \o << >>)}
             make(u) == Entry(u, d.units[u].image, d.units[u].image, FALSE)
  <2>1. foldMigrationOnlyIntoUpdates(d, {}, << >>, << >>)
          = << >> \o [i \in DOMAIN Pick(UnitOrder, I) |-> make(Pick(UnitOrder, I)[i])]
    BY DEF foldMigrationOnlyIntoUpdates, EntriesFor
  <2>2. I = {}
    OBVIOUS
  <2> HIDE DEF I, make
  <2>3. [i \in DOMAIN Pick(UnitOrder, I) |-> make(Pick(UnitOrder, I)[i])] = << >>
    BY <1>0, <2>2
  <2> QED
    BY <1>0, <2>1, <2>3
<1> QED
  BY <1>1, <1>2, <1>3

\* buildOperations(): no operations.
LEMMA NothingToOperate ==
  ASSUME NEW b, NEW d, d.volumes \subseteq b.volumes, d.networks \subseteq b.networks,
         d.volumes \subseteq Services, d.networks \subseteq {"hof"} \cup Services,
         b.topologyDigest = d.topologyDigest
  PROVE  buildOperations(b, d, << >>, << >>, << >>, {}, {}, {}) = << >>
<1>1. PICK all : all = buildOperations(b, d, << >>, << >>, << >>, {}, {}, {})
  OBVIOUS
<1>2. IsSeq(<< >>) /\ << >> \o << >> = << >> /\ Distinct(<< >>)
  BY DEF IsSeq, Distinct, ToSet
<1>3. PICK anyChange \in BOOLEAN : ~anyChange
  OBVIOUS
<1>4. anyChange <=> \/ (<< >> \o << >>) \o << >> # << >> \/ {} # {} \/ {} # {}
                    \/ b.topologyDigest # d.topologyDigest \/ {} # {}
  BY <1>2, <1>3
<1>5. Ordered(all, 1, 11) /\ AskedFor(all, b, d, << >>, << >>, << >>, {}, {}, anyChange)
  BY <1>1, <1>2, <1>4, OperationsInOrder
<1>6. /\ TouchedUnits(<< >>) = {} /\ TouchedUnits(<< >> \o << >>) = {}
      /\ {i \in DOMAIN (<< >> \o << >>) : (<< >> \o << >>)[i].imageChanged} = {}
  BY <1>2 DEF TouchedUnits
<1>7. TouchedUnits(Pick(<< >> \o << >>, {})) = {}
  BY <1>6, PickNothing
<1>8. d.volumes \ b.volumes = {} /\ {} \cup (d.networks \ b.networks) = {}
  OBVIOUS
<1>9. ToSet(all) = {}
  BY <1>3, <1>5, <1>6, <1>7, <1>8 DEF AskedFor
<1>10. all \in Seq(ToSet(all))
  BY <1>5 DEF Ordered, IsSeq
<1> QED
  BY <1>1, <1>9, <1>10

\* What is observed of a host on which nothing happened since the commit of c.
Observed(c, o, b, d) ==
  /\ Recorded(c, b) /\ Desired(c.manifest, d) /\ c.generation # 0 /\ o.docker = "available"
  /\ DOMAIN o.containers = RenderedUnits(c.manifest)
  /\ \A u \in RenderedUnits(c.manifest) : /\ o.containers[u].image = c.manifest.release
                                          /\ o.containers[u].state = "running"
  /\ ExpectedVolumes(c) \subseteq o.volumes /\ Networks(c.manifest) \subseteq o.networks
  /\ \A f \in Files : /\ o.files[f].status = "present"
                      /\ o.files[f].contents = FileContents(f, c.manifest, c.generation)

\* computeDrift(), computeGeneratedDrift(), computeMissingResources(): no drift.
LEMMA NothingDrifts ==
  ASSUME NEW c, NEW o, NEW b, NEW d, Observed(c, o, b, d)
  PROVE  /\ computeDrift(b, o) = {} /\ computeGeneratedDrift(b, o) = {}
         /\ computeMissingResources(b.volumes, o, o.volumes) = {}
         /\ computeMissingResources(b.networks, o, o.networks) = {}
<1>1. /\ DOMAIN b.units = RenderedUnits(c.manifest) /\ DOMAIN o.containers = DOMAIN b.units
      /\ \A u \in DOMAIN b.units : /\ o.containers[u].image = b.units[u].image
                                   /\ o.containers[u].state = "running"
      /\ o.docker = "available" /\ b.volumes \subseteq o.volumes /\ b.networks \subseteq o.networks
      /\ b.digests = [f \in Files |-> FileContents(f, c.manifest, c.generation)]
      /\ \A f \in Files : /\ o.files[f].status = "present"
                          /\ o.files[f].contents = FileContents(f, c.manifest, c.generation)
  BY DEF Observed, Recorded
<1>2. computeDrift(b, o) = {}
  <2>1. /\ DOMAIN b.units \ DOMAIN o.containers = {} /\ DOMAIN o.containers \ DOMAIN b.units = {}
        /\ {v \in DOMAIN b.units \cap DOMAIN o.containers :
              \/ o.containers[v].image # b.units[v].image
              \/ o.containers[v].state # "running"} = {}
    BY <1>1
  <2>2. computeDrift(b, o) =
          {[unit |-> u, kind |-> "missing"] : u \in DOMAIN b.units \ DOMAIN o.containers}
            \cup {[unit |-> u, kind |-> "manual-change"] :
                    u \in {v \in DOMAIN b.units \cap DOMAIN o.containers :
                             \/ o.containers[v].image # b.units[v].image
                             \/ o.containers[v].state # "running"}}
            \cup {[unit |-> u, kind |-> "unmanaged"] : u \in DOMAIN o.containers \ DOMAIN b.units}
    BY <1>1 DEF computeDrift
  <2> QED
    BY ONLY <2>1, <2>2
<1>3. computeGeneratedDrift(b, o) = {}
  <2>1. DOMAIN b.digests = Files
    BY <1>1
  <2>2. \A f \in Files : GeneratedKind(b.digests[f], o.files[f]) = "none"
    BY <1>1 DEF GeneratedKind
  <2>3. SUFFICES ASSUME NEW e \in computeGeneratedDrift(b, o) PROVE FALSE
    OBVIOUS
  <2>4. e.kind # "none" /\ \E f \in DOMAIN b.digests :
          e = [file |-> f, kind |-> GeneratedKind(b.digests[f], o.files[f])]
    BY <2>3 DEF computeGeneratedDrift
  <2>5. PICK f \in Files : e = [file |-> f, kind |-> GeneratedKind(b.digests[f], o.files[f])]
    BY <2>1, <2>4
  <2>6. e.kind = GeneratedKind(b.digests[f], o.files[f])
    BY <2>5
  <2> QED
    BY <2>2, <2>4, <2>6
<1>4. computeMissingResources(b.volumes, o, o.volumes) = {} /\ computeMissingResources(b.networks, o, o.networks) = {}
  BY <1>1 DEF computeMissingResources
<1> QED
  BY <1>2, <1>3, <1>4

\* servicesNeedingMigration() and the blockers: nothing is in the way.
LEMMA NothingToMigrate ==
  ASSUME NEW c, NEW o, NEW b, NEW d, Observed(c, o, b, d), NEW repairDrift
  PROVE  /\ servicesNeedingMigration(b, d, {}) = {}
         /\ migrationBlockers(b, c.manifest, {}) = {} /\ computeUpgradeBlockers(b, d, << >>) = {}
         /\ retainBlockers(c.manifest, << >>) = {}
         /\ computeBlockers(b, o, {}, {}, {}, repairDrift, {}) = {}
<1>1. /\ b.release = d.release /\ b.enabled = d.enabled /\ o.docker = "available"
      /\ \A s \in Persistent \cap b.enabled : b.schemaVersion[s] = d.schemaVersion[s]
  BY DEF Observed, Recorded, Desired
<1>2. servicesNeedingMigration(b, d, {}) = {}
  BY <1>1 DEF servicesNeedingMigration
<1>3. migrationBlockers(b, c.manifest, {}) = {}
  BY DEF migrationBlockers
<1>4. computeUpgradeBlockers(b, d, << >>) = {}
  <2>1. /\ {q \in {d.release} : b.release \notin {"none", q}} = {}
        /\ {t \in Persistent \cap b.enabled \cap d.enabled : b.schemaVersion[t] # d.schemaVersion[t]} = {}
        /\ {t \in (Persistent \cap d.enabled) \ b.enabled :
              b.retained[t] # 0 /\ b.retained[t] # d.schemaVersion[t]} = {}
    BY <1>1
  <2>2. PICK e : e = << >>
    OBVIOUS
  <2>3. {j \in DOMAIN e : e[j].imageChanged /\ e[j].fromImage # e[j].toImage} = {}
    BY <2>2
  <2>4. computeUpgradeBlockers(b, d, e) =
          {<<"release", r>> : r \in {q \in {d.release} : b.release \notin {"none", q}}}
            \cup {<<"image", u>> :
                   u \in {e[i].unit : i \in {j \in DOMAIN e : /\ e[j].imageChanged
                                                              /\ e[j].fromImage # e[j].toImage}}}
            \cup {<<"schema", s>> : s \in {t \in Persistent \cap b.enabled \cap d.enabled :
                                             b.schemaVersion[t] # d.schemaVersion[t]}}
            \cup {<<"retained schema", s>> :
                   s \in {t \in (Persistent \cap d.enabled) \ b.enabled :
                            b.retained[t] # 0 /\ b.retained[t] # d.schemaVersion[t]}}
    BY DEF computeUpgradeBlockers
  <2>5. computeUpgradeBlockers(b, d, e) = {}
    BY ONLY <2>1, <2>3, <2>4
  <2> QED
    BY <2>2, <2>5
<1>5. retainBlockers(c.manifest, << >>) = {}
  BY DEF retainBlockers, ServicesOf, TouchedUnits
<1>6. computeBlockers(b, o, {}, {}, {}, repairDrift, {}) = {}
  BY <1>1 DEF computeBlockers
<1> QED
  BY <1>2, <1>3, <1>4, <1>5, <1>6

\* buildPlan(): nothing to do, and nothing in the way.
LEMMA SettledPlan ==
  ASSUME NEW c, NEW o, NEW repairDrift, NEW b, NEW d, NEW p, Observed(c, o, b, d),
         Planned(c, c.manifest, o, repairDrift, b, d, p)
  PROVE  NothingToDo(p)
<1>1. /\ computeDrift(b, o) = {} /\ computeGeneratedDrift(b, o) = {}
      /\ computeMissingResources(b.volumes, o, o.volumes) = {}
      /\ computeMissingResources(b.networks, o, o.networks) = {}
  BY NothingDrifts
<1>2. /\ DOMAIN b.units \subseteq Units /\ d.volumes \subseteq Services
      /\ d.networks \subseteq {"hof"} \cup Services
  BY PlanDomains
<1>3. /\ DOMAIN d.units = DOMAIN b.units
      /\ \A u \in DOMAIN b.units : d.units[u].configFingerprint = b.units[u].configFingerprint
      /\ d.volumes \subseteq b.volumes /\ d.networks \subseteq b.networks
      /\ b.topologyDigest = d.topologyDigest
  BY DEF Observed, Recorded, Desired, ExpectedVolumes
<1>4. /\ diffUnits(b, d).create = << >> /\ diffUnits(b, d).update = << >>
      /\ diffUnits(b, d).remove = << >>
  BY <1>2, <1>3, NothingDiffers
<1>13. PICK repairable, withMissing, withManual, withGateway, imageChanged, needing, update :
         Decided(b, c.manifest, o, repairDrift, p, d, repairable, withMissing, withManual,
                 withGateway, imageChanged, needing, update)
  BY PlanDecides DEF Planned
<1>14. repairable = {}
  BY <1>1, <1>13 DEF Decided
<1>15. withMissing = << >>
  <2>1. withMissing = foldRepairs("missing", d, computeDrift(b, o), diffUnits(b, d).create,
                                  diffUnits(b, d).update)
    BY <1>13 DEF Decided
  <2> QED
    BY <1>1, <1>4, <2>1, NothingToFold
<1>16. withManual = << >>
  <2>1. withManual = IF repairDrift
                       THEN foldRepairs("manual-change", d, computeDrift(b, o), diffUnits(b, d).create,
                                        withMissing)
                       ELSE withMissing
    BY <1>13 DEF Decided
  <2> QED
    BY <1>1, <1>4, <1>15, <2>1, NothingToFold
<1>17. withGateway = << >>
  <2>1. withGateway = foldGatewayRestartForCaddyfile(d, repairable, diffUnits(b, d).create, withManual)
    BY <1>13 DEF Decided
  <2> QED
    BY <1>4, <1>14, <1>16, <2>1, NothingToFold
<1>18. imageChanged = {}
  <2>1. ToSet(diffUnits(b, d).create \o withGateway) = {}
    BY <1>4, <1>17 DEF ToSet
  <2>2. imageChanged = {e.unit : e \in {f \in ToSet(diffUnits(b, d).create \o withGateway) : f.imageChanged}}
    BY <1>13 DEF Decided
  <2> QED
    BY <2>1, <2>2
<1>19. needing = {}
  <2>1. needing = servicesNeedingMigration(b, d, imageChanged)
    BY <1>13 DEF Decided
  <2> QED
    BY <1>18, <2>1, NothingToMigrate
<1>20. update = << >>
  <2>1. update = foldMigrationOnlyIntoUpdates(d, needing, diffUnits(b, d).create, withGateway)
    BY <1>13 DEF Decided
  <2> QED
    BY <1>4, <1>17, <1>19, <2>1, NothingToFold
<1>22. p.operations = << >>
  <2>1. p.operations = buildOperations(b, d, diffUnits(b, d).create, update, diffUnits(b, d).remove,
                                       needing, computeMissingResources(b.networks, o, o.networks),
                                       repairable)
    BY <1>13 DEF Decided
  <2> QED
    BY <1>1, <1>2, <1>3, <1>4, <1>14, <1>19, <1>20, <2>1, NothingToOperate
<1>23. p.blockers = {}
  <2>1. PICK others : others = migrationBlockers(b, c.manifest, needing)
                                 \cup computeUpgradeBlockers(b, d, withGateway)
                                 \cup retainBlockers(c.manifest, diffUnits(b, d).remove)
    OBVIOUS
  <2>2. p.blockers = computeBlockers(b, o, computeDrift(b, o), computeGeneratedDrift(b, o),
                                     computeMissingResources(b.volumes, o, o.volumes), repairDrift,
                                     others)
    BY <1>13, <2>1 DEF Decided
  <2>3. others = {}
    BY <1>4, <1>17, <1>19, <2>1, NothingToMigrate
  <2> QED
    BY <1>1, <2>2, <2>3, NothingToMigrate
<1> QED
  BY <1>22, <1>23 DEF NothingToDo, executable

\* buildPlan(): planning again what was just committed finds nothing to do and nothing in the way,
\* whatever was tampered with, failed or repaired on the way to that commit.
THEOREM IdempotentAfterCommitHolds == Spec => []IdempotentAfterCommit
<1>1. ASSUME HostInv PROVE IdempotentAfterCommit
  <2>1. SUFFICES ASSUME settled, manifest = current.manifest, NEW repair \in BOOLEAN
                 PROVE  NothingToDo(PlanNow(repair))
    BY DEF IdempotentAfterCommit
  <2>2. SettledHost /\ HostType
    BY <1>1, <2>1 DEF HostInv
  <2>3. PICK o : o = observation
    OBVIOUS
  <2>4. PICK b : b = resolveBaseline(current)
    OBVIOUS
  <2>5. PICK d : d = topologyToServiceState(manifest)
    OBVIOUS
  <2>6. PICK p : p = buildPlan(b, manifest, o, repair)
    OBVIOUS
  <2>7. /\ o.docker = docker /\ o.containers = containers /\ o.volumes = DOMAIN volumes
        /\ o.networks = networks /\ o.files = files
    BY <2>3 DEF observation
  <2>8. current.manifest \in Manifests /\ current.generation \in Nat /\ current.generation # 0
    BY <2>2 DEF SettledHost, HostType
  <2>9. Planned(current, manifest, o, repair, b, d, p)
    BY <2>1, <2>4, <2>5, <2>6, <2>8 DEF Planned
  <2>10. Recorded(current, b) /\ Desired(manifest, d)
    BY <2>9, PlannedFrom
  <2>11. Observed(current, o, b, d)
    BY <2>1, <2>2, <2>7, <2>8, <2>10 DEF Observed, SettledHost, UnitUp
  <2>12. NothingToDo(p)
    BY <2>1, <2>9, <2>11, SettledPlan
  <2> QED
    BY <2>3, <2>4, <2>6, <2>12 DEF PlanNow
<1>2. HostInv => IdempotentAfterCommit
  BY <1>1
<1> QED
  BY <1>2, HostInvHolds, PTL
=============================================================================
