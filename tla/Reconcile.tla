------------------------------ MODULE Reconcile ------------------------------
(* The reconciler as a closed loop: an operator edits services.yml and runs *)
(* `hofctl apply`, which plans against the host, executes the plan's        *)
(* operations one role at a time and records a new generation.  Between     *)
(* operations the host may be changed by hand, and an operation may fail at *)
(* any step; then its lock is released and the next apply plans again.      *)
(* That operations exclude each other is Apply's subject: here at most one  *)
(* runs, and a crash that is resumed is no step at all.                     *)
EXTENDS Plan

CONSTANTS
  Manifests,      \* the contents services.yml may have
  FirstManifest,  \* the one the operator starts with
  UnitNeeds,      \* unit |-> units of its own service that its health needs
  MaxGeneration, MaxEdits, MaxTampers, MaxFailures, MaxRotations

ASSUME ManifestAssumption ==
  FirstManifest \in Manifests /\ \A m \in Manifests : m.release \in Releases

ASSUME BoundsAssumption ==
  /\ MaxGeneration \in Nat /\ MaxEdits \in Nat /\ MaxTampers \in Nat
  /\ MaxFailures \in Nat /\ MaxRotations \in Nat

VARIABLES
  manifest,    \* services.yml
  store,       \* secrets.sops.yaml: version of each secret, 0 when absent
  current,     \* current.json and topology.json; generation 0 is "no state"
  docker,      \* "absent" until host.prepare, then "available"
  containers,  \* unit |-> its container, for units that have one
  volumes,     \* service |-> schema version of its data, 0 when empty
  networks,    \* networks that exist
  files,       \* /etc/hof/generated
  secrets,     \* /etc/hof/secrets: version of each secret, 0 when absent
  plan,        \* the approved plan, NoPlan when no operation runs
  pos,         \* position in plan.operations, 0 when no operation runs
  live,        \* (history) services whose data a commit has recorded
  settled,     \* (history) nothing happened on the host since the last commit
  budget       \* how often the environment may still interfere

host == <<docker, containers, volumes, networks, files, secrets>>
vars == <<manifest, store, current, host, plan, pos, live, settled, budget>>

NoPlan ==
  [mode |-> "none", manifest |-> FirstManifest, generation |-> 0,
   retained |-> [s \in Persistent |-> 0], secrets |-> {}, operations |-> <<>>, blockers |-> {}]

Init ==
  /\ manifest = FirstManifest
  /\ store = [s \in WithSecret |-> 0]
  /\ current = [generation |-> 0, manifest |-> FirstManifest, retained |-> [s \in Persistent |-> 0]]
  /\ docker = "absent" /\ containers = <<>> /\ volumes = <<>> /\ networks = {}
  /\ files = [f \in Files |-> [status |-> "absent", contents |-> <<>>]]
  /\ secrets = [s \in WithSecret |-> 0]
  /\ plan = NoPlan /\ pos = 0
  /\ live = {} /\ settled = FALSE
  /\ budget = [edits |-> MaxEdits, tampers |-> MaxTampers, failures |-> MaxFailures,
               rotations |-> MaxRotations]

Idle == pos = 0

\* No operation has failed so far.
Clean == budget.failures = MaxFailures

Spend(what) == budget[what] > 0 /\ budget' = [budget EXCEPT ![what] = @ - 1]

\* The function f with x mapped to y, x in its domain or not.
Put(f, x, y) == [z \in DOMAIN f \cup {x} |-> IF z = x THEN y ELSE f[z]]
Without(f, x) == [z \in DOMAIN f \ {x} |-> f[z]]

-----------------------------------------------------------------------------
(* The workstation.                                                        *)

EditManifest ==
  /\ Idle /\ Spend("edits")
  /\ manifest' \in Manifests \ {manifest}
  /\ UNCHANGED <<store, current, host, plan, pos, live, settled>>

\* `hofctl secrets ensure`: generates what is required and missing.
ensureSecrets ==
  /\ Idle
  /\ \E s \in requiredSecrets(manifest) : store[s] = 0
  /\ store' = [s \in WithSecret |->
                 IF s \in requiredSecrets(manifest) /\ store[s] = 0 THEN 1 ELSE store[s]]
  /\ UNCHANGED <<manifest, current, host, plan, pos, live, settled, budget>>

\* The operator replaces a value in the store.
RotateSecret(s) ==
  /\ Idle /\ store[s] > 0 /\ Spend("rotations")
  /\ store' = [store EXCEPT ![s] = @ + 1]
  /\ UNCHANGED <<manifest, current, host, plan, pos, live, settled>>

observation ==
  [docker |-> docker, containers |-> containers, volumes |-> DOMAIN volumes,
   networks |-> networks, files |-> files]

PlanNow(repairDrift) == buildPlan(resolveBaseline(current), manifest, observation, repairDrift)

\* `hofctl apply` of a plan that was just computed and approved.
BeginApply(repairDrift) ==
  /\ Idle /\ current.generation < MaxGeneration
  /\ Renders(manifest) /\ BaselineResolves(current, observation)
  /\ \A s \in requiredSecrets(manifest) : store[s] > 0
  /\ LET p == PlanNow(repairDrift)
     IN  /\ executable(p) /\ ActionsAllowed(p) /\ p.operations # <<>>
         /\ plan' = p
  /\ pos' = 1 /\ settled' = FALSE
  /\ UNCHANGED <<manifest, store, current, host, live, budget>>

-----------------------------------------------------------------------------
(* The roles.  Each operation has a condition under which the role can      *)
(* succeed at all; when it does not hold, the operation can only fail.      *)

Resource == plan.operations[pos].resource
At(action) == pos > 0 /\ plan.operations[pos].action = action

\* What compose.yml on the target says now.
ComposeHas(u) == files["compose.yml"].status = "present" /\ u \in DOMAIN files["compose.yml"].contents.units
OnDisk(u) == files["compose.yml"].contents.units[u]

NetworksOf(u) == {"hof"} \cup ({ServiceOf[u]} \cap Isolated)
UnitUp(u) == u \in DOMAIN containers /\ containers[u].state = "running"
ServiceUp(s) == \A u \in Units : ServiceOf[u] = s => UnitUp(u)

\* A unit can be run by Compose: it is described, its external networks exist,
\* and so do the files of its secrets.
Runnable(u) ==
  /\ ComposeHas(u) /\ NetworksOf(u) \subseteq networks
  /\ \A s \in OnDisk(u).secrets : secrets[s] > 0

\* readiness.wait: what the unit's health endpoint needs.
DependenciesUp(u) == \A s \in DependsOn[ServiceOf[u]] : ServiceUp(s)
SiblingsUp(u) == \A v \in UnitNeeds[u] : UnitUp(v)

Done == pos' = pos + 1 /\ UNCHANGED <<manifest, store, current, plan, live, settled, budget>>

hostPrepare ==
  /\ At("host.prepare")
  /\ docker' = "available"
  /\ Done /\ UNCHANGED <<containers, volumes, networks, files, secrets>>

secretEnsure ==
  /\ At("secret.ensure")
  /\ secrets' = [s \in WithSecret |-> IF s \in plan.secrets THEN store[s] ELSE secrets[s]]
  /\ Done /\ UNCHANGED <<docker, containers, volumes, networks, files>>

volumeEnsure ==
  /\ At("volume.ensure")
  /\ volumes' = IF Resource \in DOMAIN volumes THEN volumes ELSE Put(volumes, Resource, 0)
  /\ Done /\ UNCHANGED <<docker, containers, networks, files, secrets>>

networkEnsure ==
  /\ At("network.ensure")
  /\ networks' = networks \cup {Resource}
  /\ Done /\ UNCHANGED <<docker, containers, volumes, files, secrets>>

\* The registry and the image store are not part of the model.
imageVerifyOrPull ==
  /\ At("image.verify") \/ At("image.pull")
  /\ Done /\ UNCHANGED host

serviceStop ==
  /\ At("service.stop")
  /\ containers' = IF Resource \in DOMAIN containers
                     THEN [containers EXCEPT ![Resource].state = "exited"] ELSE containers
  /\ Done /\ UNCHANGED <<docker, volumes, networks, files, secrets>>

\* Mutant: the files are rendered for the generation that is being replaced.
RenderedForBaseline(f) ==
  [status |-> "present", contents |-> FileContents(f, plan.manifest, plan.generation - 1)]

Rendered(f) == [status |-> "present", contents |-> FileContents(f, plan.manifest, plan.generation)]

configWrite ==
  /\ At("config.write")
  /\ files' = [f \in Files |-> Rendered(f)]
  /\ Done /\ UNCHANGED <<docker, containers, volumes, networks, secrets>>

\* `docker rm` refuses a running container.
serviceRemove ==
  /\ At("service.remove") /\ ~UnitUp(Resource)
  /\ containers' = Without(containers, Resource)
  /\ Done /\ UNCHANGED <<docker, volumes, networks, files, secrets>>

\* Compose creates a volume that compose.yml names and Docker does not have.
Mounted(u) ==
  LET s == ServiceOf[u]
  IN  IF s \in WithVolume /\ s \notin DOMAIN volumes THEN Put(volumes, s, 0) ELSE volumes

databaseMigrate ==
  /\ At("database.migrate") /\ Runnable(DbUnit[Resource])
  /\ volumes' = Put(volumes, Resource, Schema[plan.manifest.release][Resource].to)
  /\ Done /\ UNCHANGED <<docker, containers, networks, files, secrets>>

\* `docker compose up --no-deps`: a unit that is down starts from compose.yml,
\* the secret files and, the gateway, the Caddyfile as they are now.
serviceStart ==
  /\ At("service.start") /\ Runnable(Resource)
  /\ containers' =
       Put(containers, Resource,
           [state |-> "running", image |-> OnDisk(Resource).image, definition |-> OnDisk(Resource),
            secrets |-> [s \in WithSecret |-> IF s \in OnDisk(Resource).secrets THEN secrets[s] ELSE 0],
            caddyfile |-> IF Resource = Gateway THEN files["Caddyfile"].contents ELSE {}])
  /\ volumes' = Mounted(Resource)
  /\ Done /\ UNCHANGED <<docker, networks, files, secrets>>

readinessWait ==
  /\ At("readiness.wait") /\ UnitUp(Resource)
  /\ Resource # Gateway => DependenciesUp(Resource) /\ SiblingsUp(Resource)
  /\ Done /\ UNCHANGED host

\* Mutant: the dispatch loop runs on past the last operation.
stateCommitGoesOn ==
  /\ At("state.commit")
  /\ current' = [generation |-> plan.generation, manifest |-> plan.manifest, retained |-> plan.retained]
  /\ live' = live \cup (Persistent \cap Enabled(plan.manifest))
  /\ settled' = TRUE /\ pos' = pos + 1
  /\ UNCHANGED <<manifest, store, host, plan, budget>>

stateCommit ==
  /\ At("state.commit")
  /\ current' = [generation |-> plan.generation, manifest |-> plan.manifest, retained |-> plan.retained]
  /\ live' = live \cup (Persistent \cap Enabled(plan.manifest))
  /\ settled' = TRUE /\ plan' = NoPlan /\ pos' = 0
  /\ UNCHANGED <<manifest, store, host, budget>>

RoleStep ==
  \/ hostPrepare \/ secretEnsure \/ volumeEnsure \/ networkEnsure \/ imageVerifyOrPull
  \/ serviceStop \/ configWrite \/ serviceRemove \/ databaseMigrate \/ serviceStart
  \/ readinessWait \/ stateCommit

\* A role fails before it did anything; one that delivers several files may
\* have delivered some of them.
FailOperation ==
  /\ pos > 0 /\ Spend("failures")
  /\ \/ UNCHANGED host
     \/ /\ At("config.write")
        /\ \E written \in (SUBSET Files) \ {{}} :
             files' = [f \in Files |-> IF f \in written THEN Rendered(f) ELSE files[f]]
        /\ UNCHANGED <<docker, containers, volumes, networks, secrets>>
  /\ plan' = NoPlan /\ pos' = 0
  /\ UNCHANGED <<manifest, store, current, live, settled>>

-----------------------------------------------------------------------------
(* Changes by hand, while no operation runs.                               *)

Tamper ==
  /\ Idle /\ current.generation > 0 /\ Spend("tampers")
  /\ settled' = FALSE
  /\ UNCHANGED <<manifest, store, current, docker, secrets, plan, pos, live>>

RemoveContainer(u) ==
  /\ Tamper /\ u \in DOMAIN containers
  /\ containers' = Without(containers, u)
  /\ UNCHANGED <<volumes, networks, files>>

StopContainer(u) ==
  /\ Tamper /\ UnitUp(u)
  /\ containers' = [containers EXCEPT ![u].state = "exited"]
  /\ UNCHANGED <<volumes, networks, files>>

SwapImage(u) ==
  /\ Tamper /\ u \in DOMAIN containers
  /\ containers' = [containers EXCEPT ![u].image = "other"]
  /\ UNCHANGED <<volumes, networks, files>>

\* Docker refuses to remove a volume that a container mounts.
DropVolume(s) ==
  /\ Tamper /\ s \in DOMAIN volumes
  /\ \A u \in DOMAIN containers : ServiceOf[u] # s
  /\ volumes' = Without(volumes, s)
  /\ UNCHANGED <<containers, networks, files>>

\* ... and a network to which a running container is attached.
DropNetwork(n) ==
  /\ Tamper /\ n \in networks
  /\ \A u \in DOMAIN containers : n \in NetworksOf(u) => ~UnitUp(u)
  /\ networks' = networks \ {n}
  /\ UNCHANGED <<containers, volumes, files>>

ChangeFile(f, status) ==
  /\ Tamper /\ files[f].status # status
  /\ files' = [files EXCEPT ![f].status = status]
  /\ UNCHANGED <<containers, volumes, networks>>

HandChange ==
  \/ \E u \in Units : RemoveContainer(u) \/ StopContainer(u) \/ SwapImage(u)
  \/ \E s \in WithVolume : DropVolume(s)
  \/ \E n \in {"hof"} \cup Isolated : DropNetwork(n)
  \/ \E f \in Files, status \in {"absent", "edited", "unreadable"} : ChangeFile(f, status)

Next ==
  \/ EditManifest \/ ensureSecrets \/ \E s \in WithSecret : RotateSecret(s)
  \/ \E repairDrift \in BOOLEAN : BeginApply(repairDrift)
  \/ RoleStep \/ FailOperation \/ HandChange

Spec == Init /\ [][Next]_vars

-----------------------------------------------------------------------------
(* Correctness.                                                            *)

Container ==
  [state : {"running", "exited"}, image : Releases \cup {"other"},
   definition : {Definition(u, m) : u \in Units, m \in Manifests},
   secrets : [WithSecret -> Nat], caddyfile : SUBSET Routed]

TypeOK ==
  /\ manifest \in Manifests
  /\ store \in [WithSecret -> Nat] /\ secrets \in [WithSecret -> Nat]
  /\ current.generation \in 0 .. MaxGeneration /\ current.manifest \in Manifests
  /\ docker \in {"absent", "available"}
  /\ DOMAIN containers \subseteq Units
  /\ \A u \in DOMAIN containers : containers[u] \in Container
  /\ DOMAIN volumes \subseteq WithVolume /\ \A s \in DOMAIN volumes : volumes[s] \in Nat
  /\ networks \subseteq {"hof"} \cup Isolated
  /\ \A f \in Files : files[f].status \in {"absent", "present", "edited", "unreadable"}
  /\ pos \in 0 .. Len(plan.operations) /\ (pos = 0 <=> plan = NoPlan)
  /\ live \subseteq Persistent

NothingToDo(p) == executable(p) /\ p.operations = <<>>

\* buildPlan(): planning again what was just committed finds nothing to do and
\* nothing in the way, whatever happened on the way to that commit.
IdempotentAfterCommit ==
  settled /\ manifest = current.manifest => \A repair \in BOOLEAN : NothingToDo(PlanNow(repair))

\* The unit runs what m asks for, and the gateway has read its routes.
RunsAsDesired(u, m) ==
  /\ UnitUp(u) /\ containers[u].definition = Definition(u, m)
  /\ containers[u].image = m.release
  /\ u = Gateway => containers[u].caddyfile = renderCaddy(m)

Converged(m) ==
  /\ DOMAIN containers = RenderedUnits(m) /\ \A u \in RenderedUnits(m) : RunsAsDesired(u, m)
  /\ Networks(m) \subseteq networks
  /\ \A s \in Persistent \cap Enabled(m) :
       s \in DOMAIN volumes /\ volumes[s] = Schema[m.release][s].to
  /\ \A f \in Files : /\ files[f].status = "present"
                      /\ files[f].contents = FileContents(f, m, current.generation)

\* plan.mjs, foldMissingIntoRepairs(): a plan is a no-op only when nothing needs
\* doing, after any edits and any changes by hand.
NoOpMeansConvergedHere ==
  Idle /\ current.generation > 0 /\ NothingToDo(PlanNow(FALSE)) => Converged(manifest)

\* The same as long as no operation has failed.
NoOpMeansConverged == Clean => NoOpMeansConvergedHere

\* buildOperations(): when an operation's turn comes, what its role needs is
\* there, as long as nobody interferes: a unit to be started or migrated is
\* down, described, and has its networks, secrets and volume; the services it
\* depends on are up before its readiness is awaited.
OperationCanSucceed ==
  pos > 0 =>
    /\ At("service.remove") => ~UnitUp(Resource)
    /\ At("database.migrate") => ~UnitUp(DbUnit[Resource]) /\ Runnable(DbUnit[Resource])
    /\ At("service.start") =>
         /\ ~UnitUp(Resource) /\ Runnable(Resource)
         /\ ServiceOf[Resource] \in WithVolume => ServiceOf[Resource] \in DOMAIN volumes
         /\ ServiceOf[Resource] \in Persistent =>
              volumes[ServiceOf[Resource]] = Schema[plan.manifest.release][ServiceOf[Resource]].to
    /\ At("readiness.wait") => UnitUp(Resource) /\ DependenciesUp(Resource)

\* render-topology.mjs: the units of one service are started in rendering order,
\* so the API finds its agent, in every enable and every repair.
SiblingsStartFirst == At("readiness.wait") => SiblingsUp(Resource)

\* computeRetainedServices(), resolveBaseline(): data that was ever committed stays
\* expected, so its loss is always noticed, however often its service is
\* disabled and enabled again.
LiveDataStaysExpected == live \subseteq resolveBaseline(current).volumes

\* computeBlockers(), servicesNeedingMigration(): committed data that is gone is never
\* replaced by an empty volume, and the initial migration never runs on it.
LiveDataNeverReinitialised ==
  [][\A s \in live :
       /\ s \notin DOMAIN volumes => s \notin DOMAIN volumes'
       /\ At("database.migrate") /\ Resource = s /\ databaseMigrate => s \in Enabled(current.manifest)]_vars

\* buildOperations(), scopedSecretNames: as long as no operation failed, a commit
\* leaves no secret file that none of its consumers has been restarted with.
DeliveredSecretsAreInUse ==
  Clean /\ settled =>
    \A s \in requiredSecrets(current.manifest) :
      \E u \in Consumers[s] : UnitUp(u) /\ containers[u].secrets[s] = secrets[s]
=============================================================================
