# hof-ops: a TLA+ verification project

hof-ops deploys and reconciles one "Hof" installation on one target host.
`hofctl plan` computes a plan from an inspection of the target, `hofctl apply`
executes it step by step with Ansible roles, and everything that must survive a
crash is a file on the target: the execution lease, the operation lock, the
operation journal with its event stream, the generation snapshots and the two
pointer files `topology.json` and `current.json`.

## Inventory

| Part (source) | State | Operations | What makes it hard |
| --- | --- | --- | --- |
| Execution lease (`scripts/target-mutate.mjs`: `acquireMutex`, `assertOwnership`, `fencedWriteScript`, `release`) | `exec.lease` and `lock.flock` (kernel locks), `exec.lease.owner`, a transient systemd unit, the client's cached `isLost` | acquire, heartbeat, self-expiry, fenced write, release | a client that sleeps past its timeout, a write that arrives late, a unit killed in the middle of a write |
| Operation lock, journal, events (`target-mutate.mjs`, `operation-journal.mjs`) | `lock.json`, `journal/<op>.json`, `journal/<op>.events.ndjson` | create lock and journal, append an event, set the status, release the lock | a crash between any two of them; the lock release is not fenced |
| Apply (`scripts/apply.mjs`, `runApply`) | where an invocation stands, its view of the events | first inspection, lease, lock, recheck, dispatch loop, resume, recovery of an interrupted commit | two invocations of one or two operations, resumes, lost leases, orphaned roles |
| State role and baseline (`ansible/roles/state`, `scripts/state.mjs`) | `generations/NNNNNN/`, `topology.json`, `current.json` | stat, publish, two pointer writes; `resolveBaseline` reads them | failure or crash between the three writes |
| Planner (`plan.mjs`, `plan-v2.mjs`, `plan-command.mjs`), renderer (`render-topology.mjs`) | none (pure) | render, diff, fold drift into repairs, order, block | the order and completeness of operations, over a history of edits, drift and failed operations |
| Roles (`ansible/roles/*`) | containers, volumes, networks, `/etc/hof/generated`, `/etc/hof/secrets` | one per operation of a plan | an operation that fails half way leaves a host no generation describes |
| Secrets (`secrets.mjs`) | `secrets.sops.yaml` on the workstation | ensure, deliver | a delivered value that no running unit uses |
| Backup and restore validators (`backup-flow.mjs`, `backup-ids.mjs`) | none (pure) | accept or refuse a plan's steps, a bundle of documents | a step that exists but comes too early; documents of different operations that are each valid |
| Backup and restore documents (`operation-v2.mjs`, `target-mutate.mjs`) | v2 lock, journal, events on the target | check on the workstation, then compare-and-swap on the target | calls that overlap, get lost or arrive under the next lease |
| Recovery kit (`recovery-kit.mjs`, `backup-credentials.mjs`) | one write-once file on the target | assemble, encrypt, publish, open | stale inputs, a damaged transfer, a second publisher |
| Promotion, inspector, preflight, CLI, contracts | none | decisions, probes, formatting | little or nothing over time |

The parts meet in `runApply`: every invocation takes the lease first, holds it
over all that follows, and passes its token to every fenced write. The lock
outlives the invocation and is what `--resume` looks for. Roles run in a
container on the operator's machine and reach the target over their own SSH
connection, outside the lease.

Every hazard is listed at its line in `PROJECT.json`, with the properties that
would notice it.

## Modules

`FencedLease` is the abstract lease: a token is granted when nobody holds, never
twice; it may be revoked at any time; a write lands only for the holder.

`ExecLease` is the protocol of `target-mutate.mjs`, one action per shell
statement that takes a lock or changes a file. A token is one `acquireMutex()`
call. `unit[t]` is the program counter of the held script, `write[t]` of a
fenced write, `beat[t]` of an `assertOwnership()` script; the two kernel locks
are functions of these counters, so a killed process drops its locks at once,
as the kernel does. `KillUnit` is SIGKILL or OOM, `Vanish` a client that dies
or loses its connection, `Stall` a suspended one. Time is counted in ticks of
`age`, the age of the owner record. A client that is still `prompt` heartbeats
at most `MaxGap` ticks apart. At most one heartbeat script and one write script
per token are under way; the code awaits each write, and two heartbeats in
flight do what one does.

`StepResumption` holds the two readers of an event stream. `MCStepResumption`
feeds them every stream up to a bound and compares them with a writer's view.

`Apply` models several invocations of `hofctl apply`, fresh or `--resume`,
against one target. It uses the lease as `FencedLease` promises it: `holder` is
the invocation whose fenced writes land. An operation is named by the
invocation that created it, and a state file by the operation that wrote it;
`current.json` carries its `operationId`, so two operations never write the same
bytes. A plan is a sequence of `NSteps` steps whose last is `state.commit`; the
other roles are one step that ends or fails. Choices worth knowing:

- `assertOwnership()` and the fenced write after it are one action, because the
  fence on the target decides. Journal and events, which a resume reads one
  after the other under the lease, are read in one action, and so are the two
  pointer files.
- `attempt` is always 1, as in the dispatch loop; the readers handle more.
- A dispatch that times out is a role that ended: `docker run` forwards the signal
  and waits. Only a crashed invocation leaves a role running (`JobsOutlive`).
- `Recheck` may always refuse (drift, a failed inspection, missing secrets,
  changed TLS files). The same refusals on a resume are `Abort`.
- `BaselineResolves` compares digests, as `resolveBaseline()` does. With
  `SameDigest` two operations may have equal digests; without it they never do.
  With it, an unequal pair may still be refused, since `StartFresh` need not
  happen and `Recheck` may refuse: the runs with `SameDigest` cover both.
- Backup and restore operations, which share `lock.json`, are `OperationV2`'s. No model has
  both: an apply that finds a v2 lock only refuses (`isV2Lock`), fresh or resuming, and
  both kinds create the lock with the same exclusive script.

`Plan` is `hofctl plan` as operators: what the renderer makes of a manifest, as far
as a plan compares it (units with image, environment, secrets and networks, the
Caddyfile's routes, three of the generated files), and `buildPlan` with the diffs, the
folds of missing and changed resources, retention, migrations, blockers and the order
of operations. The catalog is a constant. A service has at most one volume and one
secret of its own; image trust, ids and wording are left out.

`Reconcile` closes the loop: an operator edits `services.yml`, runs `secrets ensure`
and applies; `BeginApply` is `runPlan` and its refusals, and each role is an action
with the condition under which it can succeed at all and what it changes on the
host. `FailOperation` ends an operation at any step; a failing `config.write` may
have written some of its files. `HandChange` is what people do to a host between
operations. Operations exclude each other here, which is `Apply`'s result, and an
operation that crashes and is resumed is no step at all. `MCReconcile` instantiates it
with part of `catalog/services-v1.yaml`: the gateway, two mandatory services, one optional
service with a database and a shared secret, and one with two units.

`BackupFlow` holds the validators of `backup-flow.mjs` and the ids of `backup-ids.mjs`
as predicates: the code collects violations, the predicate says there is none.
A digest is an injective function of what it covers. `BackupReview` proposes plans
and bundles to them. No planner or runner for backups is in the repository, so the
canonical plan and the documents follow `schemas/` and ADR 0006; an edit drops,
moves, repeats or redirects a step, and a bundle may take each document from another
operation. The verdicts are compared with independent definitions: an execution of
the steps against a small machine, and the operation every document came from.

`OperationV2` starts where the review approved: `writeLockAndJournal`,
`writeJournalStatus` and `writeEvent` are each a check on the caller's side that puts a
call in flight, and one script on the target that lands it later, if it still is
fenced and the journal is still what was read. A status may be sent with or without the
event log. Lease holders succeed each other at
any moment; of the lease only the promise of `FencedLease` is used. A persisted plan
may be edited by hand and keep its `planId`.

`RecoveryKit` assembles a kit from files of any generation, publishes it over a
transport that may damage it, and opens it. Encryption is external: a ciphertext
is opened by its recipient's identity only.

`MCBackupOperation` composes review, operation and kit. The kit lives in a file of
its own and shares no variable with the others, so its steps are explored apart
from theirs.

The eight modules whose names end in `Proofs` hold the theorems. `MCExecLease` and
`MCApply` add only the symmetry sets. `Plan` and `StepResumption` are written over positions
(`Pick`, `EventsOf`) where the code filters lists: `SelectSeq` and `FlattenSeq` are
recursive and the provers know nothing of them.

A definition whose comment starts with "Mutant" is a wrong variant of the
definition below it, used to show that a property notices the difference.

## Runs

| Run | Instance | Result |
| --- | --- | --- |
| `exec_lease` | 2 tokens, timeout 2, 1 write each, fairness | types, a living holder's record goes only by its own release or expiry, no handover during a checked write, prompt holder keeps the lease, only the latest token writes, `FencedLease` implemented, a client that is gone frees the lease |
| `exec_lease_split` | 2 tokens, 2 writes each, `AtomicDowngrade = FALSE` | only the latest token writes even when two units overlap |
| `step_resumption` | 2 steps, 2 attempts, 5 events | the readers accept exactly the legal streams and decide by real progress |
| `apply` | 2 invocations, 3 faults, stalls and orphans | lock with journal, each role once, readable streams, commit last |
| `apply_exclusive` | 3 invocations, 2 faults, no stall, no orphan | pointers backed by snapshots, generations advance by one, success means committed, roles run under their lock, a fresh apply runs on its baseline |
| `apply_live` | 2 invocations, 2 faults, orphans, fairness | a published commit is resolved |
| `reconcile` | 5 services, 6 units, 7 manifests, 2 edits, 1 change by hand, 1 failure, 1 rotation | planning what was just committed finds nothing to do; a no-op means the host is as desired; every operation finds what its role needs; committed data is never forgotten nor reinitialised; delivered secrets are in use |
| `backup_operation` | plans of 2 units, 2 destinations, 2 volumes with 2 edits, bundles of 2 operations; 2 operations, 2 calls in flight, 2 holders, 1 event, 1 edit by hand; 2 publishers, 3 generations | the validators accept exactly what is safe to execute and what belongs together; a finished operation is frozen; events follow the approved plan; a restore's commit claim is honest; the lock names a journal; a kit restores its generation with a usable credential for each destination, and is published intact |
| `apply_next_generation`, `apply_failed_lock` | 2 invocations, 1 or 2 faults | violated; see below |
| `reconcile_noop`, `reconcile_repair_order` | as `reconcile`, with a failure, or with two changes by hand | violated; see below |

Bounds. Two tokens are an old and a new acquisition; a third adds no new kind of
overlap, and the safety theorems hold for any number. In
`exec_lease_split` two writes let one write of a token be late while another already
landed; with fairness one write keeps the graph small, and a late write of the old
token still meets the new one. Two steps are one ordinary
role and the commit; skipping, running and blocking are decided per step. Two
invocations with three faults are, for instance, a stall, an orphaned role and
a crash during the resume; a third invocation together with stalls and orphans
is too large for an exhaustive run. Three invocations let one operation be
planned, a second commit and a third resume the first. `MaxGeneration` exceeds
the generations the invocations can commit, so it cuts nothing off. Two edits in
`reconcile` are an edit and its reversal, or a service disabled and enabled again;
five generations are more than they can use. Each other kind of interference happens
once, at any point and in any combination with the rest. In `backup_operation` one
edit removes or misplaces a step and the second hides it from a check that only
counts. Two destinations, units
and volumes let one of a kind be served and the other not. Two calls under two holders
are a late call and the one that overtakes it; one event lets the log say that
`state.restore` succeeded while a status write is under way. Only an unedited plan is
carried out (`RunEdits = 0`): the writers know a plan's steps by their ids only.
The runs do
not check for deadlock: a system whose operators have all given up stops.

Fairness. In `ExecLease` the scripts on the target keep running and its clock
advances; nothing is assumed of a client. In `Apply` a live invocation and a
running role make progress, the lease of a dead client expires (that is
`GoneClientFreesLease`), and an operator who finds the target locked repeats
`--resume` until it gets the lease, which is what every message of the program
tells the operator to do. That last assumption is strong fairness, because a
competing fresh apply may take the lease in between any finite number of times.

### What the code does not do

Each violation run takes a sentence of the repository and shows a behaviour of
the code that contradicts it; `PROJECT.json` quotes the sentences.

- `apply_next_generation`: a `state.commit` that fails after publishing its
  directory owns generation N+1 for good; every later plan commits N+1 and is
  refused by the role.
- `apply_failed_lock`: a crash between "failed" in the journal and the lock
  release leaves a lock that `--resume` refuses because the operation failed and a
  fresh apply refuses because it is locked.
- `reconcile_noop`: an operation restarts a unit with a changed setting and then
  fails; the operator reverts `services.yml` and repairs the drifted files. Drift
  compares image and state of a container and never its configuration, so from then
  on every plan is a no-op while the unit runs the abandoned setting. Without a
  failed operation `NoOpMeansConverged` holds.
- `reconcile_repair_order`: with the container of `wachter` gone and that of
  `wachter-agent` stopped, the repair starts `wachter` first and waits for a
  readiness that needs the agent: missing units are folded in before changed ones, and
  units of one service are not ordered. `OperationCanSucceed` therefore speaks of
  dependencies between services only.

Limits of what is claimed, each visible in the code:

- `releaseLock()` compares the operation and carries no lease token, so an invocation
  that lost its lease can remove the lock of an operation being resumed. The recheck
  under the lock is skipped when the first invocation dies before it and the
  operation is resumed. A `topology.json` one generation ahead of `current.json` is
  not recognised as an interrupted commit when the two digests are equal.
- A failed bootstrap, or a failed creation of a new unit, leaves resources the
  baseline does not know, and every later plan refuses; `hofctl adopt` is what would
  resolve it and is not implemented.
- A secret shared by two units may stay old in the one that a plan does not restart;
  `DeliveredSecretsAreInUse` asks for one consumer.
- Two concurrent runs of `secrets ensure` can lose a value: the store has no lock.
- A blocked backup or restore plan (`executable: false`) passes `assertPlanValid()`, and no writer
  looks at the field. A policy's `appliedManifestDigest`, the installation in a
  restore evidence's target, and an evidence's denial that the operation was abandoned (a claim
  is compared with the log) are compared with nothing: `Covered` and `OfOneOperation` leave
  them out, and `BundleVerdictMatchesProvenance` holds of all the rest. Events are bound to their
  operation only when the journal is in the bundle. The services to stop come from
  the plan itself, and no validator compares them with the real topology.
- `CommittedGenerationIsHonest` needs a holder that does not overlap its own calls,
  passes the event log with the status (`writeJournalStatus()` takes it in an optional `bundle`
  and compares nothing without it) and
  reads it under the lease it writes with: the compare-and-swap covers the
  journal and not the event file. `careless` records that a caller did one of the first two; the
  other properties hold of such callers too.
- What one atomic step refuses by itself is that step's guard in the model and not stated
  again as a property: `ln` an existing kit, `creates` with `mv -T` an existing generation directory,
  `flock -n -x` a second unit past its probe.
- A script that dies between journal and lock leaves an in-progress journal that no
  lock names.
- The recovery kit trusts its caller's list of enabled services and the certificate
  files as they are now.

Where a client may stall and a role may outlive its invocation, the properties
of `apply_exclusive` do not all hold: an orphaned `state.commit` can write its
pointers after a later generation committed. ADR 0005 says that roles are not
fenced. These properties are therefore claimed only without stalls and orphans.

## Proofs

All for every value of the constants that satisfies the assumptions named in the modules.
Each safety theorem rests on an inductive invariant: `Init` implies it, every action
keeps it (one step per action), and it implies the property.

`ExecLeaseProofs`
- `TypeCorrect`: types.
- `LatestWriterOnlyHolds`, from `FenceInv`: the owner record is the token published
  last or absent, and a write past its check belongs to that token. Every change of
  the record happens under `lock.flock`, which a checked write holds. No
  assumption on `flock`.
- `NoHandoffDuringWriteHolds`, assuming `AtomicDowngrade`, from
  `LeaseInv`: a token's unit has gone as far as its history says, one script holds the guard
  at a time, one unit is past its probe (`SingleHolder`), and a checked write keeps everybody
  else out through its own shared lock. The last is the property; without the others
  it is not inductive.
- `LivingHolderKeepsRecordHolds`, from the same and `RecordInv`: a unit that holds finds its own
  record or none, and one that began to expire still has its own, too old one. The held
  script never reads the token in the record, so this rests on both locks: the guard
  keeps heartbeats and releases out from the age check to the removal, and the shared lock on
  `exec.lease` keeps every other acquisition from publishing while the unit runs.
- `PromptHolderSafe`, from the same and `MaxGap <= HeartbeatTimeout`.
- `LeaseRefinement`: `ExecLease` implements `FencedLease`. The abstract holder is the
  recorded owner while its unit runs or its checked write is under way: a unit may
  die before its last write landed.

`StepResumptionProofs` is about the readers over every stream, legal or not, for any number of
steps, attempts (`StreamBounds`: both naturals) and events.
- `AcceptsExactlyLegalStreamsHolds`, `DecisionMatchesProgressHolds`, from `StreamInv`: a stream is
  legal exactly when it is accepted, no event of a legal one is beyond its last step, and all
  earlier steps are done. The argument is by one event: appended to a well-formed step, an
  event keeps it well formed exactly when it continues the last one (`WellFormedContinues`,
  `ContinuesWellFormed`, for any set of positions), and `readAndValidateEvents` asks of it
  only what it asks of the stream before it (`ReadOneMore`).
- `VerdictsAreStickyHolds`: nothing that follows repairs a step (`StaysCorrupted`), and nothing
  continues a success.

`ApplyProofs` has the types and, per action, which files it changes. What the readers say of the
streams that the dispatch loop wrote (`Dispatched`) is at the beginning of `ApplyStreamProofs`.
- `ApplyTypeCorrect`: `TypeOK` alone is not inductive: that an appended event is well
  typed needs to know that the invocation is inside the loop's body with a step of the
  plan and an operation. `ControlInv` says this per program counter.
- `LockHasJournalHolds`: for any number of crashes, stalls and unfenced releases.

`ApplyStreamProofs` proves of every instance, stalls and orphaned roles included:
- `StepDispatchedOnceHolds`, `StreamsStayReadableHolds`, `CommitAfterAllStepsHolds`, from
  `StreamInv`. The properties speak of files; what carries them is how an
  invocation's program counter relates to the stream on the target. Two invocations may be
  inside the loop with different views of one stream, and only the one that holds the lease
  can append: for it `StreamInv` says where exactly the stream ends (`LeaseInv(p)`), for the others
  only that their view is an earlier state of it and the step they are in was opened
  (`RunInv(p)`). A dispatch follows the started event that one invocation wrote, and a
  recorded success has its role done.

`ApplyExclusiveProofs` assumes `~CanStall` and `~JobsOutlive`, as `apply_exclusive` does, for
any number of invocations and faults:
- `RunningRoleHoldsLockHolds`, `PointersBackedBySnapshotHolds`,
  `SucceededMeansCommittedHolds`, `FreshRolesMatchBaselineHolds`,
  `GenerationsAdvanceByOneHolds`, from `ExclusiveInv` on top of `StreamInv`: who runs under the
  lease holds it, waits for its own role and works on the operation the lock names
  (`OwnerInv`); until the state role, a fresh run is one generation ahead of `current.json`
  (`GenerationInv`); and the state directory has no gap up to the current generation
  (`StateDirInv`).

`BackupProofs` is about backup and restore, in three parts.

The review, over `OpSpec`, for any lists of units, destinations, volumes and networks without
repetition (`ReviewAssumption`), any number of edits and any two operations:
- `PlanVerdictMatchesExecutionHolds`. `ReviewInv` says that a plan, however edited, is a sequence of
  steps of the flow whose keys are of the right kind, that an unedited one is the canonical plan, and
  what a mix may look like. The machine and the validators are each brought to statements about
  positions: where a step of each kind is, and for which keys. A missing or repeated key is the
  one place where the two count differently (the validators compare sets and lengths,
  the machine remembers what was served), and the library's facts about cardinality close it. Then each
  direction is proved per kind: an accepted plan is safe at every position, and a plan that is safe
  and complete passes every check. The machine's state after a prefix is a fact about positions
  before it, so no induction over the list is needed.
- `BundleVerdictMatchesProvenanceHolds`. Ids and digests determine what they cover
  (`PlanKnownById`), so an accepted backup's documents are all of the operation its evidence
  names (`BackupTraced`), those of a restore of the one its journal names (`RestoreTraced`), and one
  foreign field in either is contradicted by a document that repeats it (`BackupEvidenceTraced`,
  `RestoreJournalTraced`). Conversely the documents of one operation pass every binding
  (`BackupAccepted`, `RestoreAccepted`), which needs that the canonical plan is itself accepted
  (`CanonicalAccepted`).

The operation, over `OpSpec` (a reviewed plan of any kind and shape, any number of operations, calls
and lease holders):
- `OpTypeCorrect`, `EventsFollowApprovedPlanHolds`, `CommittedGenerationIsHonestHolds`,
  `LockNamesItsJournalHolds`, `FinishedOperationIsFrozenHolds`, from `OpInv`. A call is checked
  when it is sent and lands later, so the invariant relates every call in flight to what its
  caller saw: a journal in progress, under a lease no later than the current one, and, for a status
  of a holder that runs one call at a time and brought the log, the log as it still is. Steps are trusted because the
  recomputed id of the persisted plan is the approved one (`BindingRecomputesId`,
  `TrustedPlanIsApproved`).

The kit, over `KitSpec` (any generations, stores, destinations and publishers):
- `PublishedKitCanBeOpenedHolds`, `OpenedKitRestoresItsGenerationHolds`, from
  `KitInv`: every kit a publisher offers, and the published one until the disk damages it, opens for
  its recipient to a payload that restores its generation; a damaged one opens for nobody.
  `AssembledRestores` is the lemma about assembly, for files of any mix of generations, and
  `ValidatedCredentialsAreUsable` the one about credentials: the code compares field names with
  tables per type, the property says what restic needs to open the destination's repository.
  `MarkerAssumption` keeps the model's markers for garbage and absence apart from kits.

`MCBackupOperation` interleaves review, `OpNext` and `KitNext`; what the runs explore is part of
`OpSpec` and `KitSpec`: each of its steps is a step of either or leaves its variables unchanged.

`ReconcileProofs`, over `Spec` of `Reconcile`, for any catalog, manifests and bounds:
- `LiveDataStaysExpectedHolds`, `LiveDataNeverReinitialisedHolds`, from `DataInv`. The first property
  is about the recorded generation only and changes when a plan is committed that was made many
  steps before. `DataInv` therefore says of the plan that runs that it will still expect all
  committed data, that it found this data on the host when it was made, that it migrates of
  it only what is enabled now, and that its last operation is the commit. That every executable
  plan is of this kind is `ExecutablePlan`, a lemma about all of `buildPlan`: the missing-volume,
  retain and retained-schema blockers each close one way to lose data.

It also has the lemmas about the planner that the next module needs: what a filtered or
concatenated sequence contains and in which order, that the dependency sort returns every
entry once and dependencies first (`SortedByDependency`), which operations a plan asks for and in
which phases (`OperationsInOrder`, `AsksOneByOne`), and what has been checked when nothing blocks a
plan (`NothingBlocks`). `PlanDecides` breaks `buildPlan` into its decisions, for all of them. The sort is a recursive function, and what it computes is proved
by a minimal counterexample over its rounds (`RoundsExist`, `RoundSequencesOneMore`).

`ReconcileHostProofs`, over the same `Spec`, on `DataInv` and one more invariant:
- `OperationCanSucceedHolds`, `DeliveredSecretsAreInUseHolds`, `NoOpMeansConvergedHolds`,
  `IdempotentAfterCommitHolds`, from `HostInv`. The properties speak of the turn of one operation or
  of the end of a plan, many steps after it was made, so none is inductive. `HostInv` says what
  the part of the plan that was carried out has done to the host: whatever the manifest needs is
  there or its operation is still ahead (`Ahead`); a unit is as wanted, or ahead to be started and
  then stopped first, or ahead to be removed; delivered secrets are those in the store. While no operation
  has failed it also says what the units run (`CleanOperation`, `CleanRecord`). A fresh plan
  fits the host (`FreshPlanFitsHost`), one lemma per role keeps the invariant, and the commit
  turns it into the record of the generation (`CommitKeepsHost`). The two planning properties
  then follow from the host alone: a host as recorded gives an empty plan
  (`NothingDiffers`, `NothingToFold`, `NothingDrifts`, `NothingToMigrate`), and an empty plan means that every
  difference the planner looks at is empty (`NothingToDoConverged`).
- `TypeOKHolds`, with `TypeInv`.

Assumptions about a catalog are those of the code's own tables. A service's dependencies come
before it in the table (`DependenciesFirst`). A unit of a service mounts its own secret, and
the other consumers of that secret belong to services that are always enabled
(`ConsumersAssumption`); a secret shared by two optional services is outside of `Plan`'s
abstraction of one secret per service. The bounds are naturals (`BoundsAssumption`).

The attempts to prove found three things about the models that TLC's instances had not
shown: the machine of `BackupReview` let a unit be awaited that the plan never started; an
evidence that denies an abandonment is compared with nothing (see the limits above); and two
CASEs, in `LogOf` and in `ReadOperation`, had arms that overlapped. The definitions were corrected.

Only model-checked: `GoneClientFreesLease` and `PublishedCommitIsResolved`, which need fairness and
ENABLED, both beyond the prover, and the properties that are violated. Every invariant
and action property of a passing run has a theorem.

## Not modelled

The inspector with its probe script, preflight, the command line and the JSON
schemas keep no state and enter the models through their verdicts; a schema's
`minItems: 1` is assumed where it closes an empty list. `verify-promotion.mjs` is a list
of equalities over one set of documents, and a model of it would repeat the list.
Cryptography (SOPS, age, signatures), SSH and Docker are external. The SOPS files
and their rewriting, the certificate checks and the text of Compose and Caddy
files are abstracted to what is in them. CI workflows and release builders have no
run-time behaviour.

## Plan

Done: every module above, and a theorem for every invariant and action property that a passing run
checks. What could follow:

1. The secrets store as a file, with two `secrets ensure` that interleave. The value that gets lost is a
   known limit (see above).
2. The inspector: a probe that reads the host while a hand change is under way. `Reconcile`
   observes the host in one step.
