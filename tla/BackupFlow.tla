----------------------------- MODULE BackupFlow -----------------------------
(***************************************************************************)
(* The pure validators of scripts/backup-flow.mjs and the identities of    *)
(* scripts/backup-ids.mjs: whether the operations of a backup or restore   *)
(* plan form a coherent flow, and whether the documents of one operation   *)
(* (policy, plan, manifest, recovery kit, evidence, lock, journal, event   *)
(* log) belong together.                                                   *)
(*                                                                         *)
(* The code collects violation messages; a validator here is the predicate *)
(* "no violation".  An operation of a plan is [id, action, key], where key *)
(* is its destination or its resource.  A digest is modelled as an         *)
(* injective function of what it covers.  A bundle is a function from the  *)
(* names of the documents supplied to the documents.                       *)
(***************************************************************************)
EXTENDS Naturals, Sequences, FiniteSets

CONSTANT None

-----------------------------------------------------------------------------
(* backup-ids.mjs and the small helpers of backup-flow.mjs.                *)

Digest(value) == <<"sha256", value>>

Without(doc, fields) == [f \in DOMAIN doc \ fields |-> doc[f]]

canonicalContentId(doc, excludedFields) == Digest(Without(doc, excludedFields))

canonicalDocumentDigest(doc) == Digest(doc)

computeBackupId(installationId, generation, backupPolicyId, backupSequence) ==
  Digest(<<"hof.dev/backup-id/v1", installationId, generation,
           backupPolicyId, backupSequence>>)

hasDuplicates(items) ==
  \E i, j \in DOMAIN items : i # j /\ items[i] = items[j]

\* The arrays agree as multisets: the code compares them sorted.
exactSetEquals(a, b) ==
  LET Count(s, x) == Cardinality({i \in DOMAIN s : s[i] = x})
  IN  \A x \in {a[i] : i \in DOMAIN a} \cup {b[i] : i \in DOMAIN b} :
        Count(a, x) = Count(b, x)

indicesOfAction(ops, action) == {i \in DOMAIN ops : ops[i].action = action}

IndicesOf(ops, actions) == {i \in DOMAIN ops : ops[i].action \in actions}

\* The keys where they stand: the code's list of them is only compared up to order.
keysOf(ops, action) == [i \in indicesOfAction(ops, action) |-> ops[i].key]

\* Every index of I comes before every index of J.
Precede(I, J) == \A i \in I, j \in J : i < j

\* The operations of the action name exactly the expected keys, once each.
OneEach(ops, action, expected) ==
  /\ ~hasDuplicates(keysOf(ops, action))
  /\ exactSetEquals(keysOf(ops, action), expected)

\* For each key, its operation of the first action comes before that of the second.
KeyedPrecede(ops, first, second) ==
  \A i \in indicesOfAction(ops, first), j \in indicesOfAction(ops, second) :
    ops[i].key = ops[j].key => i < j

-----------------------------------------------------------------------------
(* The Backup Flow and the Restore Flow.                                   *)

BACKUP_ONCE == {"maintenance.enter", "maintenance.exit", "staging.build", "evidence.write"}

BackupFlowComplete(plan) ==
  LET ops == plan.operations
  IN  /\ ~hasDuplicates(plan.destinations)
      /\ ~hasDuplicates(plan.consistencySet)
      /\ \A a \in BACKUP_ONCE : Cardinality(indicesOfAction(ops, a)) = 1
      /\ \A a \in {"service.stop", "service.start", "readiness.wait"} :
           indicesOfAction(ops, a) # {}
      /\ OneEach(ops, "snapshot.create", plan.destinations)
      /\ OneEach(ops, "retention.apply", plan.destinations)
      /\ ~hasDuplicates(keysOf(ops, "service.stop"))
      /\ OneEach(ops, "service.start", keysOf(ops, "service.stop"))
      /\ ~hasDuplicates([i \in DOMAIN ops |-> ops[i].id])

\* Mutant: only the aggregate order is checked, not each destination's own.
BackupFlowOrderedAggregate(ops) ==
  LET At(a)     == indicesOfAction(ops, a)
      saving    == IndicesOf(ops, {"snapshot.create", "retention.apply"})
  IN  /\ ops[1].action = "maintenance.enter"
      /\ ops[Len(ops)].action = "evidence.write"
      /\ Precede(At("maintenance.enter"), At("staging.build"))
      /\ Precede(At("service.stop"), At("staging.build"))
      /\ Precede(At("staging.build"), At("snapshot.create"))
      /\ Precede(saving, At("service.start"))
      /\ Precede(At("service.start"), At("readiness.wait"))
      /\ Precede(At("readiness.wait"), At("maintenance.exit"))
      /\ Precede(saving, At("maintenance.exit"))

BackupFlowOrdered(ops) ==
  LET At(a)     == indicesOfAction(ops, a)
      saving    == IndicesOf(ops, {"snapshot.create", "retention.apply"})
  IN  /\ ops[1].action = "maintenance.enter"
      /\ ops[Len(ops)].action = "evidence.write"
      /\ KeyedPrecede(ops, "snapshot.create", "retention.apply")
      /\ Precede(At("maintenance.enter"), At("staging.build"))
      /\ Precede(At("service.stop"), At("staging.build"))
      /\ Precede(At("staging.build"), At("snapshot.create"))
      /\ Precede(saving, At("service.start"))
      /\ Precede(At("service.start"), At("readiness.wait"))
      /\ Precede(At("readiness.wait"), At("maintenance.exit"))
      /\ Precede(saving, At("maintenance.exit"))

\* A blocked plan claims no flow; only an executable one is analysed.
validateBackupPlanOperations(plan) ==
  plan.executable => /\ plan.operations # << >>
                     /\ BackupFlowComplete(plan)
                     /\ BackupFlowOrdered(plan.operations)

RESTORE_ONCE ==
  {"runner.install", "target.verify-clean", "snapshot.verify", "manifest.verify",
   "database.integrity-check", "checkpoint.data-restored", "config.restore",
   "secret.materialize", "state.restore", "evidence.write"}

RestoreFlowComplete(plan) ==
  LET ops == plan.operations
  IN  /\ ~hasDuplicates(plan.consistencySet)
      /\ ~hasDuplicates(plan.networks)
      /\ \A a \in RESTORE_ONCE : Cardinality(indicesOfAction(ops, a)) = 1
      /\ \A a \in {"service.start", "readiness.wait"} : indicesOfAction(ops, a) # {}
      /\ ~hasDuplicates(keysOf(ops, "service.start"))
      /\ OneEach(ops, "network.create", plan.networks)
      /\ OneEach(ops, "volume.create", plan.consistencySet)
      /\ OneEach(ops, "data.restore", plan.consistencySet)
      /\ ~hasDuplicates([i \in DOMAIN ops |-> ops[i].id])

RestoreFlowOrdered(ops) ==
  LET At(a)        == indicesOfAction(ops, a)
      verification == IndicesOf(ops, {"manifest.verify", "database.integrity-check"})
      provisioning == IndicesOf(ops, {"config.restore", "secret.materialize", "state.restore"})
  IN  /\ ops[1].action = "runner.install"
      /\ ops[Len(ops)].action = "evidence.write"
      /\ KeyedPrecede(ops, "volume.create", "data.restore")
      /\ Precede(At("target.verify-clean"), At("snapshot.verify"))
      /\ Precede(At("snapshot.verify"), At("network.create"))
      /\ Precede(At("network.create"), At("volume.create"))
      /\ Precede(At("data.restore"), verification)
      /\ Precede(verification, At("checkpoint.data-restored"))
      /\ Precede(At("data.restore"), At("checkpoint.data-restored"))
      /\ Precede(At("checkpoint.data-restored"), provisioning)
      /\ Precede(provisioning, At("service.start"))
      /\ Precede(At("service.start"), At("readiness.wait"))

validateRestorePlanOperations(plan) ==
  plan.executable => /\ plan.operations # << >>
                     /\ RestoreFlowComplete(plan)
                     /\ RestoreFlowOrdered(plan.operations)

\* operation-v2.mjs assertPlanValid(); the schema also wants one destination,
\* one volume and one network at least, which every plan of the model has.
assertPlanValid(operationKind, plan) ==
  IF operationKind = "backup" THEN validateBackupPlanOperations(plan)
                              ELSE validateRestorePlanOperations(plan)

-----------------------------------------------------------------------------
(* Bindings that are the same for both kinds of operation.                 *)

Has(bundle, name) == name \in DOMAIN bundle

\* The recipient's fingerprint and the ciphertext's digest are the kit's own,
\* and the ciphertext starts with the age header.
verifyRecoveryKit(kit) ==
  /\ kit.ageRecipientFingerprint = Digest(kit.ageRecipient)
  /\ kit.ciphertext[1] = "age-encryption.org/v1"
  /\ kit.ciphertextDigest = Digest(kit.ciphertext)

StepSucceeded(plan, events, action) ==
  \E op \in {plan.operations[i] : i \in indicesOfAction(plan.operations, action)} :
    \E n \in DOMAIN events : events[n].phase = "succeeded" /\ events[n].step = op.id

\* What evidence says of the run that produced it: operation, outcome, abandonment.
EvidenceMatchesRun(b) ==
  LET evidence == b.evidence
  IN  /\ Has(b, "lock") => evidence.operationId = b.lock.operationId
      /\ Has(b, "journal") =>
           /\ evidence.operationId = b.journal.operationId
           /\ b.journal.status # "in-progress"
           /\ b.journal.status = "succeeded" <=> evidence.status = "succeeded"
           /\ evidence.abandoned => b.journal.status = "failed"
      /\ Has(b, "events") /\ evidence.abandoned =>
           ~StepSucceeded(b.plan, b.events, "evidence.write")

LockBound(operationKind, b) ==
  /\ b.lock.approvedPlanId = b.plan.planId
  /\ b.lock.target = b.plan.target
  /\ b.lock.operationKind = operationKind

\* The embedded plan must be the plan itself, not just carry its id.
JournalBound(operationKind, b) ==
  /\ b.journal.approvedPlanId = b.plan.planId
  /\ b.journal.operationKind = operationKind
  /\ b.journal.target = b.plan.target
  /\ b.journal.plan = b.plan
  /\ Has(b, "lock") => b.lock.operationId = b.journal.operationId

EventsBound(operationKind, b) ==
  \A n \in DOMAIN b.events :
    LET event == b.events[n]
    IN  /\ Has(b, "journal") => event.operationId = b.journal.operationId
        /\ event.operationKind = operationKind
        /\ \E i \in DOMAIN b.plan.operations : b.plan.operations[i].id = event.step

-----------------------------------------------------------------------------
(* validateBackupBundle().                                                 *)

BackupPlanIds(plan) ==
  /\ plan.planId = canonicalContentId(plan, {"planId"})
  /\ plan.backupId = computeBackupId(plan.installationId, plan.generation,
                                     plan.backupPolicyId, plan.backupSequence)
  /\ plan.target.installationId = plan.installationId
  /\ plan.target.baselineGeneration = plan.generation

\* Mutant: the policy's confirmation generation is not compared.
PolicyBoundStale(plan, policy) ==
  /\ policy.policyId = canonicalContentId(policy,
                         {"policyId", "appliedGeneration", "appliedManifestDigest"})
  /\ plan.backupPolicyId = policy.policyId
  /\ plan.installationId = policy.installationId
  /\ plan.destinations = policy.destinations
  /\ plan.retention = policy.retention

PolicyBound(plan, policy) ==
  /\ policy.policyId = canonicalContentId(policy,
                         {"policyId", "appliedGeneration", "appliedManifestDigest"})
  /\ plan.backupPolicyId = policy.policyId
  /\ plan.installationId = policy.installationId
  /\ plan.generation = policy.appliedGeneration
  /\ plan.destinations = policy.destinations
  /\ plan.retention = policy.retention

BackupManifestBound(plan, manifest) ==
  /\ manifest.backupId = plan.backupId
  /\ manifest.installationId = plan.installationId
  /\ manifest.generation = plan.generation
  /\ manifest.releaseLockDigest = plan.releaseLockDigest
  /\ manifest.backupToolLockDigest = plan.backupToolLockDigest
  /\ exactSetEquals(manifest.consistencySet, plan.consistencySet)

BackupKitBound(b) ==
  /\ b.kit.installationId = b.plan.installationId
  /\ b.kit.createdForGeneration = b.plan.generation
  /\ Has(b, "manifest") => b.manifest.recoveryKitDigest = canonicalDocumentDigest(b.kit)
  /\ verifyRecoveryKit(b.kit)

BackupEvidenceBound(b) ==
  LET evidence == b.evidence
      plan     == b.plan
      reported == evidence.perDestinationResults
  IN  /\ evidence.backupId = plan.backupId
      /\ evidence.planId = plan.planId
      /\ evidence.backupPolicyId = plan.backupPolicyId
      /\ evidence.backupToolLockDigest = plan.backupToolLockDigest
      /\ evidence.target = plan.target
      /\ Has(b, "manifest") =>
           evidence.manifestDigest = canonicalDocumentDigest(b.manifest)
      /\ ~hasDuplicates(reported)
      /\ \A i \in DOMAIN reported : \E j \in DOMAIN plan.destinations :
           reported[i] = plan.destinations[j]
      /\ evidence.status = "succeeded" => exactSetEquals(reported, plan.destinations)

validateBackupBundle(b) ==
  /\ Has(b, "plan") /\ BackupPlanIds(b.plan)
  /\ Has(b, "policy") => PolicyBound(b.plan, b.policy)
  /\ Has(b, "manifest") => BackupManifestBound(b.plan, b.manifest)
  /\ Has(b, "kit") => BackupKitBound(b)
  /\ Has(b, "evidence") => BackupEvidenceBound(b) /\ EvidenceMatchesRun(b)
  /\ Has(b, "lock") => LockBound("backup", b)
  /\ Has(b, "journal") =>
       /\ JournalBound("backup", b)
       /\ b.journal.inputDigests =
            [releaseLockDigest    |-> b.plan.releaseLockDigest,
             backupToolLockDigest |-> b.plan.backupToolLockDigest,
             backupPolicyId       |-> b.plan.backupPolicyId]
  /\ Has(b, "events") => EventsBound("backup", b)

-----------------------------------------------------------------------------
(* validateRestoreBundle().                                                *)

RestoreManifestBound(plan, manifest) ==
  /\ plan.manifestDigest = canonicalDocumentDigest(manifest)
  /\ manifest.backupId = plan.backupId
  /\ manifest.installationId = plan.source.installationId
  /\ manifest.generation = plan.source.generation
  /\ manifest.release = plan.source.release
  /\ manifest.releaseLockDigest = plan.source.releaseLockDigest
  /\ manifest.backupToolLockDigest = plan.backupToolLockDigest
  /\ manifest.recoveryKitDigest = plan.recoveryKitDigest
  /\ exactSetEquals(manifest.consistencySet, plan.consistencySet)

RestoreKitBound(plan, kit) ==
  /\ kit.installationId = plan.source.installationId
  /\ kit.createdForGeneration = plan.source.generation
  /\ plan.recoveryKitDigest = canonicalDocumentDigest(kit)
  /\ verifyRecoveryKit(kit)

\* state.restore gives the target its installation, so only the connection counts.
targetConnectionEqual(a, b) ==
  LET Dropped == {"installationId", "baselineGeneration"}
  IN  Without(a, Dropped) = Without(b, Dropped)

RestoreEvidenceBound(plan, evidence) ==
  /\ evidence.planId = plan.planId
  /\ evidence.backupId = plan.backupId
  /\ evidence.snapshotId = plan.snapshotId
  /\ evidence.manifestDigest = plan.manifestDigest
  /\ evidence.recoveryKitDigest = plan.recoveryKitDigest
  /\ evidence.backupToolLockDigest = plan.backupToolLockDigest
  /\ evidence.source = plan.source
  /\ targetConnectionEqual(evidence.target, plan.target)

\* Set if and only if the plan's own state.restore step succeeded.
validateRestoreCommittedGeneration(journal, events, plan) ==
  journal.committedGeneration =
    IF StepSucceeded(plan, events, "state.restore") THEN plan.source.generation ELSE None

validateRestoreBundle(b) ==
  /\ Has(b, "plan") /\ b.plan.planId = canonicalContentId(b.plan, {"planId"})
  /\ Has(b, "manifest") => RestoreManifestBound(b.plan, b.manifest)
  /\ Has(b, "kit") => RestoreKitBound(b.plan, b.kit)
  /\ Has(b, "evidence") =>
       RestoreEvidenceBound(b.plan, b.evidence) /\ EvidenceMatchesRun(b)
  /\ Has(b, "lock") => LockBound("restore", b)
  /\ Has(b, "journal") =>
       /\ JournalBound("restore", b)
       /\ b.journal.inputDigests =
            [releaseLockDigest    |-> b.plan.source.releaseLockDigest,
             backupToolLockDigest |-> b.plan.backupToolLockDigest,
             manifestDigest       |-> b.plan.manifestDigest,
             recoveryKitDigest    |-> b.plan.recoveryKitDigest]
  /\ Has(b, "events") => /\ EventsBound("restore", b)
                         /\ Has(b, "journal") =>
                              validateRestoreCommittedGeneration(b.journal, b.events, b.plan)

\* operation-v2.mjs assertBundleBinding(): the gate in front of every v2 write.
assertBundleBinding(operationKind, b) ==
  /\ Has(b, "plan") => assertPlanValid(operationKind, b.plan)
  /\ IF operationKind = "backup" THEN validateBackupBundle(b) ELSE validateRestoreBundle(b)
=============================================================================
