---------------------------- MODULE BackupReview ----------------------------
(***************************************************************************)
(* A backup or restore before its first write: a plan is proposed, edited, *)
(* and the documents of the operation are put together, possibly from two  *)
(* operations.  The verdicts of scripts/backup-flow.mjs are held against   *)
(* independent definitions: what executing the plan's operations in order  *)
(* would do, and which operation every document came from.                 *)
(*                                                                         *)
(* No planner or runner for backups is part of the repository: the plans   *)
(* and documents proposed here follow schemas/*-v1 and ADR 0006.           *)
(***************************************************************************)
EXTENDS BackupFlow

CONSTANTS
  Kinds,           \* the kinds of operation proposed
  Units, DestinationNames, Volumes, NetworkNames,   \* sequences of names
  Base,            \* the subject of the operation under review
  Others,          \* subjects of other operations, to take documents from
  Subs,            \* keys an edit may put in place of an operation's own
  MaxEdits,
  RunEdits         \* a plan edited more often than this is only reviewed

VARIABLES stage,   \* "review", then "approved"
          kind,    \* "backup" or "restore"
          ops,     \* the operations of the proposed plan
          edits,   \* how often they were edited
          mix      \* which documents are taken from which other operation

reviewVars == <<stage, kind, ops, edits, mix>>

\* A list of names, at least one, none of them twice.
NameList(s) == s \in Seq({s[i] : i \in DOMAIN s}) /\ s # << >> /\ ~hasDuplicates(s)

ASSUME ReviewAssumption ==
  /\ Kinds \subseteq {"backup", "restore"}
  /\ \A names \in {Units, DestinationNames, Volumes, NetworkNames} : NameList(names)
  /\ \A s \in Others \cup {Base} :
       s.outcome \in {"succeeded", "failed", "abandoned"} /\ s.generation # None

-----------------------------------------------------------------------------
(* The flows as ADR 0006 orders them.                                      *)

Step(action, key) == [id |-> <<action, key>>, action |-> action, key |-> key]
Each(action, keys) == [i \in DOMAIN keys |-> Step(action, keys[i])]

CanonicalFlow(k) ==
  IF k = "backup"
    THEN <<Step("maintenance.enter", None)>> \o Each("service.stop", Units)
           \o <<Step("staging.build", None)>>
           \o Each("snapshot.create", DestinationNames)
           \o Each("retention.apply", DestinationNames)
           \o Each("service.start", Units) \o Each("readiness.wait", Units)
           \o <<Step("maintenance.exit", None), Step("evidence.write", None)>>
    ELSE <<Step("runner.install", None), Step("target.verify-clean", None),
           Step("snapshot.verify", None)>>
           \o Each("network.create", NetworkNames)
           \o Each("volume.create", Volumes) \o Each("data.restore", Volumes)
           \o <<Step("manifest.verify", None), Step("database.integrity-check", None),
                Step("checkpoint.data-restored", None), Step("config.restore", None),
                Step("secret.materialize", None), Step("state.restore", None)>>
           \o Each("service.start", Units) \o Each("readiness.wait", Units)
           \o <<Step("evidence.write", None)>>

-----------------------------------------------------------------------------
(* The documents of one operation.  A subject is what it is about: its     *)
(* operation id, installation, generation, policy, sequence, tool lock,    *)
(* release, kit, host and outcome.                                         *)

WithContentId(doc, idField, excluded) ==
  [doc EXCEPT ![idField] = canonicalContentId(doc, excluded)]

PolicyDoc(s) ==
  WithContentId(
    [policyId |-> None, installationId |-> s.installation, destinations |-> DestinationNames,
     retention |-> s.policy, appliedGeneration |-> s.generation,
     appliedManifestDigest |-> Digest(<<s.installation, s.generation>>)],
    "policyId", {"policyId", "appliedGeneration", "appliedManifestDigest"})

BackupIdOf(s) ==
  computeBackupId(s.installation, s.generation, PolicyDoc(s).policyId, s.sequence)

KitDoc(s) ==
  LET ciphertext == <<"age-encryption.org/v1", "age1", s.kit>>
  IN  [installationId |-> s.installation, createdForGeneration |-> s.generation,
       ageRecipient |-> "age1", ageRecipientFingerprint |-> Digest("age1"),
       ciphertext |-> ciphertext, ciphertextDigest |-> Digest(ciphertext)]

ManifestDoc(s) ==
  [backupId |-> BackupIdOf(s), installationId |-> s.installation,
   generation |-> s.generation, release |-> s.release,
   releaseLockDigest |-> Digest(s.release), backupToolLockDigest |-> s.toolLock,
   consistencySet |-> Volumes, recoveryKitDigest |-> canonicalDocumentDigest(KitDoc(s))]

Target(s, installationId, generation) ==
  [host |-> s.host, installationId |-> installationId, baselineGeneration |-> generation]

PlanDoc(k, s, operations) ==
  WithContentId(
    IF k = "backup"
      THEN [planId |-> None, executable |-> TRUE, operations |-> operations,
            target |-> Target(s, s.installation, s.generation),
            installationId |-> s.installation, generation |-> s.generation,
            backupPolicyId |-> PolicyDoc(s).policyId, backupSequence |-> s.sequence,
            backupId |-> BackupIdOf(s), releaseLockDigest |-> Digest(s.release),
            backupToolLockDigest |-> s.toolLock, destinations |-> DestinationNames,
            retention |-> s.policy, consistencySet |-> Volumes]
      ELSE [planId |-> None, executable |-> TRUE, operations |-> operations,
            target |-> Target(s, None, 0),
            source |-> [installationId |-> s.installation, generation |-> s.generation,
                        release |-> s.release, releaseLockDigest |-> Digest(s.release)],
            backupId |-> BackupIdOf(s), snapshotId |-> <<"snapshot", BackupIdOf(s)>>,
            manifestDigest |-> canonicalDocumentDigest(ManifestDoc(s)),
            recoveryKitDigest |-> canonicalDocumentDigest(KitDoc(s)),
            backupToolLockDigest |-> s.toolLock, networks |-> NetworkNames,
            consistencySet |-> Volumes],
    "planId", {"planId"})

\* operation-v2.mjs buildLockDocument()
buildLockDocument(k, operationId, plan) ==
  [operationKind |-> k, operationId |-> operationId,
   approvedPlanId |-> plan.planId, target |-> plan.target]

\* operation-v2.mjs inputDigestsFor(): the closed set of the kind.
inputDigestsFor(k, plan) ==
  IF k = "backup"
    THEN [releaseLockDigest |-> plan.releaseLockDigest,
          backupToolLockDigest |-> plan.backupToolLockDigest,
          backupPolicyId |-> plan.backupPolicyId]
    ELSE [releaseLockDigest |-> plan.source.releaseLockDigest,
          backupToolLockDigest |-> plan.backupToolLockDigest,
          manifestDigest |-> plan.manifestDigest,
          recoveryKitDigest |-> plan.recoveryKitDigest]

\* operation-v2.mjs buildJournalDocument() and, for a later status, withJournalStatus()
buildJournalDocument(k, operationId, plan, status, committedGeneration) ==
  [operationKind |-> k, operationId |-> operationId, approvedPlanId |-> plan.planId,
   target |-> plan.target, plan |-> plan, inputDigests |-> inputDigestsFor(k, plan),
   status |-> status, committedGeneration |-> committedGeneration]

\* operation-v2.mjs buildEvent()
buildEvent(k, operationId, step, phase) ==
  [operationKind |-> k, operationId |-> operationId, step |-> step, phase |-> phase]

\* The events of the steps the validators ask about; an abandoned operation got
\* no further than its first step.
LogOf(k, s) ==
  LET Ok(action) == buildEvent(k, s.operation, <<action, None>>, "succeeded")
  IN  IF s.outcome = "abandoned" THEN << >>
      ELSE <<Ok(IF k = "backup" THEN "maintenance.enter" ELSE "state.restore"),
             Ok("evidence.write")>>

EvidenceDoc(k, s, plan) ==
  LET common == [operationId |-> s.operation, planId |-> plan.planId,
                 backupId |-> plan.backupId, backupToolLockDigest |-> s.toolLock,
                 manifestDigest |-> canonicalDocumentDigest(ManifestDoc(s)),
                 status |-> IF s.outcome = "succeeded" THEN "succeeded" ELSE "failed",
                 abandoned |-> s.outcome = "abandoned"]
      own    == IF k = "backup"
                  THEN [backupPolicyId |-> plan.backupPolicyId, target |-> plan.target,
                        perDestinationResults |-> DestinationNames]
                  ELSE [snapshotId |-> plan.snapshotId, source |-> plan.source,
                        recoveryKitDigest |-> plan.recoveryKitDigest,
                        target |-> Target(s, s.installation, s.generation)]
  IN  [f \in DOMAIN common \cup DOMAIN own |->
         IF f \in DOMAIN common THEN common[f] ELSE own[f]]

DocumentNames(k) ==
  {"plan", "manifest", "kit", "lock", "journal", "events", "evidence"}
    \cup (IF k = "backup" THEN {"policy"} ELSE {})

Document(k, s, operations, name) ==
  LET plan == PlanDoc(k, s, operations)
  IN  CASE name = "policy"   -> PolicyDoc(s)
        [] name = "plan"     -> plan
        [] name = "manifest" -> ManifestDoc(s)
        [] name = "kit"      -> KitDoc(s)
        [] name = "lock"     -> buildLockDocument(k, s.operation, plan)
        [] name = "journal"  ->
             buildJournalDocument(k, s.operation, plan,
               IF s.outcome = "succeeded" THEN "succeeded" ELSE "failed",
               IF k = "restore" /\ s.outcome # "abandoned" THEN s.generation ELSE None)
        [] name = "events"   -> LogOf(k, s)
        [] name = "evidence" -> EvidenceDoc(k, s, plan)

-----------------------------------------------------------------------------
(* The review.                                                             *)

Unmixed == [other |-> Base, docs |-> {}, field |-> << >>]

ReviewInit ==
  /\ stage = "review"
  /\ kind \in Kinds
  /\ ops = CanonicalFlow(kind)
  /\ edits = 0
  /\ mix = Unmixed

RemoveAt(s, i) == [n \in 1..(Len(s) - 1) |-> IF n < i THEN s[n] ELSE s[n + 1]]
InsertAt(s, i, e) ==
  [n \in 1..(Len(s) + 1) |-> IF n < i THEN s[n] ELSE IF n = i THEN e ELSE s[n - 1]]

Edit(newOps) ==
  /\ stage = "review" /\ edits < MaxEdits /\ mix = Unmixed
  /\ ops' = newOps
  /\ edits' = edits + 1
  /\ UNCHANGED <<stage, kind, mix>>

MoveStep == \E i, j \in DOMAIN ops : i # j /\ Edit(InsertAt(RemoveAt(ops, i), j, ops[i]))

DropStep == \E i \in DOMAIN ops : Edit(RemoveAt(ops, i))

\* Repeated under the same id, or under an id of its own; a move takes it elsewhere.
RepeatStep ==
  \E i \in DOMAIN ops : \E id \in {ops[i].id, <<"again", ops[i].id>>} :
    Edit(InsertAt(ops, i + 1, [ops[i] EXCEPT !.id = id]))

RetargetStep ==
  \E i \in DOMAIN ops, key \in Subs :
    ops[i].key \notin {None, key} /\ Edit([ops EXCEPT ![i].key = key])

\* Documents of another operation, or one field of one of its documents.
MixDocuments ==
  /\ stage = "review" /\ edits = 0 /\ mix = Unmixed
  /\ \E other \in Others :
       \/ \E docs \in SUBSET DocumentNames(kind) \ {{}} :
            mix' = [other |-> other, docs |-> docs, field |-> << >>]
       \/ \E name \in DocumentNames(kind) \ {"events"} :
            \E field \in DOMAIN Document(kind, Base, ops, name) :
              mix' = [other |-> other, docs |-> {}, field |-> <<name, field>>]
  /\ UNCHANGED <<stage, kind, ops, edits>>

\* The operator approves the plan by its planId; whether it is valid is up to
\* the writes that follow.
Approve ==
  /\ stage = "review" /\ edits <= RunEdits /\ mix = Unmixed
  /\ stage' = "approved"
  /\ UNCHANGED <<kind, ops, edits, mix>>

ReviewNext ==
  MoveStep \/ DropStep \/ RepeatStep \/ RetargetStep \/ MixDocuments \/ Approve

ReviewedBundle ==
  [name \in DocumentNames(kind) |->
     LET mine   == Document(kind, Base, ops, name)
         theirs == Document(kind, mix.other, ops, name)
     IN  IF name \in mix.docs THEN theirs
         ELSE IF mix.field # << >> /\ name = mix.field[1]
           THEN [mine EXCEPT ![mix.field[2]] = theirs[mix.field[2]]]
           ELSE mine]

-----------------------------------------------------------------------------
(* What executing the operations in order does to the target.              *)

\* The actions, with their keys, done by the first n operations.
Done(n) == {<<ops[i].action, ops[i].key>> : i \in 1..n}
Did(n, action) == \E i \in 1..n : ops[i].action = action
KeysDone(n, action) == {ops[i].key : i \in {j \in 1..n : ops[j].action = action}}

Members(seq) == {seq[i] : i \in DOMAIN seq}
StoppedUnits == KeysDone(Len(ops), "service.stop")

\* Whether operation n may run after those before it.  A snapshot is taken of a
\* staging area built while every unit the plan stops is down; nothing starts
\* again before all destinations are served; maintenance ends with every unit
\* restarted, and units are asked for readiness once there are such units.
BackupStepSafe(n) ==
  LET a == ops[n].action
      k == ops[n].key
      m == n - 1
  IN  /\ a = "maintenance.enter" <=> m = 0
      /\ a # "readiness.wait" => <<a, k>> \notin Done(m)
      /\ ~Did(m, "evidence.write")
      /\ a \in {"service.stop", "staging.build"} => ~Did(m, "staging.build")
      /\ a = "staging.build" => KeysDone(m, "service.stop") = StoppedUnits
      /\ a = "snapshot.create" => Did(m, "staging.build") /\ k \in Members(DestinationNames)
      /\ a = "retention.apply" => k \in KeysDone(m, "snapshot.create")
      /\ a = "service.start" =>
           /\ k \in KeysDone(m, "service.stop")
           /\ KeysDone(m, "retention.apply") = Members(DestinationNames)
           /\ ~Did(m, "readiness.wait")
      /\ a = "readiness.wait" => /\ Did(m, "service.start")
                                 /\ KeysDone(m, "service.start") = StoppedUnits
                                 /\ ~Did(m, "maintenance.exit")
      /\ a = "maintenance.exit" => Did(m, "readiness.wait") /\ ~Did(m, "maintenance.exit")
      /\ a = "evidence.write" => Did(m, "maintenance.exit")

\* A target is touched only after it was found clean and the snapshot genuine;
\* nothing depends on data before it is restored and verified; services start on
\* a complete installation.
RestoreStepSafe(n) ==
  LET a == ops[n].action
      k == ops[n].key
      m == n - 1
      Restored == KeysDone(m, "data.restore") = Members(Volumes)
  IN  /\ a = "runner.install" <=> m = 0
      /\ a # "readiness.wait" => <<a, k>> \notin Done(m)
      /\ ~Did(m, "evidence.write")
      /\ a = "snapshot.verify" => Did(m, "target.verify-clean")
      /\ a = "network.create" => /\ Did(m, "snapshot.verify") /\ ~Did(m, "volume.create")
                                 /\ k \in Members(NetworkNames)
      /\ a = "volume.create" => /\ KeysDone(m, "network.create") = Members(NetworkNames)
                                /\ k \in Members(Volumes)
      /\ a = "data.restore" => k \in KeysDone(m, "volume.create")
      /\ a \in {"manifest.verify", "database.integrity-check"} => Restored
      /\ a = "checkpoint.data-restored" =>
           Did(m, "manifest.verify") /\ Did(m, "database.integrity-check")
      /\ a \in {"config.restore", "secret.materialize", "state.restore"} =>
           Did(m, "checkpoint.data-restored")
      /\ a = "service.start" =>
           /\ \A b \in {"config.restore", "secret.materialize", "state.restore"} : Did(m, b)
           /\ ~Did(m, "readiness.wait")
      /\ a = "readiness.wait" => Did(m, "service.start")
      /\ a = "evidence.write" => Did(m, "readiness.wait")

ExecutionSafe ==
  /\ \A i, j \in DOMAIN ops : i # j => ops[i].id # ops[j].id
  /\ \A n \in DOMAIN ops : IF kind = "backup" THEN BackupStepSafe(n) ELSE RestoreStepSafe(n)
  /\ Did(Len(ops), "evidence.write")

-----------------------------------------------------------------------------
(* Where the documents of a bundle come from.                              *)

\* What the bindings cover of a document.  Three things are bound by nothing: the
\* policy's appliedManifestDigest, which installation restore evidence names for its
\* target, and that evidence denies an abandonment (to claim one is bound to the log).
Covered(name, doc) ==
  CASE name = "policy" -> Without(doc, {"appliedManifestDigest"})
    [] name = "evidence" /\ kind = "backup" -> Without(doc, {"abandoned"})
    [] name = "evidence" /\ kind = "restore" ->
         [Without(doc, {"abandoned"}) EXCEPT
            !.target = Without(@, {"installationId", "baselineGeneration"})]
    [] OTHER -> doc

OfOneOperation ==
  \E s \in {Base, mix.other} : \A name \in DocumentNames(kind) \ {"events"} :
    Covered(name, ReviewedBundle[name]) = Covered(name, Document(kind, s, ops, name))

\* The log is the journal's, and does not contradict what was concluded from it.
LogAgrees ==
  LET b             == ReviewedBundle
      Names(action) == \E n \in DOMAIN b.events : b.events[n].step[1] = action
  IN  /\ \A n \in DOMAIN b.events : b.events[n].operationId = b.journal.operationId
      /\ b.evidence.abandoned => ~Names("evidence.write")
      /\ kind = "restore" =>
           (Names("state.restore") <=> b.journal.committedGeneration # None)

-----------------------------------------------------------------------------
(* Properties.                                                             *)

\* validateBackupPlanOperations() and validateRestorePlanOperations() accept
\* exactly the plans whose operations, run in order, are safe at every step and
\* bring the flow to its end.
PlanVerdictMatchesExecution ==
  stage = "review" /\ mix = Unmixed =>
    (assertPlanValid(kind, PlanDoc(kind, Base, ops)) <=> ExecutionSafe)

\* A complete bundle is accepted exactly when all of its documents are those of
\* one operation (validateBackupBundle(), validateRestoreBundle()).
BundleVerdictMatchesProvenance ==
  stage = "review" /\ edits = 0 =>
    (assertBundleBinding(kind, ReviewedBundle) <=> OfOneOperation /\ LogAgrees)
=============================================================================
