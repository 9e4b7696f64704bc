---------------------------- MODULE RecoveryKit ----------------------------
(***************************************************************************)
(* The recovery kit of scripts/recovery-kit.mjs: what a kit is assembled   *)
(* from, how it is encrypted to the external recipient, how                *)
(* scripts/target-mutate.mjs publishes it to its one place on the target,  *)
(* and how it is opened again.                                             *)
(*                                                                         *)
(* The caller may hand assembleRecoveryPayload() files of any generation;  *)
(* transport may corrupt what it carries; the disk may damage what it      *)
(* holds.  Encryption (age) is external: the ciphertext is a header, a     *)
(* recipient and the payload, and only that recipient's identity opens it. *)
(***************************************************************************)
EXTENDS BackupFlow

CONSTANTS
  Publisher,        \* invocations that may publish a kit
  Installation,
  Generations,
  ManifestOf,       \* [Generations -> [services, tls, host]]: services.yml as applied
  ReleaseLockOf,    \* [Generations -> release locks]
  ToolLocks, PinnedToolLock,
  Needs,            \* [service -> names of the secrets it needs]
  Stores,           \* what the secrets store may hold: sets of names
  Destinations,     \* sequence of [secretRef, type]
  CredentialStores, \* what the credentials store may hold: functions from refs
  Recipient, Identities, IdentityOf, Garbage

ASSUME KitAssumption ==
  /\ Generations \subseteq Nat \ {0}
  /\ IdentityOf[Recipient] \in Identities
  /\ \A g \in Generations : {"services", "tls"} \subseteq DOMAIN ManifestOf[g]

VARIABLES kitOffer,   \* [Publisher -> the kit on its way to the target]
          kitFile,    \* /var/lib/hof/recovery/recovery-kit.json
          kitDamaged, \* the disk damaged it
          opened      \* what the holder of an identity last got out of it

kitVars == <<kitOffer, kitFile, kitDamaged, opened>>

-----------------------------------------------------------------------------
(* backup-credentials.mjs                                                  *)

REQUIRED_FIELDS_BY_TYPE ==
  [local |-> {"resticPassword"}, s3 |-> {"resticPassword", "accessKeyId", "secretAccessKey"}]

OPTIONAL_FIELDS_BY_TYPE == [local |-> {}, s3 |-> {"sessionToken"}]

\* entry.fields are its non-empty fields: exactly what the type needs and allows.
validateCredentialEntry(entry) ==
  /\ entry.type \in DOMAIN REQUIRED_FIELDS_BY_TYPE
  /\ REQUIRED_FIELDS_BY_TYPE[entry.type] \subseteq entry.fields
  /\ entry.fields \subseteq
       REQUIRED_FIELDS_BY_TYPE[entry.type] \cup OPTIONAL_FIELDS_BY_TYPE[entry.type]

Refs(destinations) == {destinations[i].secretRef : i \in DOMAIN destinations}

\* Mutant: an entry is checked against its own type, not its destination's.
validateBackupCredentialsAnyType(destinations, credentials) ==
  /\ ~hasDuplicates([i \in DOMAIN destinations |-> destinations[i].secretRef])
  /\ DOMAIN credentials = Refs(destinations)
  /\ \A ref \in DOMAIN credentials : validateCredentialEntry(credentials[ref])

validateBackupCredentials(destinations, credentials) ==
  /\ ~hasDuplicates([i \in DOMAIN destinations |-> destinations[i].secretRef])
  /\ DOMAIN credentials = Refs(destinations)
  /\ \A i \in DOMAIN destinations :
       LET entry == credentials[destinations[i].secretRef]
       IN  entry.type = destinations[i].type /\ validateCredentialEntry(entry)

-----------------------------------------------------------------------------
(* recovery-kit.mjs                                                        *)

\* secrets.mjs requiredSecrets()
requiredSecrets(manifest) == UNION {Needs[s] : s \in manifest.services}

\* The target's address and the certificate paths stay out of the kit.
sanitizeManifest(manifest) == Without(manifest, {"host"})

validateClosedRecoveryPayload(payload) ==
  /\ payload.generation \in Nat \ {0}
  /\ \A ref \in DOMAIN payload.destinationCredentials :
       validateCredentialEntry(payload.destinationCredentials[ref])
  /\ \/ payload.applicationSecrets # {}
     \/ payload.suppliedTls # None
     \/ DOMAIN payload.destinationCredentials # {}

\* Mutant: the release lock is not held against the state record's digest.
AssemblyAcceptsAnyLock(state, manifest, releaseLock, toolLock, store, credentials) ==
  /\ Digest(manifest) = state.manifestDigest
  /\ Digest(toolLock) = Digest(PinnedToolLock)
  /\ manifest.tls = "supplied"
  /\ requiredSecrets(manifest) \subseteq store
  /\ validateBackupCredentials(Destinations,
       [ref \in DOMAIN credentials \cap Refs(Destinations) |-> credentials[ref]])

\* The refusals of assembleRecoveryPayload(), in the code's order.
AssemblyAccepts(state, manifest, releaseLock, toolLock, store, credentials) ==
  /\ Digest(manifest) = state.manifestDigest
  /\ Digest(releaseLock) = state.releaseLockDigest
  /\ Digest(toolLock) = Digest(PinnedToolLock)
  /\ manifest.tls = "supplied"
  /\ requiredSecrets(manifest) \subseteq store
  /\ validateBackupCredentials(Destinations,
       [ref \in DOMAIN credentials \cap Refs(Destinations) |-> credentials[ref]])

\* Only the secrets and credentials this deployment uses are embedded.
assembleRecoveryPayload(state, manifest, releaseLock, toolLock, store, credentials) ==
  [installationId         |-> state.installationId,
   generation             |-> state.generation,
   sanitizedManifest      |-> sanitizeManifest(manifest),
   releaseLock            |-> releaseLock,
   backupToolLock         |-> toolLock,
   applicationSecrets     |-> requiredSecrets(manifest),
   suppliedTls            |-> manifest.tls,
   destinationCredentials |->
     [ref \in DOMAIN credentials \cap Refs(Destinations) |-> credentials[ref]]]

computeContentInventory(payload) ==
  (IF payload.applicationSecrets # {} THEN {"application-secrets"} ELSE {})
    \cup (IF payload.suppliedTls # None THEN {"tls-private-keys"} ELSE {})
    \cup (IF DOMAIN payload.destinationCredentials # {}
            THEN {"backup-destination-credentials"} ELSE {})

ageEncrypt(payload, recipient) == <<"age-encryption.org/v1", recipient, payload>>

createRecoveryKit(payload, recipient) ==
  LET ciphertext == ageEncrypt(payload, recipient)
  IN  [installationId          |-> payload.installationId,
       createdForGeneration    |-> payload.generation,
       ageRecipient            |-> recipient,
       ageRecipientFingerprint |-> Digest(recipient),
       contentInventory        |-> computeContentInventory(payload),
       ciphertextDigest        |-> Digest(ciphertext),
       ciphertext              |-> ciphertext]

\* Nothing is decrypted before the kit passes verifyRecoveryKit(), nothing is
\* returned before the plaintext has the payload's closed shape.
Opens(kit, identity) ==
  /\ verifyRecoveryKit(kit)
  /\ identity = IdentityOf[kit.ciphertext[2]]
  /\ kit.ciphertext[3] # Garbage
  /\ validateClosedRecoveryPayload(kit.ciphertext[3])

openRecoveryKit(kit) == kit.ciphertext[3]

-----------------------------------------------------------------------------
KitInit ==
  /\ kitOffer = [p \in Publisher |-> None]
  /\ kitFile = None
  /\ kitDamaged = FALSE
  /\ opened = None

\* /var/lib/hof/state/current.json of a generation
StateRecord(g) ==
  [installationId |-> Installation, generation |-> g,
   manifestDigest |-> Digest(ManifestOf[g]), releaseLockDigest |-> Digest(ReleaseLockOf[g])]

\* assembleRecoveryPayload(), createRecoveryKit(), and the checks at the head of
\* publishRecoveryKit(); the caller picks the files.
OfferKit(p) ==
  /\ kitOffer[p] = None
  /\ \E g, m, l \in Generations, toolLock \in ToolLocks,
        store \in Stores, credentials \in CredentialStores :
       LET state   == StateRecord(g)
           payload == assembleRecoveryPayload(state, ManifestOf[m], ReleaseLockOf[l],
                                              toolLock, store, credentials)
           kit     == createRecoveryKit(payload, Recipient)
       IN  /\ AssemblyAccepts(state, ManifestOf[m], ReleaseLockOf[l],
                              toolLock, store, credentials)
           /\ validateClosedRecoveryPayload(payload)
           /\ verifyRecoveryKit(kit)
           /\ kitOffer' = [kitOffer EXCEPT ![p] = kit]
  /\ UNCHANGED <<kitFile, kitDamaged, opened>>

Corrupted(kit) == [kit EXCEPT !.ciphertext[3] = Garbage]

\* No payload is what a corrupted transfer leaves, no file of a kit is a missing one.
ASSUME MarkerAssumption ==
  \A g, m, l \in Generations, toolLock \in ToolLocks,
     store \in Stores, credentials \in CredentialStores :
    LET payload == assembleRecoveryPayload(StateRecord(g), ManifestOf[m], ReleaseLockOf[l],
                                           toolLock, store, credentials)
    IN  payload # Garbage /\ Corrupted(createRecoveryKit(payload, Recipient)) # None

\* Mutant: the file is linked first and its digest compared afterwards; the
\* script may die in between.
ArrivesIntactUnchecked(received, kit) == TRUE

\* The digest of the received bytes, compared before the file is linked.
ArrivesIntact(received, kit) == Digest(received) = Digest(kit)

\* ln(1) refuses an existing name, whatever the file there holds.
MayLink == kitFile = None

\* publishRecoveryKitScript(), under the lock guard.
publishRecoveryKit(p) ==
  /\ kitOffer[p] # None
  /\ \E received \in {kitOffer[p], Corrupted(kitOffer[p])} :
       kitFile' = IF ArrivesIntact(received, kitOffer[p]) /\ MayLink
                    THEN received ELSE kitFile
  /\ kitOffer' = [kitOffer EXCEPT ![p] = None]
  /\ UNCHANGED <<kitDamaged, opened>>

DamageKit ==
  /\ kitFile # None /\ ~kitDamaged
  /\ kitFile' = Corrupted(kitFile)
  /\ kitDamaged' = TRUE
  /\ UNCHANGED <<kitOffer, opened>>

\* readRecoveryKit(), then openRecoveryKit() with the operator's identity.
OpenKit ==
  /\ kitFile # None
  /\ \E identity \in Identities : Opens(kitFile, identity)
  /\ opened' = openRecoveryKit(kitFile)
  /\ UNCHANGED <<kitOffer, kitFile, kitDamaged>>

KitNext ==
  \/ \E p \in Publisher : OfferKit(p) \/ publishRecoveryKit(p)
  \/ DamageKit
  \/ OpenKit

KitSpec == KitInit /\ [][KitNext]_kitVars

-----------------------------------------------------------------------------
(* Properties.                                                             *)

\* What restic needs to open the repository of a destination.
Usable(entry, destination) ==
  /\ entry.type = destination.type
  /\ "resticPassword" \in entry.fields
  /\ destination.type = "s3" => {"accessKeyId", "secretAccessKey"} \subseteq entry.fields

\* What comes out of a kit is enough to rebuild its generation and no more: the
\* manifest and the release lock that were applied as that generation, every
\* secret its services need, a usable credential for each destination and for
\* nothing else, and no address of the old host (assembleRecoveryPayload()).
OpenedKitRestoresItsGeneration ==
  opened # None =>
    LET manifest == ManifestOf[opened.generation]
    IN  /\ opened.sanitizedManifest.services = manifest.services
        /\ opened.releaseLock = ReleaseLockOf[opened.generation]
        /\ opened.applicationSecrets = UNION {Needs[s] : s \in manifest.services}
        /\ DOMAIN opened.destinationCredentials = Refs(Destinations)
        /\ \A i \in DOMAIN Destinations :
             Usable(opened.destinationCredentials[Destinations[i].secretRef], Destinations[i])
        /\ "host" \notin DOMAIN opened.sanitizedManifest

\* The kit on the target is never one nobody can open: since it is never replaced,
\* a corrupted transfer must not be published (publishRecoveryKitScript()).
PublishedKitCanBeOpened ==
  kitFile # None /\ ~kitDamaged => Opens(kitFile, IdentityOf[Recipient])
=============================================================================
