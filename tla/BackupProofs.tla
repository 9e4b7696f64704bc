---------------------------- MODULE BackupProofs ----------------------------
(***************************************************************************)
(* Proofs about backup and restore operations.                             *)
(*                                                                         *)
(* BackupReview, for any lists of units, destinations, volumes and         *)
(* networks, any edits of a plan and any two operations: a plan is         *)
(* accepted exactly when carrying it out is safe, a bundle exactly when    *)
(* its documents are those of one operation.                               *)
(*                                                                         *)
(* OperationV2, for any operations, plans, leases, calls in flight and     *)
(* hand edits of the persisted journal: a finished operation is frozen,    *)
(* events follow the approved plan, the lock names a journal, and a        *)
(* restore says that it committed a generation exactly when it did.        *)
(*                                                                         *)
(* RecoveryKit, for any number of publishers, generations, secrets and     *)
(* destinations, with corrupted transfers and a damaged disk: the first    *)
(* kit stays, it can be opened as long as the disk is sound, and whatever  *)
(* is ever read from it rebuilds the generation it names.                  *)
(***************************************************************************)
EXTENDS OperationV2, RecoveryKit, FiniteSetTheorems, TLAPS

-----------------------------------------------------------------------------
(* Invariants.                                                             *)

\* What a call in flight is known to say, whoever sent it.
CallTyped(call) ==
  /\ call.token \in 1..lease
  /\ call.op \in Op
  /\ call.does \in {"create", "status", "event"}
  /\ call.does = "create" => call.lockOp = call.op
  /\ call.does # "create" => call.seen \in Journals({"in-progress"})
  /\ call.does = "status" => call.next \in Journals(Terminal)
  /\ call.does = "event" =>
       call.event \in EventRecords /\ \E i \in DOMAIN ops : call.event.step = ops[i].id

\* The status to be written is right about the log.
Right(call) == call.next.committedGeneration # None <=> Restored(events[call.op])

\* A status call stays right as long as its holder has the lease, no second call, and
\* brought the log it concluded from.
CallOK(call) ==
  /\ CallTyped(call)
  /\ call.does = "status" /\ ~careless /\ call.token = lease => Right(call)

CallsOK == DOMAIN calls = Call /\ \A c \in Call : calls[c] # None => CallOK(calls[c])

\* Holders that never ran two calls at once have one call in flight each.
OneCallEach ==
  ~careless => \A c, d \in Call :
    calls[c] # None /\ calls[d] # None /\ calls[c].token = calls[d].token => c = d

\* Nothing is on the target or on its way before the approval.
NothingBeforeApproval ==
  stage # "approved" =>
    /\ \A o \in Op : journal[o] = None /\ events[o] = << >>
    /\ \A c \in Call : calls[c] = None

OpInv ==
  /\ OpTypeOK
  /\ CallsOK
  /\ OneCallEach
  /\ NothingBeforeApproval
  /\ EventsFollowApprovedPlan
  /\ CommittedGenerationIsHonest
  /\ LockNamesItsJournal

-----------------------------------------------------------------------------
(* What the binding in front of the writes says.                           *)

\* The fields of a plan that the proofs ask about; its id is that of its content.
LEMMA ApprovedPlanFields ==
  /\ ApprovedPlan.operations = ops
  /\ {"planId", "operations"} \subseteq DOMAIN ApprovedPlan
  /\ ApprovedPlan.planId = canonicalContentId(ApprovedPlan, {"planId"})
  /\ kind # "backup" => ApprovedPlan.source.generation = Base.generation
  BY DEF ApprovedPlan, PlanDoc, WithContentId, canonicalContentId, Digest, Without

\* A persisted plan that carries its own id has the approved operations: an
\* altered one keeps the approved id, and ids are injective.
LEMMA TrustedPlanIsApproved ==
  ASSUME NEW j, PersistedPlan(j).planId = canonicalContentId(PersistedPlan(j), {"planId"})
  PROVE  /\ PersistedPlan(j).operations = ops
         /\ kind # "backup" => PersistedPlan(j).source.generation = Base.generation
<1> DEFINE a == ApprovedPlan
           p == PersistedPlan(j)
<1>0. /\ a.operations = ops /\ {"planId", "operations"} \subseteq DOMAIN a
      /\ a.planId = canonicalContentId(a, {"planId"})
      /\ kind # "backup" => a.source.generation = Base.generation
  BY ApprovedPlanFields
<1>1. CASE j.plan = "approved"
  BY <1>0, <1>1 DEF PersistedPlan
<1>2. CASE j.plan # "approved"
  <2>1. p = [a EXCEPT !.operations[2].id = Bogus]
    BY <1>2 DEF PersistedPlan
  <2> HIDE DEF a
  <2>2. p.planId = a.planId /\ DOMAIN p = DOMAIN a /\ p.source = a.source
    BY <1>0, <2>1
  <2> HIDE DEF p
  <2>3. Without(p, {"planId"}) = Without(a, {"planId"})
    BY <1>0, <2>2 DEF p, canonicalContentId, Digest
  <2>4. p["operations"] = a["operations"]
    BY <1>0, <2>2, <2>3 DEF Without
  <2> QED
    BY <1>0, <2>2, <2>4 DEF p
<1> QED
  BY <1>1, <1>2

\* assertBundleBinding() recomputes the planId, whichever kind it is asked about.
LEMMA BindingRecomputesId ==
  ASSUME NEW b, assertBundleBinding(kind, b)
  PROVE  b.plan.planId = canonicalContentId(b.plan, {"planId"})
  BY DEF assertBundleBinding, validateBackupBundle, validateRestoreBundle, BackupPlanIds

\* Lock and journal that pass the binding are of one operation.
LEMMA BoundLockNamesJournal ==
  ASSUME NEW lockOp, NEW o,
         assertBundleBinding(kind,
           [plan |-> buildJournalDocument(kind, o, ApprovedPlan, "in-progress", None).plan,
            lock |-> buildLockDocument(kind, lockOp, ApprovedPlan),
            journal |-> buildJournalDocument(kind, o, ApprovedPlan, "in-progress", None)])
  PROVE  lockOp = o
<1> DEFINE journalDoc == buildJournalDocument(kind, o, ApprovedPlan, "in-progress", None)
           lockDoc == buildLockDocument(kind, lockOp, ApprovedPlan)
           b == [plan |-> journalDoc.plan, lock |-> lockDoc, journal |-> journalDoc]
<1>1. Has(b, "lock") /\ Has(b, "journal")
  BY DEF Has
<1>2. b.lock.operationId = lockOp /\ b.journal.operationId = o
  BY DEF buildLockDocument, buildJournalDocument
<1>3. assertBundleBinding(kind, b)
  OBVIOUS
<1> HIDE DEF b
<1>4. \E k : JournalBound(k, b)
  BY <1>1, <1>3 DEF assertBundleBinding, validateBackupBundle, validateRestoreBundle
<1> QED
  BY <1>1, <1>2, <1>4 DEF JournalBound

\* A terminal status that passes the binding is right about the log it was bound to.
LEMMA BoundStatusIsHonest ==
  ASSUME NEW o, NEW j, NEW log, kind = "backup" => j.committedGeneration = None,
         assertBundleBinding(kind,
           [plan |-> PersistedPlan(j), journal |-> JournalDoc(o, j), events |-> log])
  PROVE  j.committedGeneration # None <=> Restored(log)
<1> DEFINE b == [plan |-> PersistedPlan(j), journal |-> JournalDoc(o, j), events |-> log]
<1>1. /\ Has(b, "journal") /\ Has(b, "events") /\ b.plan = PersistedPlan(j) /\ b.events = log
      /\ b.journal.committedGeneration = j.committedGeneration /\ b.journal.operationKind = kind
  BY DEF Has, JournalDoc, buildJournalDocument
<1>2. assertBundleBinding(kind, b)
  OBVIOUS
<1> HIDE DEF b
<1>3. /\ PersistedPlan(j).operations = ops
      /\ kind # "backup" => PersistedPlan(j).source.generation = Base.generation
  BY <1>1, <1>2, BindingRecomputesId, TrustedPlanIsApproved
<1>4. CASE kind = "backup"
  BY <1>4 DEF Restored
<1>5. CASE kind # "backup"
  <2>1. JournalBound("restore", b) /\ validateRestoreCommittedGeneration(b.journal, log, b.plan)
    BY <1>1, <1>2, <1>5 DEF assertBundleBinding, validateRestoreBundle
  <2>2. kind = "restore"
    BY <1>1, <2>1 DEF JournalBound
  <2>3. StepSucceeded(b.plan, log, "state.restore") <=> Restored(log)
    BY <1>1, <1>3, <2>2 DEF StepSucceeded, indicesOfAction, Restored
  <2> QED
    BY <1>1, <1>3, <1>5, <2>1, <2>3, OpAssumption DEF validateRestoreCommittedGeneration
<1> QED
  BY <1>4, <1>5

-----------------------------------------------------------------------------
(* The caller's side.                                                      *)

\* Whatever is sent, the target stays as it is, and a call in flight stays right; a
\* status call is right itself unless it was sent blindly.
LEMMA StartStep ==
  ASSUME OpInv, stage = "approved", UNCHANGED reviewVars, NEW c \in Call, NEW call,
         NEW blind \in BOOLEAN, assertLeaseHealthy(c), Start(c, call, blind),
         CallTyped(call), call.token = lease, call.does = "status" => blind \/ Right(call)
  PROVE  OpInv'
<1> USE DEF Start, assertLeaseHealthy
<1>0. UNCHANGED <<stage, kind, ops, lease, lock, journal, events, tampers>>
  BY DEF reviewVars
<1>1. UNCHANGED EventRecords
  BY <1>0 DEF EventRecords, EventSteps
<1>2. \A log : Restored(log)' = Restored(log)
  BY <1>0 DEF Restored
<1>3. calls' = [calls EXCEPT ![c] = call] /\ (careless \/ blind => careless')
  OBVIOUS
<1>4. CallsOK'
  BY <1>0, <1>1, <1>2, <1>3 DEF OpInv, CallsOK, CallOK, CallTyped, Right
<1>5. OpTypeOK'
  BY <1>0, <1>1, <1>3, <1>4 DEF OpInv, OpTypeOK, CallsOK, CallOK, CallTyped
<1>6. OneCallEach'
  <2>1. ASSUME ~careless'
        PROVE  ~careless /\ \A d \in Call : calls[d] # None => calls[d].token # call.token
    BY <2>1
  <2>2. \A d \in Call : d # c => calls'[d] = calls[d]
    BY <1>3 DEF OpInv, CallsOK
  <2>3. calls'[c] = call
    BY <1>3 DEF OpInv, CallsOK
  <2> HIDE DEF Start, assertLeaseHealthy
  <2> QED
    BY <2>1, <2>2, <2>3 DEF OpInv, OneCallEach
<1>7. NothingBeforeApproval' /\ EventsFollowApprovedPlan' /\ LockNamesItsJournal'
  BY <1>0 DEF OpInv, NothingBeforeApproval, EventsFollowApprovedPlan, LockNamesItsJournal
<1>8. CommittedGenerationIsHonest'
  BY <1>0, <1>2, <1>3 DEF OpInv, CommittedGenerationIsHonest
<1> QED
  BY <1>4, <1>5, <1>6, <1>7, <1>8 DEF OpInv

\* writeLockAndJournal(): what is sent names one operation twice.
LEMMA CreateStep ==
  ASSUME OpInv, stage = "approved", UNCHANGED reviewVars, NEW c \in Call, writeLockAndJournal(c)
  PROVE  OpInv'
<1>1. PICK lockOp \in Op, o \in Op :
        /\ assertBundleBinding(kind,
             [plan |-> buildJournalDocument(kind, o, ApprovedPlan, "in-progress", None).plan,
              lock |-> buildLockDocument(kind, lockOp, ApprovedPlan),
              journal |-> buildJournalDocument(kind, o, ApprovedPlan, "in-progress", None)])
        /\ Start(c, [does |-> "create", token |-> lease, op |-> o, lockOp |-> lockOp], FALSE)
  BY DEF writeLockAndJournal
<1> DEFINE call == [does |-> "create", token |-> lease, op |-> o, lockOp |-> lockOp]
<1>2. lockOp = o
  BY <1>1, BoundLockNamesJournal
<1>3. assertLeaseHealthy(c) /\ lease \in 1..lease
  BY OpAssumption DEF writeLockAndJournal, assertLeaseHealthy, OpInv, OpTypeOK
<1>4. CallTyped(call) /\ call.token = lease /\ call.does # "status"
  BY <1>2, <1>3 DEF CallTyped
<1> HIDE DEF call
<1> QED
  BY <1>1, <1>3, <1>4, StartStep DEF call

\* writeJournalStatus(): what is sent is right about the log, if the caller brought it.
LEMMA StatusStep ==
  ASSUME OpInv, stage = "approved", UNCHANGED reviewVars, NEW c \in Call, writeJournalStatus(c)
  PROVE  OpInv'
<1> DEFINE Candidate(o, status, committed) ==
             [journal[o] EXCEPT !.status = status, !.committedGeneration = committed]
           Sent(o, next) == [does |-> "status", token |-> lease, op |-> o,
                             seen |-> journal[o], next |-> next]
<1>1. PICK o \in Op, status \in Terminal, committed \in {None, Base.generation} :
        /\ journal[o] # None /\ MayTransition(journal[o])
        /\ kind = "backup" => committed = None
        /\ \/ /\ assertBundleBinding(kind,
                    [plan |-> PersistedPlan(Candidate(o, status, committed)),
                     journal |-> JournalDoc(o, Candidate(o, status, committed)),
                     events |-> events[o]])
              /\ Start(c, Sent(o, Candidate(o, status, committed)), FALSE)
           \/ Start(c, Sent(o, Candidate(o, status, committed)), TRUE)
  BY ZenonT(60) DEF writeJournalStatus
<1> DEFINE next == Candidate(o, status, committed)
<1>2. /\ journal[o] \in Journals({"in-progress"})
      /\ next \in Journals(Terminal) /\ next.committedGeneration = committed
  <2>1. journal[o] \in Journals(Terminal \cup {"in-progress"}) /\ journal[o].status \notin Terminal
    BY <1>1 DEF OpInv, OpTypeOK, MayTransition
  <2>2. status \in Terminal /\ committed \in {None, Base.generation}
    OBVIOUS
  <2> QED
    BY <2>1, <2>2 DEF Journals
<1>3. assertLeaseHealthy(c) /\ lease \in 1..lease
  BY OpAssumption DEF writeJournalStatus, assertLeaseHealthy, OpInv, OpTypeOK
<1>4. PICK blind \in BOOLEAN :
        /\ Start(c, Sent(o, next), blind)
        /\ ~blind => assertBundleBinding(kind, [plan |-> PersistedPlan(next),
                                                journal |-> JournalDoc(o, next),
                                                events |-> events[o]])
  BY <1>1
<1> HIDE DEF next
<1>5. blind \/ (next.committedGeneration # None <=> Restored(events[o]))
  BY <1>1, <1>2, <1>4, BoundStatusIsHonest
<1>6. /\ CallTyped(Sent(o, next)) /\ Sent(o, next).token = lease
      /\ blind \/ Right(Sent(o, next))
  BY <1>2, <1>3, <1>5 DEF CallTyped, Right
<1> HIDE DEF Sent
<1> QED
  BY <1>3, <1>4, <1>6, StartStep

\* writeEvent(): the step was found in a plan that still has its id.
LEMMA EventStep ==
  ASSUME OpInv, stage = "approved", UNCHANGED reviewVars, NEW c \in Call, writeEvent(c)
  PROVE  OpInv'
<1> DEFINE Sent(o, event) == [does |-> "event", token |-> lease, op |-> o,
                              seen |-> journal[o], event |-> event]
<1>1. PICK o \in Op, step \in EventSteps, phase \in {"failed", "succeeded"} :
        /\ journal[o] # None /\ journal[o].status = "in-progress"
        /\ PersistedJournalTrusted(o, journal[o])
        /\ \E i \in DOMAIN ops : PersistedPlan(journal[o]).operations[i].id = step
        /\ Start(c, Sent(o, buildEvent(kind, o, step, phase)), FALSE)
  BY DEF writeEvent
<1> DEFINE event == buildEvent(kind, o, step, phase)
<1>2. journal[o] \in Journals({"in-progress"})
  BY <1>1 DEF OpInv, OpTypeOK, Journals
<1>3. PersistedPlan(journal[o]).operations = ops
  <2> DEFINE b == [plan |-> PersistedPlan(journal[o]), journal |-> JournalDoc(o, journal[o])]
  <2>1. assertBundleBinding(kind, b) /\ b.plan = PersistedPlan(journal[o])
    BY <1>1 DEF PersistedJournalTrusted
  <2> HIDE DEF b
  <2> QED
    BY <2>1, BindingRecomputesId, TrustedPlanIsApproved
<1>4. event \in EventRecords /\ \E i \in DOMAIN ops : event.step = ops[i].id
  BY <1>1, <1>3 DEF buildEvent, EventRecords
<1>5. assertLeaseHealthy(c) /\ lease \in 1..lease
  BY OpAssumption DEF writeEvent, assertLeaseHealthy, OpInv, OpTypeOK
<1>6. Start(c, Sent(o, event), FALSE)
  BY <1>1
<1> HIDE DEF event
<1>7. /\ CallTyped(Sent(o, event)) /\ Sent(o, event).token = lease
      /\ Sent(o, event).does # "status"
  BY <1>2, <1>4, <1>5 DEF CallTyped
<1> HIDE DEF Sent
<1> QED
  BY <1>5, <1>6, <1>7, StartStep

-----------------------------------------------------------------------------
(* The target's side.                                                      *)

\* Answering one call leaves the others as right as they were: only the holder's
\* own call changes a log, and another call of its would have been careless.
LEMMA FinishStep ==
  ASSUME OpInv, UNCHANGED <<reviewVars, lease, careless>>, NEW c \in Call, calls[c] # None, Finish(c),
         \A o \in Op : events'[o] = events[o] \/ Fenced(calls[c])
  PROVE  CallsOK' /\ OneCallEach'
<1>0. UNCHANGED <<kind, ops, lease, careless>>
  BY DEF reviewVars
<1>1. UNCHANGED EventRecords
  BY <1>0 DEF EventRecords, EventSteps
<1>2. \A log : Restored(log)' = Restored(log)
  BY <1>0 DEF Restored
<1>3. DOMAIN calls' = Call /\ \A d \in Call : calls'[d] = IF d = c THEN None ELSE calls[d]
  BY DEF Finish, OpInv, CallsOK
<1>4. OneCallEach'
  BY <1>0, <1>3 DEF OpInv, OneCallEach
<1>5. ASSUME NEW d \in Call, calls'[d] # None
      PROVE  CallOK(calls[d])'
  <2>1. d # c /\ calls'[d] = calls[d] /\ CallOK(calls[d])
    BY <1>3, <1>5 DEF OpInv, CallsOK
  <2>2. ~careless /\ calls[d].token = lease => events'[calls[d].op] = events[calls[d].op]
    <3>1. calls[d].op \in Op /\ calls[d] # None
      BY <1>5, <2>1 DEF CallOK, CallTyped
    <3>2. ~careless => calls[d].token # calls[c].token
      BY <2>1, <3>1 DEF OpInv, OneCallEach
    <3> QED
      BY <3>1, <3>2 DEF Fenced
  <2> QED
    BY <1>0, <1>1, <1>2, <2>1, <2>2 DEF CallOK, CallTyped, Right
<1> QED
  BY <1>3, <1>4, <1>5 DEF CallsOK

\* What an action that touches neither log nor review keeps.
LEMMA LogsKept ==
  ASSUME OpInv, UNCHANGED <<reviewVars, events>>
  PROVE  /\ EventsFollowApprovedPlan' /\ UNCHANGED EventRecords
         /\ \A log : Restored(log)' = Restored(log)
         /\ UNCHANGED <<stage, kind, ops>>
  BY DEF OpInv, EventsFollowApprovedPlan, reviewVars, EventRecords, EventSteps, Restored

\* acquireLockAndJournal(): a lock never without its journal.
LEMMA AcquireStep ==
  ASSUME OpInv, stage = "approved", UNCHANGED reviewVars, NEW c \in Call, acquireLockAndJournal(c)
  PROVE  OpInv'
<1>1. /\ calls[c] # None /\ calls[c].does = "create" /\ Finish(c)
      /\ UNCHANGED <<lease, events, careless, tampers>>
  BY DEF acquireLockAndJournal
<1>2. calls[c].op \in Op /\ calls[c].lockOp = calls[c].op
  BY <1>1 DEF OpInv, CallsOK, CallOK, CallTyped, Right
<1>3. CallsOK' /\ OneCallEach'
  BY <1>1, FinishStep
<1>4. /\ EventsFollowApprovedPlan' /\ UNCHANGED <<EventRecords, stage, kind, ops>>
      /\ \A log : Restored(log)' = Restored(log)
  BY <1>1, LogsKept
<1>5. \/ UNCHANGED <<journal, lock>>
      \/ /\ journal[calls[c].op] = None
         /\ lock' \in {lock, calls[c].op}
         /\ journal' = [journal EXCEPT ![calls[c].op] = NewJournal]
  BY <1>2 DEF acquireLockAndJournal
<1>6. NewJournal \in Journals({"in-progress"}) /\ NewJournal # None
  BY OpAssumption DEF NewJournal, Journals
<1>7. /\ journal' \in [Op -> Journals(Terminal \cup {"in-progress"}) \cup {None}]
      /\ lock' \in Op \cup {None}
      /\ \A o \in Op : journal'[o] = journal[o] \/ journal'[o] = NewJournal
  BY <1>2, <1>5, <1>6 DEF OpInv, OpTypeOK, Journals
<1>8. OpTypeOK'
  BY <1>1, <1>3, <1>4, <1>7 DEF OpInv, OpTypeOK, CallsOK, CallOK, CallTyped
<1>9. LockNamesItsJournal'
  BY <1>2, <1>5, <1>6 DEF OpInv, OpTypeOK, LockNamesItsJournal
<1>10. CommittedGenerationIsHonest'
  BY <1>1, <1>4, <1>6, <1>7 DEF OpInv, CommittedGenerationIsHonest, NewJournal, Terminal
<1> QED
  BY <1>3, <1>4, <1>8, <1>9, <1>10 DEF OpInv, NothingBeforeApproval

\* updateJournalStatus(): the terminal status is that of a call whose holder still
\* has the lease, so it is right about the log as it is now.
LEMMA UpdateStep ==
  ASSUME OpInv, stage = "approved", UNCHANGED reviewVars, NEW c \in Call, updateJournalStatus(c)
  PROVE  OpInv'
<1> DEFINE call == calls[c]
<1>1. /\ call # None /\ call.does = "status" /\ Finish(c)
      /\ UNCHANGED <<lease, lock, events, careless, tampers>>
      /\ journal' = IF Fenced(call) /\ UnchangedSinceRead(call)
                      THEN [journal EXCEPT ![call.op] = call.next] ELSE journal
  BY DEF updateJournalStatus
<1>2. /\ call.op \in Op /\ call.next \in Journals(Terminal)
      /\ ~careless /\ call.token = lease =>
           (call.next.committedGeneration # None <=> Restored(events[call.op]))
  BY <1>1 DEF OpInv, CallsOK, CallOK, CallTyped, Right
<1>3. CallsOK' /\ OneCallEach'
  BY <1>1, FinishStep
<1>4. /\ EventsFollowApprovedPlan' /\ UNCHANGED <<EventRecords, stage, kind, ops>>
      /\ \A log : Restored(log)' = Restored(log)
  BY <1>1, LogsKept
<1> HIDE DEF call
<1>5. call.next # None /\ call.next \in Journals(Terminal \cup {"in-progress"})
  BY <1>2, OpAssumption DEF Journals
<1>6. /\ journal' \in [Op -> Journals(Terminal \cup {"in-progress"}) \cup {None}]
      /\ \A o \in Op : journal'[o] = journal[o] \/ (o = call.op /\ call.token = lease
                                                     /\ journal'[o] = call.next)
  BY <1>1, <1>2, <1>5 DEF OpInv, OpTypeOK, Fenced
<1>7. OpTypeOK'
  BY <1>1, <1>3, <1>4, <1>6 DEF OpInv, OpTypeOK, CallsOK, CallOK, CallTyped
<1>8. LockNamesItsJournal'
  BY <1>1, <1>5, <1>6 DEF OpInv, LockNamesItsJournal
<1>9. CommittedGenerationIsHonest'
  BY <1>1, <1>2, <1>4, <1>6 DEF OpInv, CommittedGenerationIsHonest
<1> QED
  BY <1>3, <1>4, <1>7, <1>8, <1>9 DEF OpInv, NothingBeforeApproval

\* appendEvent(): only to the log of an operation that is still in progress.
LEMMA AppendStep ==
  ASSUME OpInv, stage = "approved", UNCHANGED reviewVars, NEW c \in Call, appendEvent(c)
  PROVE  OpInv'
<1> DEFINE call == calls[c]
<1>1. /\ call # None /\ call.does = "event" /\ Finish(c)
      /\ UNCHANGED <<lease, lock, journal, careless, tampers>>
      /\ events' = IF Fenced(call) /\ UnchangedSinceRead(call)
                     THEN [events EXCEPT ![call.op] = Append(@, call.event)] ELSE events
  BY DEF appendEvent
<1>2. /\ call.op \in Op /\ call.event \in EventRecords /\ call.seen \in Journals({"in-progress"})
      /\ \E i \in DOMAIN ops : call.event.step = ops[i].id
  BY <1>1 DEF OpInv, CallsOK, CallOK, CallTyped, Right
<1>3. UNCHANGED <<stage, kind, ops, EventRecords>> /\ \A log : Restored(log)' = Restored(log)
  BY DEF reviewVars, EventRecords, EventSteps, Restored
<1>4. events \in [Op -> Seq(EventRecords)]
  BY DEF OpInv, OpTypeOK
<1>5. \A o \in Op : events'[o] = events[o] \/ Fenced(call)
  BY <1>1
<1>6. CallsOK' /\ OneCallEach'
  BY <1>1, <1>5, FinishStep
<1> HIDE DEF call
<1>7. events' \in [Op -> Seq(EventRecords)]
  BY <1>1, <1>2, <1>4
<1>8. \A o \in Op :
        \/ events'[o] = events[o]
        \/ /\ events'[o] = Append(events[o], call.event) /\ o = call.op
           /\ journal[o] = call.seen
  BY <1>1, <1>2, <1>4 DEF UnchangedSinceRead
<1>9. OpTypeOK'
  BY <1>1, <1>3, <1>6, <1>7 DEF OpInv, OpTypeOK, CallsOK, CallOK, CallTyped
<1>10. EventsFollowApprovedPlan'
  <2>1. ASSUME NEW o \in Op, NEW n \in DOMAIN events'[o]
        PROVE  \E i \in DOMAIN ops : events'[o][n].step = ops[i].id
    <3>1. CASE events'[o] = events[o]
      BY <3>1 DEF OpInv, EventsFollowApprovedPlan
    <3>2. CASE events'[o] = Append(events[o], call.event)
      <4>1. \/ n \in DOMAIN events[o] /\ events'[o][n] = events[o][n]
            \/ events'[o][n] = call.event
        BY <1>4, <3>2
      <4> QED
        BY <1>2, <4>1 DEF OpInv, EventsFollowApprovedPlan
    <3> QED
      BY <1>8, <3>1, <3>2
  <2> QED
    BY <1>3, <2>1 DEF EventsFollowApprovedPlan
<1>11. CommittedGenerationIsHonest'
  <2>1. \A o \in Op : journal[o] # None /\ journal[o].status \in Terminal => events'[o] = events[o]
    BY <1>2, <1>8 DEF Journals, Terminal
  <2> QED
    BY <1>1, <1>3, <2>1 DEF OpInv, CommittedGenerationIsHonest
<1> QED
  BY <1>1, <1>3, <1>6, <1>9, <1>10, <1>11 DEF OpInv, NothingBeforeApproval, LockNamesItsJournal

\* LoseCall(): nothing happened.
LEMMA LoseStep ==
  ASSUME OpInv, stage = "approved", UNCHANGED reviewVars, NEW c \in Call, LoseCall(c)
  PROVE  OpInv'
<1>1. /\ calls[c] # None /\ Finish(c)
      /\ UNCHANGED <<lease, lock, journal, events, careless, tampers>>
  BY DEF LoseCall
<1>2. CallsOK' /\ OneCallEach'
  BY <1>1, FinishStep
<1>3. /\ EventsFollowApprovedPlan' /\ UNCHANGED <<EventRecords, stage, kind, ops>>
      /\ \A log : Restored(log)' = Restored(log)
  BY <1>1, LogsKept
<1>4. OpTypeOK'
  BY <1>1, <1>2, <1>3 DEF OpInv, OpTypeOK, CallsOK, CallOK, CallTyped
<1>5. CommittedGenerationIsHonest' /\ LockNamesItsJournal'
  BY <1>1, <1>3 DEF OpInv, CommittedGenerationIsHonest, LockNamesItsJournal
<1> QED
  BY <1>2, <1>3, <1>4, <1>5 DEF OpInv, NothingBeforeApproval

-----------------------------------------------------------------------------
(* Steps without a call.                                                   *)

\* The next holder: every call in flight is now of an old one.
LEMMA HolderStep ==
  ASSUME OpInv, stage = "approved", UNCHANGED reviewVars, NextHolder
  PROVE  OpInv'
<1>1. /\ lease < MaxLease /\ lease' = lease + 1
      /\ UNCHANGED <<lock, journal, events, calls, careless, tampers>>
  BY DEF NextHolder
<1>2. /\ EventsFollowApprovedPlan' /\ UNCHANGED <<EventRecords, stage, kind, ops>>
      /\ \A log : Restored(log)' = Restored(log)
  BY <1>1, LogsKept
<1>3. CallsOK'
  <2>1. lease \in 0..MaxLease /\ lease' \in 0..MaxLease
    BY <1>1, OpAssumption DEF OpInv, OpTypeOK
  <2>2. ASSUME NEW c \in Call, calls[c] # None
        PROVE  CallOK(calls[c])'
    <3>1. CallOK(calls[c])
      BY <2>2 DEF OpInv, CallsOK
    <3>2. calls[c].token \in 1..lease' /\ calls[c].token # lease'
      BY <1>1, <2>1, <3>1, OpAssumption DEF CallOK, CallTyped, Right
    <3> QED
      BY <1>1, <1>2, <3>1, <3>2 DEF CallOK, CallTyped, Right
  <2> QED
    BY <1>1, <2>2 DEF OpInv, CallsOK
<1>4. OpTypeOK'
  <2>1. \A c \in Call : calls'[c] # None =>
          /\ calls'[c].token \in 1..lease'
          /\ calls'[c].does # "create" => calls'[c].seen \in Journals({"in-progress"})
    BY <1>3 DEF CallsOK, CallOK, CallTyped
  <2>2. lease' \in 0..MaxLease
    BY <1>1, OpAssumption DEF OpInv, OpTypeOK
  <2> QED
    BY <1>1, <1>2, <2>1, <2>2 DEF OpInv, OpTypeOK
<1>5. CommittedGenerationIsHonest' /\ LockNamesItsJournal' /\ OneCallEach'
  BY <1>1, <1>2 DEF OpInv, CommittedGenerationIsHonest, LockNamesItsJournal, OneCallEach
<1> QED
  BY <1>2, <1>3, <1>4, <1>5 DEF OpInv, NothingBeforeApproval

\* releaseLock() and a hand edit leave logs, leases and calls alone.
LEMMA OtherStep ==
  ASSUME OpInv, stage = "approved", UNCHANGED reviewVars, releaseLock \/ TamperJournal
  PROVE  OpInv'
<1>1. UNCHANGED <<lease, events, calls, careless>>
  BY DEF releaseLock, TamperJournal
<1>2. /\ EventsFollowApprovedPlan' /\ UNCHANGED <<EventRecords, stage, kind, ops>>
      /\ \A log : Restored(log)' = Restored(log)
  BY <1>1, LogsKept
<1>3. CallsOK' /\ OneCallEach'
  BY <1>1, <1>2 DEF OpInv, CallsOK, CallOK, CallTyped, Right, OneCallEach
<1>4. /\ lock' \in {lock, None}
      /\ \A o \in Op :
           \/ journal'[o] = journal[o]
           \/ /\ journal[o] # None /\ journal[o].status = "in-progress"
              /\ journal'[o] = [journal[o] EXCEPT !.plan = "altered"]
      /\ DOMAIN journal' = Op
  BY DEF releaseLock, TamperJournal, OpInv, OpTypeOK
<1>5. ASSUME NEW o \in Op, journal[o] # None, journal[o].status = "in-progress"
      PROVE  [journal[o] EXCEPT !.plan = "altered"] \in Journals({"in-progress"})
  BY <1>5 DEF OpInv, OpTypeOK, Journals
<1>6. \A j \in Journals({"in-progress"}) :
        /\ j \in Journals(Terminal \cup {"in-progress"}) /\ j # None
        /\ j.status \notin Terminal
  BY OpAssumption DEF Journals, Terminal
<1>7. journal' \in [Op -> Journals(Terminal \cup {"in-progress"}) \cup {None}]
  <2>1. CASE releaseLock
    BY <2>1 DEF releaseLock, OpInv, OpTypeOK
  <2>2. CASE TamperJournal
    BY <1>5, <1>6, <2>2 DEF TamperJournal, OpInv, OpTypeOK
  <2> QED
    BY <2>1, <2>2
<1>8. OpTypeOK'
  BY <1>1, <1>2, <1>4, <1>7 DEF OpInv, OpTypeOK
<1>9. LockNamesItsJournal'
  BY <1>4, <1>5, <1>6, OpAssumption DEF OpInv, LockNamesItsJournal
<1>10. CommittedGenerationIsHonest'
  BY <1>1, <1>2, <1>4, <1>5, <1>6 DEF OpInv, CommittedGenerationIsHonest
<1> QED
  BY <1>2, <1>3, <1>8, <1>9, <1>10 DEF OpInv, NothingBeforeApproval

\* The review writes nothing.
LEMMA ReviewStep ==
  ASSUME OpInv, ReviewNext, UNCHANGED opVars
  PROVE  OpInv'
<1>1. stage # "approved"
  BY DEF ReviewNext, MoveStep, DropStep, RepeatStep, RetargetStep, MixDocuments, Approve, Edit
<1>2. UNCHANGED <<lease, lock, journal, events, calls, careless, tampers>>
  BY DEF opVars
<1>3. /\ \A o \in Op : journal[o] = None /\ events[o] = << >>
      /\ \A c \in Call : calls[c] = None
  BY <1>1 DEF OpInv, NothingBeforeApproval
<1>4. OpTypeOK'
  <2>1. events' \in [Op -> Seq(EventRecords')]
    BY <1>2, <1>3 DEF OpInv, OpTypeOK
  <2> QED
    BY <1>2, <1>3, <2>1 DEF OpInv, OpTypeOK
<1>5. CallsOK' /\ OneCallEach' /\ NothingBeforeApproval'
  BY <1>2, <1>3 DEF OpInv, CallsOK, OneCallEach, NothingBeforeApproval
<1>6. EventsFollowApprovedPlan' /\ CommittedGenerationIsHonest' /\ LockNamesItsJournal'
  BY <1>2, <1>3 DEF OpInv, EventsFollowApprovedPlan, CommittedGenerationIsHonest,
                    LockNamesItsJournal
<1> QED
  BY <1>4, <1>5, <1>6 DEF OpInv

\* Every step keeps OpInv.
LEMMA OpStep ==
  ASSUME OpInv, [ReviewedNext]_<<reviewVars, opVars>>
  PROVE  OpInv'
<1>1. CASE ReviewNext /\ UNCHANGED opVars
  BY <1>1, ReviewStep
<1>2. CASE stage = "approved" /\ OpNext /\ UNCHANGED reviewVars
  BY <1>2, HolderStep, CreateStep, StatusStep, EventStep, AcquireStep, UpdateStep, AppendStep,
     LoseStep, OtherStep DEF OpNext
<1>3. CASE UNCHANGED <<reviewVars, opVars>>
  <2>1. UNCHANGED <<stage, kind, ops, lease, lock, journal, events, calls, careless, tampers>>
    BY <1>3 DEF reviewVars, opVars
  <2>2. UNCHANGED EventRecords /\ \A log : Restored(log)' = Restored(log)
    BY <2>1 DEF EventRecords, EventSteps, Restored
  <2>3. OpTypeOK' /\ CallsOK' /\ OneCallEach' /\ NothingBeforeApproval'
    BY <2>1, <2>2 DEF OpInv, OpTypeOK, CallsOK, CallOK, CallTyped, Right, OneCallEach, NothingBeforeApproval
  <2>4. EventsFollowApprovedPlan' /\ CommittedGenerationIsHonest' /\ LockNamesItsJournal'
    BY <2>1, <2>2 DEF OpInv, EventsFollowApprovedPlan, CommittedGenerationIsHonest,
                      LockNamesItsJournal
  <2> QED
    BY <2>3, <2>4 DEF OpInv
<1> QED
  BY <1>1, <1>2, <1>3 DEF ReviewedNext

\* OpInv holds in every reachable state.
LEMMA OpInvHolds == OpSpec => []OpInv
<1>1. ReviewInit /\ OpInit => OpInv
  <2> SUFFICES ASSUME ReviewInit, OpInit PROVE OpInv
    OBVIOUS
  <2> USE OpAssumption DEF OpInit
  <2>1. OpTypeOK /\ CallsOK /\ OneCallEach
    BY DEF OpTypeOK, CallsOK, OneCallEach
  <2>2. NothingBeforeApproval /\ EventsFollowApprovedPlan /\ CommittedGenerationIsHonest
    BY DEF NothingBeforeApproval, EventsFollowApprovedPlan, CommittedGenerationIsHonest
  <2>3. LockNamesItsJournal
    BY DEF LockNamesItsJournal
  <2> QED
    BY <2>1, <2>2, <2>3 DEF OpInv
<1> QED
  BY <1>1, OpStep, PTL DEF OpSpec

-----------------------------------------------------------------------------
(* Theorems.                                                               *)

\* The state of the v2 operation stays well typed; a call carries a token that was
\* handed out and a journal that was in progress when it was read
\* (writeJournalStatus(), writeEvent()).
THEOREM OpTypeCorrect == OpSpec => []OpTypeOK
<1>1. OpInv => OpTypeOK
  BY DEF OpInv
<1> QED
  BY <1>1, OpInvHolds, PTL

\* Every event names a step of the approved plan, however often a hand edits the
\* persisted journal (writeEvent()).
THEOREM EventsFollowApprovedPlanHolds == OpSpec => []EventsFollowApprovedPlan
<1>1. OpInv => EventsFollowApprovedPlan
  BY DEF OpInv
<1> QED
  BY <1>1, OpInvHolds, PTL

\* A finished restore says it committed a generation exactly when its log shows that
\* the plan's state.restore succeeded, if no holder overlaps its calls or leaves the
\* log out of a status call
\* (writeJournalStatus(), validateRestoreCommittedGeneration()).
THEOREM CommittedGenerationIsHonestHolds == OpSpec => []CommittedGenerationIsHonest
<1>1. OpInv => CommittedGenerationIsHonest
  BY DEF OpInv
<1> QED
  BY <1>1, OpInvHolds, PTL

\* lock.json names an operation that has a journal, wherever the script that writes
\* the two dies (writeLockAndJournal(), acquireLockAndJournalScript()).
THEOREM LockNamesItsJournalHolds == OpSpec => []LockNamesItsJournal
<1>1. OpInv => LockNamesItsJournal
  BY DEF OpInv
<1> QED
  BY <1>1, OpInvHolds, PTL

\* No call, however late, rewrites a terminal status or appends to its log
\* (journalCasCheckScript(), journalGuardForEventScript()).
THEOREM FinishedOperationIsFrozenHolds == OpSpec => FinishedOperationIsFrozen
<1> DEFINE Frozen == \A o \in Op : journal[o] # None /\ journal[o].status \in Terminal =>
                       journal'[o] = journal[o] /\ events'[o] = events[o]
<1>1. OpInv /\ [ReviewedNext]_<<reviewVars, opVars>> => [Frozen]_opVars
  <2> SUFFICES ASSUME OpInv, OpNext PROVE Frozen
    BY DEF ReviewedNext, opVars
  <2>1. journal \in [Op -> Journals(Terminal \cup {"in-progress"}) \cup {None}]
        /\ events \in [Op -> Seq(EventRecords)]
    BY DEF OpInv, OpTypeOK
  <2>2. \A j \in Journals({"in-progress"}) : j.status \notin Terminal
    BY DEF Journals, Terminal
  <2>3. ASSUME NEW c \in Call, acquireLockAndJournal(c)
        PROVE  Frozen
    BY <2>1, <2>3 DEF acquireLockAndJournal
  <2>4. ASSUME NEW c \in Call, updateJournalStatus(c) \/ appendEvent(c)
        PROVE  Frozen
    <3>1. calls[c].seen \in Journals({"in-progress"})
      BY <2>4 DEF updateJournalStatus, appendEvent, OpInv, OpTypeOK
    <3>2. UnchangedSinceRead(calls[c]) =>
            calls[c].op \notin {o \in Op : journal[o].status \in Terminal}
      BY <2>2, <3>1 DEF UnchangedSinceRead
    <3> QED
      BY <2>1, <2>4, <3>2 DEF updateJournalStatus, appendEvent
  <2>5. CASE TamperJournal
    BY <2>1, <2>5 DEF TamperJournal, Terminal
  <2>6. CASE UNCHANGED <<journal, events>>
    BY <2>6
  <2>7. ASSUME NEW c \in Call, writeLockAndJournal(c) \/ writeJournalStatus(c) \/ writeEvent(c)
        PROVE  Frozen
    <3>1. ASSUME writeLockAndJournal(c) PROVE UNCHANGED <<journal, events>>
      BY <3>1 DEF writeLockAndJournal, Start
    <3>2. ASSUME writeJournalStatus(c) PROVE UNCHANGED <<journal, events>>
      BY <3>2 DEF writeJournalStatus, Start
    <3>3. ASSUME writeEvent(c) PROVE UNCHANGED <<journal, events>>
      BY <3>3 DEF writeEvent, Start
    <3> QED
      BY <2>6, <2>7, <3>1, <3>2, <3>3
  <2>8. ASSUME NEW c \in Call, LoseCall(c)
        PROVE  Frozen
    BY <2>6, <2>8 DEF LoseCall
  <2>9. CASE NextHolder \/ releaseLock
    BY <2>6, <2>9 DEF NextHolder, releaseLock
  <2> QED
    BY <2>3, <2>4, <2>5, <2>7, <2>8, <2>9 DEF OpNext
<1> QED
  BY <1>1, OpInvHolds, PTL DEF OpSpec, FinishedOperationIsFrozen

-----------------------------------------------------------------------------
(* The recovery kit.                                                       *)

\* A payload that rebuilds its own generation, and carries nothing else.
Restores(payload) ==
  LET manifest == ManifestOf[payload.generation]
  IN  /\ payload.sanitizedManifest.services = manifest.services
      /\ payload.releaseLock = ReleaseLockOf[payload.generation]
      /\ payload.applicationSecrets = UNION {Needs[s] : s \in manifest.services}
      /\ DOMAIN payload.destinationCredentials = Refs(Destinations)
      /\ \A i \in DOMAIN Destinations :
           Usable(payload.destinationCredentials[Destinations[i].secretRef], Destinations[i])
      /\ "host" \notin DOMAIN payload.sanitizedManifest

\* A kit as it leaves its publisher: its recipient opens it, what comes out rebuilds,
\* and corruption would reach its payload.
Sound(kit) ==
  /\ Opens(kit, IdentityOf[Recipient])
  /\ Restores(kit.ciphertext[3])
  /\ "ciphertext" \in DOMAIN kit /\ 3 \in DOMAIN kit.ciphertext
  /\ Corrupted(kit) # None

\* What is on its way is sound; what is on the target is too, unless the disk
\* damaged it, and then it is still there and nothing comes out of it; what came
\* out rebuilds.
KitInv ==
  /\ DOMAIN kitOffer = Publisher
  /\ \A p \in Publisher : kitOffer[p] # None => Sound(kitOffer[p])
  /\ kitFile # None /\ ~kitDamaged => Sound(kitFile)
  /\ kitDamaged => kitFile # None /\ \A identity \in Identities : ~Opens(kitFile, identity)
  /\ opened # None => Restores(opened)

\* Digests are injective, so a file that passed its comparison is the original.
LEMMA DigestInjective == \A x, y : Digest(x) = Digest(y) => x = y
BY DEF Digest

\* validateBackupCredentials(): every destination has an entry, of its own type, with
\* the fields that open its repository.
LEMMA ValidatedCredentialsAreUsable ==
  ASSUME NEW destinations, NEW credentials,
         validateBackupCredentials(destinations, credentials)
  PROVE  /\ DOMAIN credentials = Refs(destinations)
         /\ \A i \in DOMAIN destinations :
              Usable(credentials[destinations[i].secretRef], destinations[i])
<1>1. ASSUME NEW entry, validateCredentialEntry(entry)
      PROVE  /\ "resticPassword" \in entry.fields
             /\ entry.type = "s3" => {"accessKeyId", "secretAccessKey"} \subseteq entry.fields
  BY <1>1 DEF validateCredentialEntry, REQUIRED_FIELDS_BY_TYPE
<1> QED
  BY <1>1 DEF validateBackupCredentials, Usable

\* assembleRecoveryPayload(): files of one generation only, whatever the caller
\* picks, and the payload holds what that generation needs.
LEMMA AssembledRestores ==
  ASSUME NEW g \in Generations, NEW m \in Generations, NEW l \in Generations,
         NEW toolLock, NEW store, NEW credentials,
         AssemblyAccepts(StateRecord(g), ManifestOf[m], ReleaseLockOf[l], toolLock, store,
                         credentials)
  PROVE  Restores(assembleRecoveryPayload(StateRecord(g), ManifestOf[m], ReleaseLockOf[l],
                                          toolLock, store, credentials))
<1> DEFINE payload == assembleRecoveryPayload(StateRecord(g), ManifestOf[m], ReleaseLockOf[l],
                                              toolLock, store, credentials)
<1>1. ManifestOf[m] = ManifestOf[g] /\ ReleaseLockOf[l] = ReleaseLockOf[g]
  <2>1. /\ Digest(ManifestOf[m]) = Digest(ManifestOf[g])
        /\ Digest(ReleaseLockOf[l]) = Digest(ReleaseLockOf[g])
    BY DEF AssemblyAccepts, StateRecord
  <2> QED
    BY <2>1, DigestInjective
<1>2. /\ payload.generation = g
      /\ payload.releaseLock = ReleaseLockOf[g]
      /\ payload.sanitizedManifest = sanitizeManifest(ManifestOf[g])
      /\ payload.applicationSecrets = requiredSecrets(ManifestOf[g])
      /\ payload.destinationCredentials =
           [ref \in DOMAIN credentials \cap Refs(Destinations) |-> credentials[ref]]
  BY <1>1 DEF assembleRecoveryPayload, StateRecord
<1>3. /\ sanitizeManifest(ManifestOf[g]).services = ManifestOf[g].services
      /\ "host" \notin DOMAIN sanitizeManifest(ManifestOf[g])
  BY KitAssumption DEF sanitizeManifest, Without
<1>4. /\ DOMAIN payload.destinationCredentials = Refs(Destinations)
      /\ \A i \in DOMAIN Destinations :
           Usable(payload.destinationCredentials[Destinations[i].secretRef], Destinations[i])
  <2>1. validateBackupCredentials(Destinations, payload.destinationCredentials)
    BY <1>2 DEF AssemblyAccepts
  <2> HIDE DEF payload
  <2> QED
    BY <2>1, ValidatedCredentialsAreUsable
<1> HIDE DEF payload
<1>5. Restores(payload)
  BY <1>2, <1>3, <1>4 DEF Restores, requiredSecrets
<1> QED
  BY <1>5 DEF payload

\* createRecoveryKit(): what its recipient opens is what was put in.
LEMMA CreatedKitOpens ==
  ASSUME NEW payload, payload # Garbage, validateClosedRecoveryPayload(payload),
         verifyRecoveryKit(createRecoveryKit(payload, Recipient))
  PROVE  /\ Opens(createRecoveryKit(payload, Recipient), IdentityOf[Recipient])
         /\ createRecoveryKit(payload, Recipient).ciphertext[3] = payload
         /\ "ciphertext" \in DOMAIN createRecoveryKit(payload, Recipient)
         /\ 3 \in DOMAIN createRecoveryKit(payload, Recipient).ciphertext
<1> DEFINE kit == createRecoveryKit(payload, Recipient)
<1>1. /\ kit.ciphertext = <<"age-encryption.org/v1", Recipient, payload>>
      /\ "ciphertext" \in DOMAIN kit
  BY DEF createRecoveryKit, ageEncrypt
<1> HIDE DEF kit
<1>2. kit.ciphertext[2] = Recipient /\ kit.ciphertext[3] = payload /\ 3 \in DOMAIN kit.ciphertext
  BY <1>1
<1>3. verifyRecoveryKit(kit)
  BY DEF kit
<1>4. Opens(kit, IdentityOf[Recipient])
  BY <1>2, <1>3 DEF Opens
<1> QED
  BY <1>1, <1>2, <1>4 DEF kit

\* Nobody gets anything out of a corrupted kit.
LEMMA CorruptedStaysShut ==
  ASSUME NEW kit, Sound(kit)
  PROVE  \A identity : ~Opens(Corrupted(kit), identity)
<1>1. Corrupted(kit).ciphertext[3] = Garbage
  BY DEF Corrupted, Sound
<1> QED
  BY <1>1 DEF Opens

\* A kit that is offered is sound: publishRecoveryKit() verified it.
LEMMA OfferedKitIsSound ==
  ASSUME KitInv, NEW p \in Publisher, OfferKit(p)
  PROVE  \E kit : Sound(kit) /\ kitOffer' = [kitOffer EXCEPT ![p] = kit]
<1>1. PICK g \in Generations, m \in Generations, l \in Generations, toolLock \in ToolLocks,
           store \in Stores, credentials \in CredentialStores :
        LET payload == assembleRecoveryPayload(StateRecord(g), ManifestOf[m], ReleaseLockOf[l],
                                               toolLock, store, credentials)
        IN  /\ AssemblyAccepts(StateRecord(g), ManifestOf[m], ReleaseLockOf[l], toolLock, store,
                               credentials)
            /\ validateClosedRecoveryPayload(payload)
            /\ verifyRecoveryKit(createRecoveryKit(payload, Recipient))
            /\ kitOffer' = [kitOffer EXCEPT ![p] = createRecoveryKit(payload, Recipient)]
  BY DEF OfferKit
<1> DEFINE payload == assembleRecoveryPayload(StateRecord(g), ManifestOf[m], ReleaseLockOf[l],
                                              toolLock, store, credentials)
           kit == createRecoveryKit(payload, Recipient)
<1>2. payload # Garbage /\ Corrupted(kit) # None
  BY MarkerAssumption
<1>3. Restores(payload)
  BY <1>1, AssembledRestores
<1>4. /\ validateClosedRecoveryPayload(payload) /\ verifyRecoveryKit(kit)
      /\ kitOffer' = [kitOffer EXCEPT ![p] = kit]
  BY <1>1
<1> HIDE DEF payload
<1>5. /\ Opens(kit, IdentityOf[Recipient]) /\ kit.ciphertext[3] = payload
      /\ "ciphertext" \in DOMAIN kit /\ 3 \in DOMAIN kit.ciphertext
  BY <1>2, <1>4, CreatedKitOpens
<1> HIDE DEF kit
<1>6. Sound(kit)
  BY <1>2, <1>3, <1>5 DEF Sound
<1> QED
  BY <1>4, <1>6

\* Every step keeps KitInv.
LEMMA KitStep ==
  ASSUME KitInv, [KitNext]_kitVars
  PROVE  KitInv'
<1>1. ASSUME NEW p \in Publisher, OfferKit(p)
      PROVE  KitInv'
  <2>1. PICK kit : Sound(kit) /\ kitOffer' = [kitOffer EXCEPT ![p] = kit]
    BY <1>1, OfferedKitIsSound
  <2>2. UNCHANGED <<kitFile, kitDamaged, opened>>
    BY <1>1 DEF OfferKit
  <2> QED
    BY <2>1, <2>2 DEF KitInv
<1>2. ASSUME NEW p \in Publisher, publishRecoveryKit(p)
      PROVE  KitInv'
  <2>1. PICK received \in {kitOffer[p], Corrupted(kitOffer[p])} :
          kitFile' = IF ArrivesIntact(received, kitOffer[p]) /\ MayLink THEN received ELSE kitFile
    BY <1>2 DEF publishRecoveryKit
  <2>2. /\ kitOffer[p] # None /\ kitOffer' = [kitOffer EXCEPT ![p] = None]
        /\ UNCHANGED <<kitDamaged, opened>>
    BY <1>2 DEF publishRecoveryKit
  <2>3. CASE kitFile' = kitFile
    BY <2>2, <2>3 DEF KitInv
  <2>4. CASE ArrivesIntact(received, kitOffer[p]) /\ MayLink
    <3>1. received = kitOffer[p]
      BY <2>4, DigestInjective DEF ArrivesIntact
    <3>2. kitFile' = kitOffer[p] /\ kitFile = None
      BY <2>1, <2>4, <3>1 DEF MayLink
    <3> QED
      BY <2>2, <3>2 DEF KitInv
  <2> QED
    BY <2>1, <2>3, <2>4
<1>3. CASE DamageKit
  <2>1. kitFile # None /\ ~kitDamaged /\ kitFile' = Corrupted(kitFile) /\ kitDamaged'
    BY <1>3 DEF DamageKit
  <2>2. Sound(kitFile)
    BY <2>1 DEF KitInv
  <2>3. kitFile' # None /\ \A identity \in Identities : ~Opens(kitFile', identity)
    BY <2>1, <2>2, CorruptedStaysShut DEF Sound
  <2> QED
    BY <1>3, <2>1, <2>3 DEF DamageKit, KitInv
<1>4. CASE OpenKit
  <2>1. /\ kitFile # None /\ opened' = kitFile.ciphertext[3]
        /\ \E identity \in Identities : Opens(kitFile, identity)
        /\ UNCHANGED <<kitOffer, kitFile, kitDamaged>>
    BY <1>4 DEF OpenKit, openRecoveryKit
  <2>2. Sound(kitFile)
    BY <2>1 DEF KitInv
  <2> QED
    BY <2>1, <2>2 DEF KitInv, Sound
<1>5. CASE UNCHANGED kitVars
  BY <1>5 DEF kitVars, KitInv
<1> QED
  BY <1>1, <1>2, <1>3, <1>4, <1>5 DEF KitNext

\* KitInv holds in every reachable state.
LEMMA KitInvHolds == KitSpec => []KitInv
<1>1. KitInit => KitInv
  BY DEF KitInit, KitInv
<1> QED
  BY <1>1, KitStep, PTL DEF KitSpec

-----------------------------------------------------------------------------

\* The kit on the target can be opened by the holder of the recipient's identity as
\* long as the disk is sound, however many publishers race and whatever the transport
\* does (publishRecoveryKitScript()).
THEOREM PublishedKitCanBeOpenedHolds == KitSpec => []PublishedKitCanBeOpened
<1>1. KitInv => PublishedKitCanBeOpened
  BY DEF KitInv, Sound, PublishedKitCanBeOpened
<1> QED
  BY <1>1, KitInvHolds, PTL

\* Whatever is ever got out of a kit rebuilds the generation it names and carries
\* nothing else, whichever files the caller assembled it from
\* (assembleRecoveryPayload(), openRecoveryKit()).
THEOREM OpenedKitRestoresItsGenerationHolds == KitSpec => []OpenedKitRestoresItsGeneration
<1>1. KitInv => OpenedKitRestoresItsGeneration
  BY DEF KitInv, Restores, OpenedKitRestoresItsGeneration
<1> QED
  BY <1>1, KitInvHolds, PTL

-----------------------------------------------------------------------------
(* The review of a plan: what the validators' list helpers ask.            *)

\* Whatever is indexed by finitely many positions.
Listed(s) == IsFiniteSet(DOMAIN s)

IsSeq(s) == s \in Seq({s[i] : i \in DOMAIN s})

\* A list has the positions 1 to its length.
LEMMA SeqDomain ==
  ASSUME NEW s, IsSeq(s)
  PROVE  Len(s) \in Nat /\ DOMAIN s = 1 .. Len(s) /\ Listed(s)
<1>1. Len(s) \in Nat /\ DOMAIN s = 1 .. Len(s)
  BY DEF IsSeq
<1>2. IsFiniteSet(1 .. Len(s))
  BY <1>1, FS_Interval
<1> QED
  BY <1>1, <1>2 DEF Listed

\* A function on such positions is a list.
LEMMA SeqOf ==
  ASSUME NEW n \in Nat, NEW s, DOMAIN s = 1 .. n, s = [i \in DOMAIN s |-> s[i]]
  PROVE  IsSeq(s) /\ Len(s) = n
<1>1. s \in [1 .. n -> {s[i] : i \in DOMAIN s}]
  OBVIOUS
<1> QED
  BY <1>1 DEF IsSeq

\* An action is there exactly once when it has one position.
LEMMA OnePosition ==
  ASSUME NEW s, Listed(s), NEW a
  PROVE  /\ Cardinality(indicesOfAction(s, a)) = 1
              <=> /\ \E i \in DOMAIN s : s[i].action = a
                  /\ \A i, j \in DOMAIN s : s[i].action = a /\ s[j].action = a => i = j
         /\ IsFiniteSet(indicesOfAction(s, a))
<1> DEFINE I == {i \in DOMAIN s : s[i].action = a}
<1>1. I \in SUBSET DOMAIN s
  OBVIOUS
<1>2. IsFiniteSet(I)
  BY <1>1, FS_Subset DEF Listed
<1>3. Cardinality(I) = 1 <=> \E x : I = {x}
  BY <1>2, FS_Singleton
<1>4. (\E x : I = {x}) <=> /\ \E i \in DOMAIN s : s[i].action = a
                           /\ \A i, j \in DOMAIN s : s[i].action = a /\ s[j].action = a => i = j
  <2>1. ASSUME NEW x, I = {x}
        PROVE  /\ \E i \in DOMAIN s : s[i].action = a
               /\ \A i, j \in DOMAIN s : s[i].action = a /\ s[j].action = a => i = j
    BY <2>1
  <2>2. ASSUME NEW i \in DOMAIN s, s[i].action = a,
               \A j, k \in DOMAIN s : s[j].action = a /\ s[k].action = a => j = k
        PROVE  I = {i}
    BY <2>2
  <2> QED
    BY <2>1, <2>2
<1> QED
  BY <1>2, <1>3, <1>4 DEF indicesOfAction

\* The keys of all operations of an action.
KeysOf(s, a) == {s[i].key : i \in indicesOfAction(s, a)}

\* No two operations of the action have the same key.
KeysApart(s, a) ==
  \A i, j \in DOMAIN s : s[i].action = a /\ s[j].action = a /\ s[i].key = s[j].key => i = j

Count(s, x) == Cardinality({i \in DOMAIN s : s[i] = x})

\* A list without duplicates counts each of its members once.
LEMMA CountsOnce ==
  ASSUME NEW s, Listed(s), ~hasDuplicates(s), NEW x
  PROVE  Count(s, x) = IF x \in Members(s) THEN 1 ELSE 0
<1>1. CASE x \in Members(s)
  <2>1. PICK i \in DOMAIN s : s[i] = x
    BY <1>1 DEF Members
  <2>2. {j \in DOMAIN s : s[j] = x} = {i}
    BY <2>1 DEF hasDuplicates
  <2> QED
    BY <1>1, <2>2, FS_Singleton DEF Count
<1>2. CASE x \notin Members(s)
  <2>1. {j \in DOMAIN s : s[j] = x} = {}
    BY <1>2 DEF Members
  <2> QED
    BY <1>2, <2>1, FS_EmptySet DEF Count
<1> QED
  BY <1>1, <1>2

\* Two lists without duplicates agree as multisets when they have the same members.
LEMMA SameMembers ==
  ASSUME NEW s, Listed(s), ~hasDuplicates(s), NEW t, Listed(t), ~hasDuplicates(t)
  PROVE  exactSetEquals(s, t) <=> Members(s) = Members(t)
<1>1. exactSetEquals(s, t) <=> \A x \in Members(s) \cup Members(t) : Count(s, x) = Count(t, x)
  BY DEF exactSetEquals, Members, Count
<1>2. \A x : /\ Count(s, x) = IF x \in Members(s) THEN 1 ELSE 0
             /\ Count(t, x) = IF x \in Members(t) THEN 1 ELSE 0
  BY CountsOnce
<1>3. ASSUME \A x \in Members(s) \cup Members(t) : Count(s, x) = Count(t, x)
      PROVE  Members(s) = Members(t)
  <2>1. \A x : x \in Members(s) <=> x \in Members(t)
    BY <1>2, <1>3
  <2> QED
    BY <2>1
<1> QED
  BY <1>1, <1>2, <1>3

\* The keys under an action: a list of its own, over the positions of the action.
LEMMA KeyList ==
  ASSUME NEW s, Listed(s), NEW a
  PROVE  /\ Listed(keysOf(s, a))
         /\ Members(keysOf(s, a)) = KeysOf(s, a)
         /\ ~hasDuplicates(keysOf(s, a)) <=> KeysApart(s, a)
<1>1. DOMAIN keysOf(s, a) = indicesOfAction(s, a)
      /\ \A i \in indicesOfAction(s, a) : keysOf(s, a)[i] = s[i].key
  BY DEF keysOf
<1>2. Listed(keysOf(s, a))
  BY <1>1, OnePosition DEF Listed
<1>3. Members(keysOf(s, a)) = KeysOf(s, a)
  BY <1>1 DEF Members, KeysOf
<1>4. ~hasDuplicates(keysOf(s, a)) <=> KeysApart(s, a)
  BY <1>1 DEF hasDuplicates, KeysApart, indicesOfAction
<1> QED
  BY <1>2, <1>3, <1>4

\* An action with one operation for each expected key.
LEMMA OneForEach ==
  ASSUME NEW s, Listed(s), NEW a, NEW t, Listed(t), ~hasDuplicates(t)
  PROVE  OneEach(s, a, t) <=> KeysApart(s, a) /\ KeysOf(s, a) = Members(t)
<1>1. CASE ~hasDuplicates(keysOf(s, a))
  BY <1>1, KeyList, SameMembers DEF OneEach
<1>2. CASE hasDuplicates(keysOf(s, a))
  BY <1>2, KeyList DEF OneEach
<1> QED
  BY <1>1, <1>2

-----------------------------------------------------------------------------
(* The plan under review.                                                  *)

Once(k) == IF k = "backup" THEN BACKUP_ONCE ELSE RESTORE_ONCE

FlowActions(k) ==
  IF k = "backup"
    THEN BACKUP_ONCE \cup {"service.stop", "snapshot.create", "retention.apply", "service.start",
                           "readiness.wait"}
    ELSE RESTORE_ONCE \cup {"network.create", "volume.create", "data.restore", "service.start",
                            "readiness.wait"}

\* What every edit leaves: operations of the flow, in some order; those without a key stay so.
FlowStep(k, e) ==
  /\ e.action \in FlowActions(k)
  /\ e.action \in Once(k) => e.key = None

Flow(k) == IsSeq(ops) /\ \A i \in DOMAIN ops : FlowStep(k, ops[i])

\* The lists a plan names, as its validators need them.
LEMMA NamesListed ==
  ASSUME NEW names \in {Units, DestinationNames, Volumes, NetworkNames}
  PROVE  IsSeq(names) /\ Listed(names) /\ ~hasDuplicates(names) /\ Members(names) # {}
<1>1. NameList(names)
  BY ReviewAssumption
<1>2. IsSeq(names) /\ ~hasDuplicates(names) /\ names # << >>
  BY <1>1 DEF NameList, IsSeq
<1>3. Len(names) \in Nat /\ DOMAIN names = 1 .. Len(names) /\ Listed(names)
  BY <1>2, SeqDomain
<1>4. Len(names) # 0
  BY <1>2 DEF IsSeq
<1>5. names[1] \in Members(names)
  BY <1>3, <1>4 DEF Members
<1> QED
  BY <1>2, <1>3, <1>5

\* What the plan under review says.
LEMMA ReviewedPlanFields ==
  ASSUME NEW k, NEW s, NEW o
  PROVE  /\ PlanDoc(k, s, o).executable
         /\ PlanDoc(k, s, o).operations = o
         /\ PlanDoc(k, s, o).consistencySet = Volumes
         /\ k = "backup" => PlanDoc(k, s, o).destinations = DestinationNames
         /\ k # "backup" => PlanDoc(k, s, o).networks = NetworkNames
  BY DEF PlanDoc, WithContentId

\* BackupFlowComplete() in terms of positions and keys.
BackupComplete ==
  /\ \A a \in BACKUP_ONCE :
       /\ \E i \in DOMAIN ops : ops[i].action = a
       /\ \A i, j \in DOMAIN ops : ops[i].action = a /\ ops[j].action = a => i = j
  /\ \A a \in {"service.stop", "service.start", "readiness.wait"} :
       \E i \in DOMAIN ops : ops[i].action = a
  /\ KeysApart(ops, "snapshot.create") /\ KeysOf(ops, "snapshot.create") = Members(DestinationNames)
  /\ KeysApart(ops, "retention.apply") /\ KeysOf(ops, "retention.apply") = Members(DestinationNames)
  /\ KeysApart(ops, "service.stop")
  /\ KeysApart(ops, "service.start") /\ KeysOf(ops, "service.start") = KeysOf(ops, "service.stop")
  /\ \A i, j \in DOMAIN ops : i # j => ops[i].id # ops[j].id

\* A plan is complete exactly when this holds of its operations.
LEMMA BackupCompleteness ==
  ASSUME Flow("backup"), NEW s
  PROVE  BackupFlowComplete(PlanDoc("backup", s, ops)) <=> BackupComplete
<1> DEFINE p == PlanDoc("backup", s, ops)
<1>1. p.operations = ops /\ p.destinations = DestinationNames /\ p.consistencySet = Volumes
  BY ReviewedPlanFields
<1> HIDE DEF p
<1>2. Listed(ops) /\ DOMAIN ops = 1 .. Len(ops)
  BY SeqDomain DEF Flow
<1>3. /\ Listed(DestinationNames) /\ ~hasDuplicates(DestinationNames)
      /\ ~hasDuplicates(Volumes)
  BY NamesListed
<1>4. \A a \in BACKUP_ONCE :
        Cardinality(indicesOfAction(ops, a)) = 1
          <=> /\ \E i \in DOMAIN ops : ops[i].action = a
              /\ \A i, j \in DOMAIN ops : ops[i].action = a /\ ops[j].action = a => i = j
  BY <1>2, OnePosition
<1>5. \A a : indicesOfAction(ops, a) # {} <=> \E i \in DOMAIN ops : ops[i].action = a
  BY DEF indicesOfAction
<1>6. \A a : OneEach(ops, a, DestinationNames)
               <=> KeysApart(ops, a) /\ KeysOf(ops, a) = Members(DestinationNames)
  BY <1>2, <1>3, OneForEach
<1>7. /\ ~hasDuplicates(keysOf(ops, "service.stop")) <=> KeysApart(ops, "service.stop")
      /\ Listed(keysOf(ops, "service.stop"))
      /\ Members(keysOf(ops, "service.stop")) = KeysOf(ops, "service.stop")
  BY <1>2, KeyList
<1>8. ~hasDuplicates(keysOf(ops, "service.stop")) =>
        (OneEach(ops, "service.start", keysOf(ops, "service.stop"))
           <=> /\ KeysApart(ops, "service.start")
               /\ KeysOf(ops, "service.start") = KeysOf(ops, "service.stop"))
  BY <1>2, <1>7, OneForEach
<1>9. ~hasDuplicates([i \in DOMAIN ops |-> ops[i].id])
        <=> \A i, j \in DOMAIN ops : i # j => ops[i].id # ops[j].id
  BY DEF hasDuplicates
<1>10. BackupFlowComplete(p)
        <=> /\ \A a \in BACKUP_ONCE : Cardinality(indicesOfAction(ops, a)) = 1
            /\ \A a \in {"service.stop", "service.start", "readiness.wait"} :
                 indicesOfAction(ops, a) # {}
            /\ OneEach(ops, "snapshot.create", DestinationNames)
            /\ OneEach(ops, "retention.apply", DestinationNames)
            /\ ~hasDuplicates(keysOf(ops, "service.stop"))
            /\ OneEach(ops, "service.start", keysOf(ops, "service.stop"))
            /\ ~hasDuplicates([i \in DOMAIN ops |-> ops[i].id])
  BY <1>1, <1>3 DEF BackupFlowComplete
<1>11. (\A a \in BACKUP_ONCE : Cardinality(indicesOfAction(ops, a)) = 1)
         <=> \A a \in BACKUP_ONCE :
               /\ \E i \in DOMAIN ops : ops[i].action = a
               /\ \A i, j \in DOMAIN ops : ops[i].action = a /\ ops[j].action = a => i = j
  BY <1>4
<1>12. BackupFlowComplete(p) <=> BackupComplete
  BY <1>5, <1>6, <1>7, <1>8, <1>9, <1>10, <1>11 DEF BackupComplete
<1> QED
  BY <1>12 DEF p


\* A flow that the validator accepts is safe at every step: whoever is needed by a
\* step is there, once, and on the right side of it.
LEMMA AcceptedBackupIsSafe ==
  ASSUME Flow("backup"), kind = "backup", BackupComplete, ops # << >>, BackupFlowOrdered(ops)
  PROVE  ExecutionSafe
<1>1. Len(ops) \in Nat /\ DOMAIN ops = 1 .. Len(ops) /\ Len(ops) # 0
  BY SeqDomain DEF Flow, IsSeq
<1>2. /\ 1 \in DOMAIN ops /\ ops[1].action = "maintenance.enter"
      /\ Len(ops) \in DOMAIN ops /\ ops[Len(ops)].action = "evidence.write"
  BY <1>1 DEF BackupFlowOrdered
<1>3. \A i, j \in DOMAIN ops :
        /\ ops[i].action = ops[j].action /\ ops[i].action \in BACKUP_ONCE => i = j
        /\ ops[i].action \in {"maintenance.enter", "service.stop"} /\ ops[j].action = "staging.build"
             => i < j
        /\ ops[i].action = "staging.build" /\ ops[j].action = "snapshot.create" => i < j
        /\ ops[i].action \in {"snapshot.create", "retention.apply"} /\ ops[j].action = "service.start"
             => i < j
        /\ ops[i].action = "service.start" /\ ops[j].action = "readiness.wait" => i < j
        /\ ops[i].action = "readiness.wait" /\ ops[j].action = "maintenance.exit" => i < j
        /\ ops[i].action = "snapshot.create" /\ ops[j].action = "retention.apply"
             /\ ops[i].key = ops[j].key => i < j
  BY DEF BackupComplete, BackupFlowOrdered, Precede, KeyedPrecede, indicesOfAction, IndicesOf
<1>4. \A a \in BACKUP_ONCE \cup {"service.stop", "service.start", "readiness.wait"} :
        \E i \in DOMAIN ops : ops[i].action = a
  BY DEF BackupComplete
<1>5. \A d \in Members(DestinationNames) :
        /\ \E i \in DOMAIN ops : ops[i].action = "snapshot.create" /\ ops[i].key = d
        /\ \E i \in DOMAIN ops : ops[i].action = "retention.apply" /\ ops[i].key = d
  BY DEF BackupComplete, KeysOf, indicesOfAction
<1>6. \A i \in DOMAIN ops :
        ops[i].action \in {"snapshot.create", "retention.apply"} => ops[i].key \in Members(DestinationNames)
  BY DEF BackupComplete, KeysOf, indicesOfAction
<1>7. PICK d : d \in Members(DestinationNames)
  BY NamesListed
<1>8. \A i \in DOMAIN ops : ops[i].action = "service.start" =>
        \E j \in DOMAIN ops : ops[j].action = "service.stop" /\ ops[j].key = ops[i].key
  BY DEF BackupComplete, KeysOf, indicesOfAction
<1>9. \A i \in DOMAIN ops : ops[i].action = "service.stop" =>
        \E j \in DOMAIN ops : ops[j].action = "service.start" /\ ops[j].key = ops[i].key
  <2> TAKE i \in DOMAIN ops
  <2> HAVE ops[i].action = "service.stop"
  <2>1. ops[i].key \in KeysOf(ops, "service.stop")
    BY DEF KeysOf, indicesOfAction
  <2>2. ops[i].key \in KeysOf(ops, "service.start")
    BY <2>1 DEF BackupComplete
  <2> QED
    BY <2>2 DEF KeysOf, indicesOfAction
<1>10. \A i, j \in DOMAIN ops :
         ops[i].action = ops[j].action /\ ops[i].key = ops[j].key /\ ops[i].action # "readiness.wait"
           => i = j
  BY <1>3 DEF BackupComplete, KeysApart, Flow, FlowStep, FlowActions
<1>11. ASSUME NEW n \in DOMAIN ops
       PROVE  BackupStepSafe(n)
  <2> DEFINE m == n - 1
             a == ops[n].action
             k == ops[n].key
  <2>1. m \in Nat /\ 1 .. m \subseteq DOMAIN ops /\ \A i \in DOMAIN ops : i < n <=> i \in 1 .. m
    BY <1>1
  <2> HIDE DEF m
  <2>2. \A b : Did(m, b) <=> \E i \in DOMAIN ops : i < n /\ ops[i].action = b
    BY <2>1 DEF Did
  <2>3. \A b, x : x \in KeysDone(m, b)
                    <=> \E i \in DOMAIN ops : i < n /\ ops[i].action = b /\ ops[i].key = x
    BY <2>1 DEF KeysDone
  <2>4. \A x : x \in StoppedUnits <=> \E i \in DOMAIN ops : ops[i].action = "service.stop" /\ ops[i].key = x
    BY <1>1 DEF StoppedUnits, KeysDone
  <2>5. a = "maintenance.enter" <=> m = 0
    BY <1>1, <1>2, <1>3 DEF m, BACKUP_ONCE
  <2>6. a # "readiness.wait" => <<a, k>> \notin Done(m)
    BY <1>1, <1>10, <2>1 DEF Done, m
  <2>7. ~Did(m, "evidence.write")
    BY <1>1, <1>2, <1>3, <2>2 DEF BACKUP_ONCE
  <2>8. a \in {"service.stop", "staging.build"} => ~Did(m, "staging.build")
    BY <1>1, <1>3, <2>2 DEF BACKUP_ONCE
  <2>9. a = "staging.build" => KeysDone(m, "service.stop") = StoppedUnits
    <3>1. a = "staging.build" => \A x : x \in KeysDone(m, "service.stop") <=> x \in StoppedUnits
      BY <1>3, <2>3, <2>4
    <3> QED
      BY <3>1
  <2>10. a = "snapshot.create" => Did(m, "staging.build") /\ k \in Members(DestinationNames)
    BY <1>3, <1>4, <1>6, <2>2 DEF BACKUP_ONCE
  <2>11. a = "retention.apply" => k \in KeysDone(m, "snapshot.create")
    BY <1>3, <1>5, <1>6, <2>3
  <2>12. a = "service.start" =>
           /\ k \in KeysDone(m, "service.stop")
           /\ KeysDone(m, "retention.apply") = Members(DestinationNames)
           /\ ~Did(m, "readiness.wait")
    <3> SUFFICES ASSUME a = "service.start"
                 PROVE  /\ k \in KeysDone(m, "service.stop")
                        /\ KeysDone(m, "retention.apply") = Members(DestinationNames)
                        /\ ~Did(m, "readiness.wait")
      OBVIOUS
    <3>1. PICK j \in DOMAIN ops : ops[j].action = "service.stop" /\ ops[j].key = k
      BY <1>8
    <3>2. PICK b \in DOMAIN ops : ops[b].action = "staging.build"
      BY <1>4 DEF BACKUP_ONCE
    <3>3. PICK s \in DOMAIN ops : ops[s].action = "snapshot.create"
      BY <1>5, <1>7
    <3>4. j < n
      <4>1. j < b /\ b < s /\ s < n
        BY <1>3, <3>1, <3>2, <3>3
      <4> QED
        BY <1>1, <4>1
    <3>5. k \in KeysDone(m, "service.stop")
      BY <2>3, <3>1, <3>4
    <3>6. \A x : x \in KeysDone(m, "retention.apply") <=> x \in Members(DestinationNames)
      BY <1>3, <1>5, <1>6, <2>3
    <3>7. ~Did(m, "readiness.wait")
      BY <1>1, <1>3, <2>2
    <3> QED
      BY <3>5, <3>6, <3>7
  <2>13. a = "readiness.wait" => /\ Did(m, "service.start")
                                 /\ KeysDone(m, "service.start") = StoppedUnits
                                 /\ ~Did(m, "maintenance.exit")
    <3>1. a = "readiness.wait" => Did(m, "service.start")
      BY <1>3, <1>4, <2>2
    <3>2. a = "readiness.wait" => \A x : x \in KeysDone(m, "service.start") <=> x \in StoppedUnits
      BY <1>3, <1>8, <1>9, <2>3, <2>4
    <3>3. a = "readiness.wait" => ~Did(m, "maintenance.exit")
      BY <1>1, <1>3, <2>2
    <3> QED
      BY <3>1, <3>2, <3>3
  <2>14. a = "maintenance.exit" => Did(m, "readiness.wait") /\ ~Did(m, "maintenance.exit")
    BY <1>1, <1>3, <1>4, <2>2 DEF BACKUP_ONCE
  <2>15. a = "evidence.write" => Did(m, "maintenance.exit")
    <3>1. PICK x \in DOMAIN ops : ops[x].action = "maintenance.exit"
      BY <1>4 DEF BACKUP_ONCE
    <3>2. a = "evidence.write" => n = Len(ops) /\ x # n
      BY <1>2, <1>3, <3>1 DEF BACKUP_ONCE
    <3> QED
      BY <1>1, <2>2, <3>1, <3>2
  <2> QED
    BY <2>5, <2>6, <2>7, <2>8, <2>9, <2>10, <2>11, <2>12, <2>13, <2>14, <2>15
       DEF BackupStepSafe, m
<1>12. Did(Len(ops), "evidence.write")
  BY <1>1, <1>2 DEF Did
<1> QED
  BY <1>11, <1>12 DEF ExecutionSafe, BackupComplete

\* A plan that can be executed to its end is one the validator accepts: each step
\* asks for the ones it needs, down to the first.
LEMMA SafeBackupIsAccepted ==
  ASSUME Flow("backup"), kind = "backup", ExecutionSafe
  PROVE  ops # << >> /\ BackupComplete /\ BackupFlowOrdered(ops)
<1>1. Len(ops) \in Nat /\ DOMAIN ops = 1 .. Len(ops)
  BY SeqDomain DEF Flow
<1>2. \A n \in DOMAIN ops : BackupStepSafe(n)
  BY DEF ExecutionSafe
<1>3. \A n \in DOMAIN ops : \A b :
        Did(n - 1, b) <=> \E i \in DOMAIN ops : i < n /\ ops[i].action = b
  <2> TAKE n \in DOMAIN ops
  <2> TAKE b
  <2>1. \A i : i \in 1 .. n - 1 <=> i \in DOMAIN ops /\ i < n
    BY <1>1
  <2> QED
    BY <2>1 DEF Did
<1>4. \A n \in DOMAIN ops : \A b, x :
        x \in KeysDone(n - 1, b) <=> \E i \in DOMAIN ops : i < n /\ ops[i].action = b /\ ops[i].key = x
  <2> TAKE n \in DOMAIN ops
  <2> TAKE b, x
  <2>1. \A i : i \in 1 .. n - 1 <=> i \in DOMAIN ops /\ i < n
    BY <1>1
  <2> QED
    BY <2>1 DEF KeysDone
<1>5. \A x : x \in StoppedUnits <=> \E i \in DOMAIN ops : ops[i].action = "service.stop" /\ ops[i].key = x
  BY <1>1 DEF StoppedUnits, KeysDone

\* No step is repeated.
<1>6. \A i, j \in DOMAIN ops :
        ops[i].action = ops[j].action /\ ops[i].key = ops[j].key /\ ops[i].action # "readiness.wait"
          => i = j
  <2>1. ASSUME NEW i \in DOMAIN ops, NEW j \in DOMAIN ops, i < j,
               ops[i].action = ops[j].action, ops[i].key = ops[j].key
        PROVE  <<ops[j].action, ops[j].key>> \in Done(j - 1)
    BY <1>1, <2>1 DEF Done
  <2>2. \A n \in DOMAIN ops :
          ops[n].action # "readiness.wait" => <<ops[n].action, ops[n].key>> \notin Done(n - 1)
    BY <1>2 DEF BackupStepSafe
  <2>3. \A i, j \in DOMAIN ops :
          ops[i].action = ops[j].action /\ ops[i].key = ops[j].key /\ ops[j].action # "readiness.wait"
            => ~(i < j)
    BY <2>1, <2>2
  <2>4. \A i, j \in DOMAIN ops : ~(i < j) /\ ~(j < i) => i = j
    BY <1>1
  <2> QED
    BY <2>3, <2>4
<1>7. \A i, j \in DOMAIN ops : ops[i].action = ops[j].action /\ ops[i].action \in BACKUP_ONCE => i = j
  BY <1>6 DEF Flow, FlowStep, Once, BACKUP_ONCE

\* What each step asks for.
<1>8. ASSUME NEW n \in DOMAIN ops
      PROVE  /\ ops[n].action = "maintenance.enter" <=> n = 1
             /\ \A i \in DOMAIN ops : ops[i].action = "evidence.write" => i >= n
             /\ ops[n].action = "service.stop" =>
                  \A i \in DOMAIN ops : ops[i].action = "staging.build" => i >= n
             /\ ops[n].action = "snapshot.create" =>
                  /\ \E i \in DOMAIN ops : i < n /\ ops[i].action = "staging.build"
                  /\ ops[n].key \in Members(DestinationNames)
             /\ ops[n].action = "retention.apply" =>
                  \E i \in DOMAIN ops :
                    i < n /\ ops[i].action = "snapshot.create" /\ ops[i].key = ops[n].key
             /\ ops[n].action = "service.start" =>
                  /\ \E i \in DOMAIN ops :
                       i < n /\ ops[i].action = "service.stop" /\ ops[i].key = ops[n].key
                  /\ \A x : x \in Members(DestinationNames)
                       <=> \E i \in DOMAIN ops :
                             i < n /\ ops[i].action = "retention.apply" /\ ops[i].key = x
                  /\ \A i \in DOMAIN ops : ops[i].action = "readiness.wait" => i >= n
             /\ ops[n].action = "readiness.wait" =>
                  /\ \E i \in DOMAIN ops : i < n /\ ops[i].action = "service.start"
                  /\ \A x : x \in StoppedUnits
                       <=> \E i \in DOMAIN ops :
                             i < n /\ ops[i].action = "service.start" /\ ops[i].key = x
                  /\ \A i \in DOMAIN ops : ops[i].action = "maintenance.exit" => i >= n
             /\ ops[n].action = "maintenance.exit" =>
                  \E i \in DOMAIN ops : i < n /\ ops[i].action = "readiness.wait"
             /\ ops[n].action = "evidence.write" =>
                  \E i \in DOMAIN ops : i < n /\ ops[i].action = "maintenance.exit"
  <2> DEFINE m == n - 1
  <2>1. /\ \A b : Did(m, b) <=> \E i \in DOMAIN ops : i < n /\ ops[i].action = b
        /\ \A b, x : x \in KeysDone(m, b)
                       <=> \E i \in DOMAIN ops : i < n /\ ops[i].action = b /\ ops[i].key = x
        /\ m = 0 <=> n = 1
        /\ \A i \in DOMAIN ops : ~(i < n) <=> i >= n
    BY <1>1, <1>3, <1>4
  <2>2. BackupStepSafe(n)
    BY <1>2
  <2>3. /\ ops[n].action = "maintenance.enter" <=> m = 0
        /\ ~Did(m, "evidence.write")
        /\ ops[n].action = "service.stop" => ~Did(m, "staging.build")
        /\ ops[n].action = "snapshot.create" =>
             Did(m, "staging.build") /\ ops[n].key \in Members(DestinationNames)
        /\ ops[n].action = "retention.apply" => ops[n].key \in KeysDone(m, "snapshot.create")
        /\ ops[n].action = "service.start" =>
             /\ ops[n].key \in KeysDone(m, "service.stop")
             /\ KeysDone(m, "retention.apply") = Members(DestinationNames)
             /\ ~Did(m, "readiness.wait")
        /\ ops[n].action = "readiness.wait" =>
             /\ Did(m, "service.start") /\ KeysDone(m, "service.start") = StoppedUnits
             /\ ~Did(m, "maintenance.exit")
        /\ ops[n].action = "maintenance.exit" => Did(m, "readiness.wait")
        /\ ops[n].action = "evidence.write" => Did(m, "maintenance.exit")
    BY <2>2 DEF BackupStepSafe
  <2> HIDE DEF m
  <2> QED
    BY <2>1, <2>3
<1>9. PICK e \in DOMAIN ops : ops[e].action = "evidence.write"
  BY <1>1 DEF ExecutionSafe, Did
<1>10. PICK x \in DOMAIN ops : x < e /\ ops[x].action = "maintenance.exit"
  BY <1>8, <1>9
<1>11. PICK r \in DOMAIN ops : r < x /\ ops[r].action = "readiness.wait"
  BY <1>8, <1>10
<1>12. PICK s \in DOMAIN ops : s < r /\ ops[s].action = "service.start"
  BY <1>8, <1>11
<1>13. PICK t \in DOMAIN ops : t < s /\ ops[t].action = "service.stop"
  BY <1>8, <1>12
<1>14. \A d \in Members(DestinationNames) : \E i \in DOMAIN ops :
         i < s /\ ops[i].action = "retention.apply" /\ ops[i].key = d
  BY <1>8, <1>12
<1>15. \A d \in Members(DestinationNames) : \E i \in DOMAIN ops :
         i < s /\ ops[i].action = "snapshot.create" /\ ops[i].key = d
  <2> TAKE d \in Members(DestinationNames)
  <2>1. PICK i \in DOMAIN ops : i < s /\ ops[i].action = "retention.apply" /\ ops[i].key = d
    BY <1>14
  <2>2. PICK j \in DOMAIN ops : j < i /\ ops[j].action = "snapshot.create" /\ ops[j].key = d
    BY <1>8, <2>1
  <2> QED
    BY <1>1, <2>1, <2>2
<1>16. PICK b \in DOMAIN ops : b < s /\ ops[b].action = "staging.build"
  <2>1. PICK d : d \in Members(DestinationNames)
    BY NamesListed
  <2>2. PICK i \in DOMAIN ops : i < s /\ ops[i].action = "snapshot.create"
    BY <1>15, <2>1
  <2> QED
    BY <1>1, <1>8, <2>2
<1>17. 1 \in DOMAIN ops /\ ops[1].action = "maintenance.enter" /\ ops # << >>
  <2>1. 1 \in DOMAIN ops
    BY <1>1, <1>9
  <2> QED
    BY <1>8, <2>1
<1>18. Len(ops) \in DOMAIN ops /\ ops[Len(ops)].action = "evidence.write"
  <2>1. Len(ops) \in DOMAIN ops /\ e <= Len(ops)
    BY <1>1, <1>9
  <2>2. Len(ops) <= e
    BY <1>1, <1>8, <1>9, <2>1
  <2> QED
    BY <1>1, <1>9, <2>1, <2>2

\* Everything is there, once.
<1>19. \A a \in BACKUP_ONCE :
         /\ \E i \in DOMAIN ops : ops[i].action = a
         /\ \A i, j \in DOMAIN ops : ops[i].action = a /\ ops[j].action = a => i = j
  BY <1>7, <1>9, <1>10, <1>16, <1>17 DEF BACKUP_ONCE
<1>20. \A a \in {"snapshot.create", "retention.apply", "service.stop", "service.start"} : KeysApart(ops, a)
  BY <1>6 DEF KeysApart
<1>21. KeysOf(ops, "snapshot.create") = Members(DestinationNames)
  <2>1. \A k : k \in KeysOf(ops, "snapshot.create") <=> k \in Members(DestinationNames)
    BY <1>8, <1>15 DEF KeysOf, indicesOfAction
  <2> QED
    BY <2>1
<1>22. KeysOf(ops, "retention.apply") = Members(DestinationNames)
  <2>1. \A i \in DOMAIN ops : ops[i].action = "retention.apply" => ops[i].key \in Members(DestinationNames)
    BY <1>8
  <2>2. \A k : k \in KeysOf(ops, "retention.apply") <=> k \in Members(DestinationNames)
    BY <1>14, <2>1 DEF KeysOf, indicesOfAction
  <2> QED
    BY <2>2
<1>23. KeysOf(ops, "service.start") = KeysOf(ops, "service.stop")
  <2>1. \A k : k \in StoppedUnits <=> k \in KeysOf(ops, "service.stop")
    BY <1>5 DEF KeysOf, indicesOfAction
  <2>2. \A k : k \in StoppedUnits => k \in KeysOf(ops, "service.start")
    BY <1>8, <1>11 DEF KeysOf, indicesOfAction
  <2>3. \A k : k \in KeysOf(ops, "service.start") => k \in KeysOf(ops, "service.stop")
    BY <1>8 DEF KeysOf, indicesOfAction
  <2> QED
    BY <2>1, <2>2, <2>3
<1>24. BackupComplete
  BY <1>11, <1>12, <1>13, <1>19, <1>20, <1>21, <1>22, <1>23 DEF BackupComplete, ExecutionSafe

\* Everything is where its needs put it.
<1>25. ASSUME NEW i \in DOMAIN ops, NEW j \in DOMAIN ops,
              ops[i].action \in {"snapshot.create", "retention.apply"}, ops[j].action = "service.start"
       PROVE  i < j
  <2>1. ops[i].key \in Members(DestinationNames)
    BY <1>8, <1>25
  <2>2. PICK k \in DOMAIN ops : k < j /\ ops[k].action = "retention.apply" /\ ops[k].key = ops[i].key
    <3>1. \A d : d \in Members(DestinationNames)
             <=> \E n \in DOMAIN ops : n < j /\ ops[n].action = "retention.apply" /\ ops[n].key = d
      BY <1>8, <1>25
    <3> QED
      BY <2>1, <3>1
  <2>3. CASE ops[i].action = "retention.apply"
    BY <1>6, <2>2, <2>3
  <2>4. CASE ops[i].action = "snapshot.create"
    <3>1. PICK l \in DOMAIN ops : l < k /\ ops[l].action = "snapshot.create" /\ ops[l].key = ops[i].key
      BY <1>8, <2>2
    <3>2. l = i
      BY <1>6, <2>4, <3>1
    <3> QED
      BY <1>1, <2>2, <3>1, <3>2
  <2> QED
    BY <1>25, <2>3, <2>4
<1>26. ASSUME NEW i \in DOMAIN ops, NEW j \in DOMAIN ops
       PROVE  /\ ops[i].action = "maintenance.enter" /\ ops[j].action = "staging.build" => i < j
              /\ ops[i].action = "service.stop" /\ ops[j].action = "staging.build" => i < j
              /\ ops[i].action = "staging.build" /\ ops[j].action = "snapshot.create" => i < j
              /\ ops[i].action = "snapshot.create" /\ ops[j].action = "retention.apply"
                   /\ ops[i].key = ops[j].key => i < j
              /\ ops[i].action \in {"snapshot.create", "retention.apply"}
                   /\ ops[j].action = "service.start" => i < j
              /\ ops[i].action = "service.start" /\ ops[j].action = "readiness.wait" => i < j
              /\ ops[i].action = "readiness.wait" /\ ops[j].action = "maintenance.exit" => i < j
              /\ ops[i].action \in {"snapshot.create", "retention.apply"}
                   /\ ops[j].action = "maintenance.exit" => i < j
  <2>1. ops[i].action = "maintenance.enter" /\ ops[j].action = "staging.build" => i < j
    BY <1>1, <1>8
  <2>2. ops[i].action = "service.stop" /\ ops[j].action = "staging.build" => i < j
    BY <1>1, <1>8
  <2>3. ops[i].action = "staging.build" /\ ops[j].action = "snapshot.create" => i < j
    BY <1>7, <1>8 DEF BACKUP_ONCE
  <2>4. ops[i].action = "snapshot.create" /\ ops[j].action = "retention.apply"
          /\ ops[i].key = ops[j].key => i < j
    BY <1>6, <1>8
  <2>5. ops[i].action \in {"snapshot.create", "retention.apply"} /\ ops[j].action = "service.start" => i < j
    BY <1>25
  <2>6. ops[i].action = "service.start" /\ ops[j].action = "readiness.wait" => i < j
    BY <1>1, <1>8
  <2>7. ops[i].action = "readiness.wait" /\ ops[j].action = "maintenance.exit" => i < j
    BY <1>1, <1>8
  <2>8. ASSUME ops[i].action \in {"snapshot.create", "retention.apply"}, ops[j].action = "maintenance.exit"
        PROVE  i < j
    <3>1. x = j
      BY <1>7, <1>10, <2>8 DEF BACKUP_ONCE
    <3>2. i < s
      <4>1. ops[s].action = "service.start"
        BY <1>12
      <4> QED
        BY <1>25, <2>8, <4>1
    <3> QED
      BY <1>1, <1>11, <1>12, <3>1, <3>2
  <2> QED
    BY <2>1, <2>2, <2>3, <2>4, <2>5, <2>6, <2>7, <2>8
<1>27. BackupFlowOrdered(ops)
  BY <1>17, <1>18, <1>26 DEF BackupFlowOrdered, Precede, KeyedPrecede, indicesOfAction, IndicesOf
<1> QED
  BY <1>17, <1>24, <1>27

\* RestoreFlowComplete() in terms of positions and keys.
RestoreComplete ==
  /\ \A a \in RESTORE_ONCE :
       /\ \E i \in DOMAIN ops : ops[i].action = a
       /\ \A i, j \in DOMAIN ops : ops[i].action = a /\ ops[j].action = a => i = j
  /\ \A a \in {"service.start", "readiness.wait"} : \E i \in DOMAIN ops : ops[i].action = a
  /\ KeysApart(ops, "service.start")
  /\ KeysApart(ops, "network.create") /\ KeysOf(ops, "network.create") = Members(NetworkNames)
  /\ KeysApart(ops, "volume.create") /\ KeysOf(ops, "volume.create") = Members(Volumes)
  /\ KeysApart(ops, "data.restore") /\ KeysOf(ops, "data.restore") = Members(Volumes)
  /\ \A i, j \in DOMAIN ops : i # j => ops[i].id # ops[j].id

\* A plan is complete exactly when this holds of its operations.
LEMMA RestoreCompleteness ==
  ASSUME Flow("restore"), NEW s
  PROVE  RestoreFlowComplete(PlanDoc("restore", s, ops)) <=> RestoreComplete
<1> DEFINE p == PlanDoc("restore", s, ops)
<1>1. p.operations = ops /\ p.networks = NetworkNames /\ p.consistencySet = Volumes
  BY ReviewedPlanFields
<1> HIDE DEF p
<1>2. Listed(ops) /\ DOMAIN ops = 1 .. Len(ops)
  BY SeqDomain DEF Flow
<1>3. /\ Listed(NetworkNames) /\ ~hasDuplicates(NetworkNames)
      /\ Listed(Volumes) /\ ~hasDuplicates(Volumes)
  BY NamesListed
<1>4. \A a \in RESTORE_ONCE :
        Cardinality(indicesOfAction(ops, a)) = 1
          <=> /\ \E i \in DOMAIN ops : ops[i].action = a
              /\ \A i, j \in DOMAIN ops : ops[i].action = a /\ ops[j].action = a => i = j
  BY <1>2, OnePosition
<1>5. \A a : indicesOfAction(ops, a) # {} <=> \E i \in DOMAIN ops : ops[i].action = a
  BY DEF indicesOfAction
<1>6. \A a : /\ OneEach(ops, a, NetworkNames)
                  <=> KeysApart(ops, a) /\ KeysOf(ops, a) = Members(NetworkNames)
             /\ OneEach(ops, a, Volumes) <=> KeysApart(ops, a) /\ KeysOf(ops, a) = Members(Volumes)
  BY <1>2, <1>3, OneForEach
<1>7. ~hasDuplicates(keysOf(ops, "service.start")) <=> KeysApart(ops, "service.start")
  BY <1>2, KeyList
<1>8. ~hasDuplicates([i \in DOMAIN ops |-> ops[i].id])
        <=> \A i, j \in DOMAIN ops : i # j => ops[i].id # ops[j].id
  BY DEF hasDuplicates
<1>9. RestoreFlowComplete(p)
        <=> /\ \A a \in RESTORE_ONCE : Cardinality(indicesOfAction(ops, a)) = 1
            /\ \A a \in {"service.start", "readiness.wait"} : indicesOfAction(ops, a) # {}
            /\ ~hasDuplicates(keysOf(ops, "service.start"))
            /\ OneEach(ops, "network.create", NetworkNames)
            /\ OneEach(ops, "volume.create", Volumes)
            /\ OneEach(ops, "data.restore", Volumes)
            /\ ~hasDuplicates([i \in DOMAIN ops |-> ops[i].id])
  BY <1>1, <1>3 DEF RestoreFlowComplete
<1>10. (\A a \in RESTORE_ONCE : Cardinality(indicesOfAction(ops, a)) = 1)
         <=> \A a \in RESTORE_ONCE :
               /\ \E i \in DOMAIN ops : ops[i].action = a
               /\ \A i, j \in DOMAIN ops : ops[i].action = a /\ ops[j].action = a => i = j
  BY <1>4
<1>11. RestoreFlowComplete(p) <=> RestoreComplete
  BY <1>5, <1>6, <1>7, <1>8, <1>9, <1>10 DEF RestoreComplete
<1> QED
  BY <1>11 DEF p

\* A restore that the validator accepts is safe at every step.
LEMMA AcceptedRestoreIsSafe ==
  ASSUME Flow("restore"), kind = "restore", RestoreComplete, ops # << >>, RestoreFlowOrdered(ops)
  PROVE  ExecutionSafe
<1>1. Len(ops) \in Nat /\ DOMAIN ops = 1 .. Len(ops) /\ Len(ops) # 0
  BY SeqDomain DEF Flow, IsSeq
<1>2. /\ 1 \in DOMAIN ops /\ ops[1].action = "runner.install"
      /\ Len(ops) \in DOMAIN ops /\ ops[Len(ops)].action = "evidence.write"
  BY <1>1 DEF RestoreFlowOrdered
<1> DEFINE Verifies == {"manifest.verify", "database.integrity-check"}
           Provides == {"config.restore", "secret.materialize", "state.restore"}
<1>3. \A i, j \in DOMAIN ops :
        /\ ops[i].action = ops[j].action /\ ops[i].action \in RESTORE_ONCE => i = j
        /\ ops[i].action = "target.verify-clean" /\ ops[j].action = "snapshot.verify" => i < j
        /\ ops[i].action = "snapshot.verify" /\ ops[j].action = "network.create" => i < j
        /\ ops[i].action = "network.create" /\ ops[j].action = "volume.create" => i < j
        /\ ops[i].action = "volume.create" /\ ops[j].action = "data.restore"
             /\ ops[i].key = ops[j].key => i < j
        /\ ops[i].action = "data.restore" /\ ops[j].action \in Verifies => i < j
        /\ ops[i].action \in Verifies /\ ops[j].action = "checkpoint.data-restored" => i < j
        /\ ops[i].action = "checkpoint.data-restored" /\ ops[j].action \in Provides => i < j
        /\ ops[i].action \in Provides /\ ops[j].action = "service.start" => i < j
        /\ ops[i].action = "service.start" /\ ops[j].action = "readiness.wait" => i < j
  BY DEF RestoreComplete, RestoreFlowOrdered, Precede, KeyedPrecede, indicesOfAction, IndicesOf
<1>4. \A a \in RESTORE_ONCE \cup {"service.start", "readiness.wait"} :
        \E i \in DOMAIN ops : ops[i].action = a
  BY DEF RestoreComplete
<1>5. \A a \in {"volume.create", "data.restore"} : \A v :
        v \in Members(Volumes) <=> \E i \in DOMAIN ops : ops[i].action = a /\ ops[i].key = v
  <2>1. \A a \in {"volume.create", "data.restore"} : KeysOf(ops, a) = Members(Volumes)
    BY DEF RestoreComplete
  <2>2. \A a, v : v \in KeysOf(ops, a) <=> \E i \in DOMAIN ops : ops[i].action = a /\ ops[i].key = v
    BY DEF KeysOf, indicesOfAction
  <2> QED
    BY <2>1, <2>2
<1>6. \A v : v \in Members(NetworkNames)
               <=> \E i \in DOMAIN ops : ops[i].action = "network.create" /\ ops[i].key = v
  <2>1. KeysOf(ops, "network.create") = Members(NetworkNames)
    BY DEF RestoreComplete
  <2>2. \A v : v \in KeysOf(ops, "network.create")
                 <=> \E i \in DOMAIN ops : ops[i].action = "network.create" /\ ops[i].key = v
    BY DEF KeysOf, indicesOfAction
  <2> QED
    BY <2>1, <2>2
<1>7. \A i, j \in DOMAIN ops :
        ops[i].action = ops[j].action /\ ops[i].key = ops[j].key /\ ops[i].action # "readiness.wait"
          => i = j
  BY <1>3 DEF RestoreComplete, KeysApart, Flow, FlowStep, FlowActions
<1>8. ASSUME NEW n \in DOMAIN ops
      PROVE  RestoreStepSafe(n)
  <2> DEFINE m == n - 1
             a == ops[n].action
             k == ops[n].key
  <2>1. m \in Nat /\ 1 .. m \subseteq DOMAIN ops /\ \A i \in DOMAIN ops : i < n <=> i \in 1 .. m
    BY <1>1
  <2> HIDE DEF m
  <2>2. \A b : Did(m, b) <=> \E i \in DOMAIN ops : i < n /\ ops[i].action = b
    BY <2>1 DEF Did
  <2>3. \A b, x : x \in KeysDone(m, b)
                    <=> \E i \in DOMAIN ops : i < n /\ ops[i].action = b /\ ops[i].key = x
    BY <2>1 DEF KeysDone
  <2>4. a = "runner.install" <=> m = 0
    BY <1>1, <1>2, <1>3 DEF m, RESTORE_ONCE
  <2>5. a # "readiness.wait" => <<a, k>> \notin Done(m)
    BY <1>1, <1>7, <2>1 DEF Done, m
  <2>6. ~Did(m, "evidence.write")
    BY <1>1, <1>2, <1>3, <2>2 DEF RESTORE_ONCE
  <2>7. a = "snapshot.verify" => Did(m, "target.verify-clean")
    BY <1>3, <1>4, <2>2 DEF RESTORE_ONCE
  <2>8. a = "network.create" => /\ Did(m, "snapshot.verify") /\ ~Did(m, "volume.create")
                                /\ k \in Members(NetworkNames)
    <3>1. a = "network.create" => Did(m, "snapshot.verify")
      BY <1>3, <1>4, <2>2 DEF RESTORE_ONCE
    <3>2. a = "network.create" => ~Did(m, "volume.create")
      BY <1>1, <1>3, <2>2
    <3> QED
      BY <1>6, <3>1, <3>2
  <2>9. a = "volume.create" => /\ KeysDone(m, "network.create") = Members(NetworkNames)
                               /\ k \in Members(Volumes)
    <3>1. a = "volume.create" =>
            \A x : x \in KeysDone(m, "network.create") <=> x \in Members(NetworkNames)
      BY <1>3, <1>6, <2>3
    <3> QED
      BY <1>5, <3>1
  <2>10. a = "data.restore" => k \in KeysDone(m, "volume.create")
    <3> SUFFICES ASSUME a = "data.restore"
                 PROVE  k \in KeysDone(m, "volume.create")
      OBVIOUS
    <3>1. k \in Members(Volumes)
      BY <1>5
    <3>2. PICK i \in DOMAIN ops : ops[i].action = "volume.create" /\ ops[i].key = k
      BY <1>5, <3>1
    <3> QED
      BY <1>3, <2>3, <3>2
  <2>11. a \in Verifies => KeysDone(m, "data.restore") = Members(Volumes)
    <3>1. a \in Verifies => \A x : x \in KeysDone(m, "data.restore") <=> x \in Members(Volumes)
      BY <1>3, <1>5, <2>3
    <3> QED
      BY <3>1
  <2>12. a = "checkpoint.data-restored" =>
           Did(m, "manifest.verify") /\ Did(m, "database.integrity-check")
    BY <1>3, <1>4, <2>2 DEF RESTORE_ONCE
  <2>13. a \in Provides => Did(m, "checkpoint.data-restored")
    BY <1>3, <1>4, <2>2 DEF RESTORE_ONCE
  <2>14. a = "service.start" => (\A b \in Provides : Did(m, b)) /\ ~Did(m, "readiness.wait")
    <3>1. a = "service.start" => \A b \in Provides : Did(m, b)
      BY <1>3, <1>4, <2>2 DEF RESTORE_ONCE
    <3>2. a = "service.start" => ~Did(m, "readiness.wait")
      BY <1>1, <1>3, <2>2
    <3> QED
      BY <3>1, <3>2
  <2>15. a = "readiness.wait" => Did(m, "service.start")
    BY <1>3, <1>4, <2>2
  <2>16. a = "evidence.write" => Did(m, "readiness.wait")
    <3>1. PICK r \in DOMAIN ops : ops[r].action = "readiness.wait"
      BY <1>4
    <3>2. a = "evidence.write" => n = Len(ops) /\ r # n
      BY <1>2, <1>3, <3>1 DEF RESTORE_ONCE
    <3> QED
      BY <1>1, <2>2, <3>1, <3>2
  <2> QED
    BY <2>4, <2>5, <2>6, <2>7, <2>8, <2>9, <2>10, <2>11, <2>12, <2>13, <2>14, <2>15, <2>16
       DEF RestoreStepSafe, m
<1>9. Did(Len(ops), "evidence.write")
  BY <1>1, <1>2 DEF Did
<1> QED
  BY <1>8, <1>9 DEF ExecutionSafe, RestoreComplete

\* A restore that can be executed to its end is one the validator accepts.
LEMMA SafeRestoreIsAccepted ==
  ASSUME Flow("restore"), kind = "restore", ExecutionSafe
  PROVE  ops # << >> /\ RestoreComplete /\ RestoreFlowOrdered(ops)
<1>1. Len(ops) \in Nat /\ DOMAIN ops = 1 .. Len(ops)
  BY SeqDomain DEF Flow
<1> DEFINE Verifies == {"manifest.verify", "database.integrity-check"}
           Provides == {"config.restore", "secret.materialize", "state.restore"}
<1>2. \A n \in DOMAIN ops : RestoreStepSafe(n)
  BY DEF ExecutionSafe

\* No step is repeated.
<1>3. \A i, j \in DOMAIN ops :
        ops[i].action = ops[j].action /\ ops[i].key = ops[j].key /\ ops[i].action # "readiness.wait"
          => i = j
  <2>1. ASSUME NEW i \in DOMAIN ops, NEW j \in DOMAIN ops, i < j,
               ops[i].action = ops[j].action, ops[i].key = ops[j].key
        PROVE  <<ops[j].action, ops[j].key>> \in Done(j - 1)
    BY <1>1, <2>1 DEF Done
  <2>2. \A n \in DOMAIN ops :
          ops[n].action # "readiness.wait" => <<ops[n].action, ops[n].key>> \notin Done(n - 1)
    BY <1>2 DEF RestoreStepSafe
  <2>3. \A i, j \in DOMAIN ops :
          ops[i].action = ops[j].action /\ ops[i].key = ops[j].key /\ ops[j].action # "readiness.wait"
            => ~(i < j)
    BY <2>1, <2>2
  <2>4. \A i, j \in DOMAIN ops : ~(i < j) /\ ~(j < i) => i = j
    BY <1>1
  <2> QED
    BY <2>3, <2>4
<1>4. \A i, j \in DOMAIN ops : ops[i].action = ops[j].action /\ ops[i].action \in RESTORE_ONCE => i = j
  BY <1>3 DEF Flow, FlowStep, Once, RESTORE_ONCE

\* What each step asks for.
<1> DEFINE Before(n, b) == \E i \in DOMAIN ops : i < n /\ ops[i].action = b
           BeforeFor(n, b, x) == \E i \in DOMAIN ops : i < n /\ ops[i].action = b /\ ops[i].key = x
           NotBefore(n, b) == \A i \in DOMAIN ops : ops[i].action = b => i >= n
<1>5. ASSUME NEW n \in DOMAIN ops
      PROVE  /\ ops[n].action = "runner.install" <=> n = 1
             /\ NotBefore(n, "evidence.write")
             /\ ops[n].action = "snapshot.verify" => Before(n, "target.verify-clean")
             /\ ops[n].action = "network.create" =>
                  /\ Before(n, "snapshot.verify") /\ NotBefore(n, "volume.create")
                  /\ ops[n].key \in Members(NetworkNames)
             /\ ops[n].action = "volume.create" =>
                  /\ \A x : x \in Members(NetworkNames) <=> BeforeFor(n, "network.create", x)
                  /\ ops[n].key \in Members(Volumes)
             /\ ops[n].action = "data.restore" => BeforeFor(n, "volume.create", ops[n].key)
             /\ ops[n].action \in Verifies =>
                  \A x : x \in Members(Volumes) <=> BeforeFor(n, "data.restore", x)
             /\ ops[n].action = "checkpoint.data-restored" => \A b \in Verifies : Before(n, b)
             /\ ops[n].action \in Provides => Before(n, "checkpoint.data-restored")
             /\ ops[n].action = "service.start" =>
                  (\A b \in Provides : Before(n, b)) /\ NotBefore(n, "readiness.wait")
             /\ ops[n].action = "readiness.wait" => Before(n, "service.start")
             /\ ops[n].action = "evidence.write" => Before(n, "readiness.wait")
  <2> DEFINE m == n - 1
  <2>0. \A i : i \in 1 .. m <=> i \in DOMAIN ops /\ i < n
    BY <1>1
  <2>1. /\ \A b : Did(m, b) <=> Before(n, b)
        /\ \A b, x : x \in KeysDone(m, b) <=> BeforeFor(n, b, x)
        /\ m = 0 <=> n = 1
        /\ \A i \in DOMAIN ops : ~(i < n) <=> i >= n
    <3>1. \A b : Did(m, b) <=> Before(n, b)
      BY <2>0 DEF Did
    <3>2. \A b, x : x \in KeysDone(m, b) <=> BeforeFor(n, b, x)
      BY <2>0 DEF KeysDone
    <3> QED
      BY <1>1, <3>1, <3>2
  <2>2. RestoreStepSafe(n)
    BY <1>2
  <2>3. /\ ops[n].action = "runner.install" <=> m = 0
        /\ ~Did(m, "evidence.write")
        /\ ops[n].action = "snapshot.verify" => Did(m, "target.verify-clean")
        /\ ops[n].action = "network.create" =>
             /\ Did(m, "snapshot.verify") /\ ~Did(m, "volume.create")
             /\ ops[n].key \in Members(NetworkNames)
        /\ ops[n].action = "volume.create" =>
             KeysDone(m, "network.create") = Members(NetworkNames) /\ ops[n].key \in Members(Volumes)
        /\ ops[n].action = "data.restore" => ops[n].key \in KeysDone(m, "volume.create")
        /\ ops[n].action \in Verifies => KeysDone(m, "data.restore") = Members(Volumes)
        /\ ops[n].action = "checkpoint.data-restored" => \A b \in Verifies : Did(m, b)
        /\ ops[n].action \in Provides => Did(m, "checkpoint.data-restored")
        /\ ops[n].action = "service.start" => (\A b \in Provides : Did(m, b)) /\ ~Did(m, "readiness.wait")
        /\ ops[n].action = "readiness.wait" => Did(m, "service.start")
        /\ ops[n].action = "evidence.write" => Did(m, "readiness.wait")
    BY <2>2 DEF RestoreStepSafe
  <2>4. \A b : ~Did(m, b) <=> NotBefore(n, b)
    BY <2>1
  <2> HIDE DEF m, Before, BeforeFor, NotBefore, Verifies, Provides
  <2> QED
    BY <2>1, <2>3, <2>4
<1>6. PICK e \in DOMAIN ops : ops[e].action = "evidence.write"
  BY <1>1 DEF ExecutionSafe, Did
<1>7. PICK r \in DOMAIN ops : ops[r].action = "readiness.wait"
  BY <1>5, <1>6
<1>8. PICK s \in DOMAIN ops : ops[s].action = "service.start"
  BY <1>5, <1>7
<1>9. \A b \in Provides : \E i \in DOMAIN ops : ops[i].action = b
  BY <1>5, <1>8
<1>10. PICK c \in DOMAIN ops : ops[c].action = "checkpoint.data-restored"
  BY <1>5, <1>9
<1>11. \A b \in Verifies : \E i \in DOMAIN ops : ops[i].action = b
  BY <1>5, <1>10
<1>12. \A v \in Members(Volumes) : \E i \in DOMAIN ops : ops[i].action = "data.restore" /\ ops[i].key = v
  BY <1>5, <1>11
<1>13. \A v \in Members(Volumes) : \E i \in DOMAIN ops : ops[i].action = "volume.create" /\ ops[i].key = v
  <2> TAKE v \in Members(Volumes)
  <2>1. PICK i \in DOMAIN ops : ops[i].action = "data.restore" /\ ops[i].key = v
    BY <1>12
  <2>2. BeforeFor(i, "volume.create", v)
    BY <1>5, <2>1
  <2> QED
    BY <2>2
<1>14. PICK v : v \in Members(Volumes)
  BY NamesListed
<1>15. PICK w \in DOMAIN ops : ops[w].action = "volume.create"
  BY <1>13, <1>14
<1>16. \A x \in Members(NetworkNames) :
         \E i \in DOMAIN ops : ops[i].action = "network.create" /\ ops[i].key = x
  BY <1>5, <1>15
<1>17. PICK x : x \in Members(NetworkNames)
  BY NamesListed
<1>18. PICK y \in DOMAIN ops : ops[y].action = "network.create"
  BY <1>16, <1>17
<1>19. PICK z \in DOMAIN ops : ops[z].action = "snapshot.verify"
  BY <1>5, <1>18
<1>20. \E i \in DOMAIN ops : ops[i].action = "target.verify-clean"
  BY <1>5, <1>19
<1>21. 1 \in DOMAIN ops /\ ops[1].action = "runner.install" /\ ops # << >>
  <2>1. 1 \in DOMAIN ops
    BY <1>1, <1>6
  <2> QED
    BY <1>5, <2>1
<1>22. Len(ops) \in DOMAIN ops /\ ops[Len(ops)].action = "evidence.write"
  <2>1. Len(ops) \in DOMAIN ops /\ e <= Len(ops)
    BY <1>1, <1>6
  <2>2. NotBefore(Len(ops), "evidence.write")
    BY <1>5, <2>1
  <2>3. Len(ops) <= e
    BY <1>1, <1>6, <2>2
  <2> QED
    BY <1>1, <1>6, <2>1, <2>3

\* Everything is there, once.
<1>23. \A a \in RESTORE_ONCE :
         /\ \E i \in DOMAIN ops : ops[i].action = a
         /\ \A i, j \in DOMAIN ops : ops[i].action = a /\ ops[j].action = a => i = j
  <2>1. \A a \in RESTORE_ONCE : \E i \in DOMAIN ops : ops[i].action = a
    BY <1>6, <1>9, <1>10, <1>11, <1>19, <1>20, <1>21 DEF RESTORE_ONCE
  <2> QED
    BY <1>4, <2>1
<1>24. \A a \in {"network.create", "volume.create", "data.restore", "service.start"} : KeysApart(ops, a)
  BY <1>3 DEF KeysApart
<1>25. \A a, k : k \in KeysOf(ops, a) <=> \E i \in DOMAIN ops : ops[i].action = a /\ ops[i].key = k
  BY DEF KeysOf, indicesOfAction
<1>26. KeysOf(ops, "network.create") = Members(NetworkNames)
  <2>1. \A k : k \in KeysOf(ops, "network.create") <=> k \in Members(NetworkNames)
    BY <1>5, <1>16, <1>25
  <2> QED
    BY <2>1
<1>27. KeysOf(ops, "volume.create") = Members(Volumes)
  <2>1. \A k : k \in KeysOf(ops, "volume.create") <=> k \in Members(Volumes)
    BY <1>5, <1>13, <1>25
  <2> QED
    BY <2>1
<1>28. KeysOf(ops, "data.restore") = Members(Volumes)
  <2>1. \A i \in DOMAIN ops : ops[i].action = "data.restore" => ops[i].key \in Members(Volumes)
    <3> TAKE i \in DOMAIN ops
    <3> HAVE ops[i].action = "data.restore"
    <3>1. BeforeFor(i, "volume.create", ops[i].key)
      BY <1>5
    <3> QED
      BY <1>5, <3>1
  <2>2. \A k : k \in KeysOf(ops, "data.restore") <=> k \in Members(Volumes)
    BY <1>12, <1>25, <2>1
  <2> QED
    BY <2>2
<1>29. RestoreComplete
  BY <1>7, <1>8, <1>23, <1>24, <1>26, <1>27, <1>28 DEF RestoreComplete, ExecutionSafe

\* Everything is where its needs put it.
<1>30. ASSUME NEW i \in DOMAIN ops, NEW j \in DOMAIN ops, ops[i].action \in RESTORE_ONCE,
              Before(j, ops[i].action)
       PROVE  i < j
  BY <1>4, <1>30
<1>31. ASSUME NEW i \in DOMAIN ops, NEW j \in DOMAIN ops
       PROVE  /\ ops[i].action = "target.verify-clean" /\ ops[j].action = "snapshot.verify" => i < j
              /\ ops[i].action = "snapshot.verify" /\ ops[j].action = "network.create" => i < j
              /\ ops[i].action \in Verifies /\ ops[j].action = "checkpoint.data-restored" => i < j
              /\ ops[i].action = "checkpoint.data-restored" /\ ops[j].action \in Provides => i < j
              /\ ops[i].action \in Provides /\ ops[j].action = "service.start" => i < j
  <2>1. ops[i].action = "target.verify-clean" /\ ops[j].action = "snapshot.verify" => i < j
    BY <1>5, <1>30 DEF RESTORE_ONCE
  <2>2. ops[i].action = "snapshot.verify" /\ ops[j].action = "network.create" => i < j
    BY <1>5, <1>30 DEF RESTORE_ONCE
  <2>3. ops[i].action \in Verifies /\ ops[j].action = "checkpoint.data-restored" => i < j
    BY <1>5, <1>30 DEF RESTORE_ONCE
  <2>4. ops[i].action = "checkpoint.data-restored" /\ ops[j].action \in Provides => i < j
    BY <1>5, <1>30 DEF RESTORE_ONCE
  <2>5. ops[i].action \in Provides /\ ops[j].action = "service.start" => i < j
    BY <1>5, <1>30 DEF RESTORE_ONCE
  <2> QED
    BY <2>1, <2>2, <2>3, <2>4, <2>5
<1>32. ASSUME NEW i \in DOMAIN ops, NEW j \in DOMAIN ops
       PROVE  /\ ops[i].action = "network.create" /\ ops[j].action = "volume.create" => i < j
              /\ ops[i].action = "service.start" /\ ops[j].action = "readiness.wait" => i < j
              /\ ops[i].action = "volume.create" /\ ops[j].action = "data.restore"
                   /\ ops[i].key = ops[j].key => i < j
              /\ ops[i].action = "data.restore" /\ ops[j].action \in Verifies => i < j
  <2>1. ops[i].action = "network.create" /\ ops[j].action = "volume.create" => i < j
    <3>1. ops[i].action = "network.create" => NotBefore(i, "volume.create")
      BY <1>5
    <3>2. ops[i].action = "network.create" /\ ops[j].action = "volume.create" => i <= j /\ i # j
      BY <1>1, <3>1
    <3> QED
      BY <1>1, <3>2
  <2>2. ops[i].action = "service.start" /\ ops[j].action = "readiness.wait" => i < j
    <3>1. ops[i].action = "service.start" => NotBefore(i, "readiness.wait")
      BY <1>5
    <3>2. ops[i].action = "service.start" /\ ops[j].action = "readiness.wait" => i <= j /\ i # j
      BY <1>1, <3>1
    <3> QED
      BY <1>1, <3>2
  <2>3. ops[i].action = "volume.create" /\ ops[j].action = "data.restore"
          /\ ops[i].key = ops[j].key => i < j
    <3>1. ops[j].action = "data.restore" => BeforeFor(j, "volume.create", ops[j].key)
      BY <1>5
    <3> QED
      BY <1>3, <3>1
  <2>4. ops[i].action = "data.restore" /\ ops[j].action \in Verifies => i < j
    <3>1. ops[i].action = "data.restore" => ops[i].key \in Members(Volumes)
      BY <1>25, <1>28
    <3>2. ops[i].action = "data.restore" /\ ops[j].action \in Verifies
            => BeforeFor(j, "data.restore", ops[i].key)
      BY <1>5, <3>1
    <3> QED
      BY <1>3, <3>2
  <2> QED
    BY <2>1, <2>2, <2>3, <2>4
<1>33. ASSUME NEW i \in DOMAIN ops, NEW j \in DOMAIN ops,
              ops[i].action = "data.restore", ops[j].action = "checkpoint.data-restored"
       PROVE  i < j
  <2>1. Before(j, "manifest.verify")
    BY <1>5, <1>33
  <2>2. PICK k \in DOMAIN ops : k < j /\ ops[k].action = "manifest.verify"
    BY <2>1
  <2>3. i < k
    BY <1>32, <1>33, <2>2
  <2> QED
    BY <1>1, <2>2, <2>3
<1> HIDE DEF Before, BeforeFor, NotBefore
<1>34. RestoreFlowOrdered(ops)
  BY <1>21, <1>22, <1>31, <1>32, <1>33
     DEF RestoreFlowOrdered, Precede, KeyedPrecede, indicesOfAction, IndicesOf
<1> QED
  BY <1>21, <1>29, <1>34

-----------------------------------------------------------------------------
(* The flows of ADR 0006: their operations in the order of their actions.  *)

Rank(k, a) ==
  IF k = "backup"
    THEN CASE a = "maintenance.enter" -> 1 [] a = "service.stop" -> 2
           [] a = "staging.build" -> 3 [] a = "snapshot.create" -> 4
           [] a = "retention.apply" -> 5 [] a = "service.start" -> 6
           [] a = "readiness.wait" -> 7 [] a = "maintenance.exit" -> 8 [] OTHER -> 9
    ELSE CASE a = "runner.install" -> 1 [] a = "target.verify-clean" -> 2
           [] a = "snapshot.verify" -> 3 [] a = "network.create" -> 4
           [] a = "volume.create" -> 5 [] a = "data.restore" -> 6
           [] a = "manifest.verify" -> 7 [] a = "database.integrity-check" -> 8
           [] a = "checkpoint.data-restored" -> 9 [] a = "config.restore" -> 10
           [] a = "secret.materialize" -> 11 [] a = "state.restore" -> 12
           [] a = "service.start" -> 13 [] a = "readiness.wait" -> 14 [] OTHER -> 15

\* A part of a flow: operations of it, with ranks in a range and in their order,
\* none of them twice, each under its own id.
Part(k, s, lo, hi) ==
  /\ IsSeq(s)
  /\ \A i \in DOMAIN s :
       /\ FlowStep(k, s[i]) /\ s[i].id = <<s[i].action, s[i].key>>
       /\ lo <= Rank(k, s[i].action) /\ Rank(k, s[i].action) <= hi
  /\ \A i, j \in DOMAIN s :
       /\ i <= j => Rank(k, s[i].action) <= Rank(k, s[j].action)
       /\ i # j => s[i].id # s[j].id

Does(s, a, k) == \E i \in DOMAIN s : s[i].action = a /\ s[i].key = k

\* Ranks can be compared.
LEMMA RankIsNumber == \A k, a : Rank(k, a) \in Nat
<1> TAKE k, a
<1>1. CASE k = "backup"
  BY <1>1 DEF Rank
<1>2. CASE k # "backup"
  BY <1>2 DEF Rank
<1> QED
  BY <1>1, <1>2

\* Two parts of a flow, one after the other, are a part of it.
LEMMA PartsJoin ==
  ASSUME NEW k, NEW s, NEW t, NEW lo \in Nat, NEW mid \in Nat, NEW hi \in Nat, mid <= hi, lo <= mid,
         NEW next, next = mid + 1, Part(k, s, lo, mid), Part(k, t, next, hi)
  PROVE  /\ Part(k, s \o t, lo, hi)
         /\ \A a, x : Does(s \o t, a, x) <=> Does(s, a, x) \/ Does(t, a, x)
<1> DEFINE u == s \o t
           m == Len(s)
           n == Len(t)
           R(e) == Rank(k, e.action)
<1>1. m \in Nat /\ DOMAIN s = 1 .. m /\ n \in Nat /\ DOMAIN t = 1 .. n
  BY SeqDomain DEF Part
<1>2. /\ IsSeq(u) /\ Len(u) = m + n /\ DOMAIN u = 1 .. m + n
      /\ \A i \in 1 .. m : u[i] = s[i]
      /\ \A i \in m + 1 .. m + n : i - m \in 1 .. n /\ u[i] = t[i - m]
  <2> DEFINE X == Members(s) \cup Members(t)
  <2>1. s \in Seq(Members(s)) /\ t \in Seq(Members(t))
    BY DEF Part, IsSeq, Members
  <2>2. s \in Seq(X) /\ t \in Seq(X)
    BY <1>1, <2>1 DEF Members
  <2> HIDE DEF X
  <2>3. /\ u \in Seq(X) /\ Len(u) = m + n
        /\ \A i \in 1 .. m + n : u[i] = IF i <= m THEN s[i] ELSE t[i - m]
    BY <2>2
  <2>4. DOMAIN u = 1 .. m + n
    BY <2>3
  <2> HIDE DEF u
  <2>5. u \in Seq({u[i] : i \in DOMAIN u})
    BY <2>3
  <2>6. Len(u) = m + n /\ m \in Nat /\ n \in Nat
    BY <1>1, <2>3
  <2>7. \A i \in 1 .. m : u[i] = s[i]
    BY <1>1, <2>3
  <2>8. \A i \in m + 1 .. m + n : i - m \in 1 .. n /\ u[i] = t[i - m]
    BY <1>1, <2>3
  <2> QED
    BY <2>4, <2>5, <2>6, <2>7, <2>8 DEF IsSeq
<1> HIDE DEF u, m, n, R
<1>3. \A i \in 1 .. m : /\ FlowStep(k, s[i]) /\ s[i].id = <<s[i].action, s[i].key>>
                        /\ R(s[i]) \in Nat /\ lo <= R(s[i]) /\ R(s[i]) <= mid
  BY <1>1, RankIsNumber DEF Part, R
<1>4. \A i \in 1 .. n : /\ FlowStep(k, t[i]) /\ t[i].id = <<t[i].action, t[i].key>>
                        /\ R(t[i]) \in Nat /\ mid + 1 <= R(t[i]) /\ R(t[i]) <= hi
  BY <1>1, RankIsNumber DEF Part, R
<1>5. \A i \in DOMAIN u : i \in 1 .. m \/ i \in m + 1 .. m + n
  BY <1>1, <1>2
<1>6. ASSUME NEW i \in DOMAIN u
      PROVE  /\ FlowStep(k, u[i]) /\ u[i].id = <<u[i].action, u[i].key>>
             /\ lo <= R(u[i]) /\ R(u[i]) <= hi
  <2>1. CASE i \in 1 .. m
    BY <1>2, <1>3, <2>1
  <2>2. CASE i \in m + 1 .. m + n
    BY <1>2, <1>4, <2>2
  <2> QED
    BY <1>5, <2>1, <2>2
<1>7. ASSUME NEW i \in DOMAIN u, NEW j \in DOMAIN u
      PROVE  /\ i <= j => R(u[i]) <= R(u[j])
             /\ i # j => u[i].id # u[j].id
  <2>1. CASE i \in 1 .. m /\ j \in 1 .. m
    BY <1>1, <1>2, <2>1 DEF Part, R
  <2>2. CASE i \in m + 1 .. m + n /\ j \in m + 1 .. m + n
    <3>1. i - m \in 1 .. n /\ j - m \in 1 .. n /\ u[i] = t[i - m] /\ u[j] = t[j - m]
      BY <1>2, <2>2
    <3>2. (i <= j => i - m <= j - m) /\ (i # j => i - m # j - m)
      BY <1>1, <2>2
    <3> QED
      BY <1>1, <3>1, <3>2 DEF Part, R
  <2>3. ASSUME NEW p \in 1 .. m, NEW q \in m + 1 .. m + n
        PROVE  /\ p <= q /\ ~(q <= p) /\ R(u[p]) <= R(u[q])
               /\ u[p].id # u[q].id /\ u[q].id # u[p].id
    <3>1. u[p] = s[p] /\ u[q] = t[q - m] /\ q - m \in 1 .. n
      BY <1>2
    <3>2. R(u[p]) < R(u[q])
      BY <1>3, <1>4, <3>1
    <3>3. u[p].id = <<u[p].action, u[p].key>> /\ u[q].id = <<u[q].action, u[q].key>>
      BY <1>3, <1>4, <3>1
    <3>4. u[p].action # u[q].action
      BY <1>3, <1>4, <3>1, <3>2 DEF R
    <3> QED
      BY <1>1, <1>3, <1>4, <3>1, <3>2, <3>3, <3>4
  <2> QED
    BY <1>5, <2>1, <2>2, <2>3
<1>8. Part(k, u, lo, hi)
  BY <1>2, <1>6, <1>7 DEF Part, R
<1>9. ASSUME NEW a, NEW x
      PROVE  Does(u, a, x) <=> Does(s, a, x) \/ Does(t, a, x)
  <2>1. Does(u, a, x) => Does(s, a, x) \/ Does(t, a, x)
    BY <1>1, <1>2, <1>5 DEF Does
  <2>2. \A i \in 1 .. m : i \in DOMAIN u
    BY <1>1, <1>2
  <2>3. \A i \in 1 .. n : i + m \in DOMAIN u /\ u[i + m] = t[i]
    BY <1>1, <1>2
  <2>4. Does(s, a, x) => Does(u, a, x)
    BY <1>1, <1>2, <2>2 DEF Does
  <2>5. Does(t, a, x) => Does(u, a, x)
    BY <1>1, <2>3 DEF Does
  <2> QED
    BY <2>1, <2>4, <2>5
<1> QED
  BY <1>8, <1>9 DEF u

\* An operation the flow has once is a part of it,
LEMMA PartOfOne ==
  ASSUME NEW k, NEW a \in Once(k), NEW r, r = Rank(k, a), Once(k) \subseteq FlowActions(k)
  PROVE  /\ Part(k, <<Step(a, None)>>, r, r)
         /\ \A b, x : Does(<<Step(a, None)>>, b, x) <=> b = a /\ x = None
<1>1. r \in Nat
  BY RankIsNumber
<1>2. /\ Step(a, None).action = a /\ Step(a, None).key = None
      /\ Step(a, None).id = <<a, None>>
  BY DEF Step
<1> DEFINE e == Step(a, None)
<1> HIDE DEF e
<1>3. IsSeq(<<e>>) /\ DOMAIN <<e>> = {1} /\ <<e>>[1] = e
  BY DEF IsSeq
<1>4. FlowStep(k, e) /\ e.action = a /\ e.key = None /\ e.id = <<a, None>>
  BY <1>2 DEF FlowStep, e
<1> QED
  BY <1>1, <1>3, <1>4 DEF Part, Does, e

\* and so are the operations for each name of a list.
LEMMA PartOfEach ==
  ASSUME NEW k, NEW a \in FlowActions(k) \ Once(k), NEW r, r = Rank(k, a),
         NEW names \in {Units, DestinationNames, Volumes, NetworkNames}
  PROVE  /\ Part(k, Each(a, names), r, r)
         /\ \A b, x : Does(Each(a, names), b, x) <=> b = a /\ x \in Members(names)
<1>1. r \in Nat
  BY RankIsNumber
<1>2. IsSeq(names) /\ ~hasDuplicates(names) /\ Len(names) \in Nat /\ DOMAIN names = 1 .. Len(names)
  BY NamesListed, SeqDomain
<1> DEFINE s == Each(a, names)
<1>3. DOMAIN s = 1 .. Len(names) /\ \A i \in 1 .. Len(names) : s[i] = Step(a, names[i])
  BY <1>2 DEF Each
<1>4. \A i \in 1 .. Len(names) :
        s[i].action = a /\ s[i].key = names[i] /\ s[i].id = <<a, names[i]>>
  BY <1>3 DEF Step
<1>5. IsSeq(s)
  <2>1. s = [i \in DOMAIN s |-> s[i]]
    BY DEF Each
  <2> HIDE DEF s
  <2> QED
    BY <1>2, <1>3, <2>1, SeqOf
<1> HIDE DEF s
<1>6. \A i, j \in 1 .. Len(names) : i # j => names[i] # names[j]
  BY <1>2 DEF hasDuplicates
<1>7. \A i \in DOMAIN s : FlowStep(k, s[i])
  BY <1>3, <1>4 DEF FlowStep
<1>8. Part(k, s, r, r)
  BY <1>1, <1>3, <1>4, <1>5, <1>6, <1>7 DEF Part
<1>9. \A b, x : Does(s, b, x) <=> b = a /\ x \in Members(names)
  BY <1>2, <1>3, <1>4 DEF Does, Members
<1> QED
  BY <1>8, <1>9 DEF s

\* The canonical backup, part by part.
LEMMA CanonicalBackup ==
  /\ Part("backup", CanonicalFlow("backup"), 1, 9)
  /\ \A a, x : Does(CanonicalFlow("backup"), a, x)
       <=> \/ a \in BACKUP_ONCE /\ x = None
           \/ a \in {"service.stop", "service.start", "readiness.wait"} /\ x \in Members(Units)
           \/ a \in {"snapshot.create", "retention.apply"} /\ x \in Members(DestinationNames)
<1> DEFINE k == "backup"
           p1 == <<Step("maintenance.enter", None)>>
           p2 == Each("service.stop", Units)
           p3 == <<Step("staging.build", None)>>
           p4 == Each("snapshot.create", DestinationNames)
           p5 == Each("retention.apply", DestinationNames)
           p6 == Each("service.start", Units)
           p7 == Each("readiness.wait", Units)
           p8 == <<Step("maintenance.exit", None)>>
           p9 == <<Step("evidence.write", None)>>
           Only(s, a, x) == \A b, y : Does(s, b, y) <=> b = a /\ y \in x
<1>0. /\ Once(k) = BACKUP_ONCE /\ Once(k) \subseteq FlowActions(k)
      /\ {"service.stop", "snapshot.create", "retention.apply", "service.start", "readiness.wait"}
           \subseteq FlowActions(k) \ Once(k)
  BY DEF Once, FlowActions, BACKUP_ONCE
<1>1. Part(k, p1, 1, 1) /\ Only(p1, "maintenance.enter", {None})
  BY <1>0, PartOfOne DEF Rank, BACKUP_ONCE
<1>2. Part(k, p2, 2, 2) /\ Only(p2, "service.stop", Members(Units))
  BY <1>0, PartOfEach DEF Rank
<1>3. Part(k, p3, 3, 3) /\ Only(p3, "staging.build", {None})
  BY <1>0, PartOfOne DEF Rank, BACKUP_ONCE
<1>4. Part(k, p4, 4, 4) /\ Only(p4, "snapshot.create", Members(DestinationNames))
  BY <1>0, PartOfEach DEF Rank
<1>5. Part(k, p5, 5, 5) /\ Only(p5, "retention.apply", Members(DestinationNames))
  BY <1>0, PartOfEach DEF Rank
<1>6. Part(k, p6, 6, 6) /\ Only(p6, "service.start", Members(Units))
  BY <1>0, PartOfEach DEF Rank
<1>7. Part(k, p7, 7, 7) /\ Only(p7, "readiness.wait", Members(Units))
  BY <1>0, PartOfEach DEF Rank
<1>8. Part(k, p8, 8, 8) /\ Only(p8, "maintenance.exit", {None})
  BY <1>0, PartOfOne DEF Rank, BACKUP_ONCE
<1>9. Part(k, p9, 9, 9) /\ Only(p9, "evidence.write", {None})
  BY <1>0, PartOfOne DEF Rank, BACKUP_ONCE
<1>10. CanonicalFlow("backup")
         = ((((((p1 \o p2) \o p3) \o p4) \o p5) \o p6) \o p7)
             \o <<Step("maintenance.exit", None), Step("evidence.write", None)>>
  BY DEF CanonicalFlow
<1>11. <<Step("maintenance.exit", None), Step("evidence.write", None)>> = p8 \o p9
  OBVIOUS
<1> DEFINE q2 == p1 \o p2
           q3 == q2 \o p3
           q4 == q3 \o p4
           q5 == q4 \o p5
           q6 == q5 \o p6
           q7 == q6 \o p7
           q9 == p8 \o p9
           q == q7 \o q9
<1>12. CanonicalFlow("backup") = q
  BY <1>10, <1>11
<1> HIDE DEF k, p1, p2, p3, p4, p5, p6, p7, p8, p9
<1>22. Part(k, q2, 1, 2) /\ \A a, x : Does(q2, a, x) <=> Does(p1, a, x) \/ Does(p2, a, x)
  BY <1>1, <1>2, PartsJoin
<1> HIDE DEF q2
<1>23. Part(k, q3, 1, 3) /\ \A a, x : Does(q3, a, x) <=> Does(q2, a, x) \/ Does(p3, a, x)
  BY <1>22, <1>3, PartsJoin
<1> HIDE DEF q3
<1>24. Part(k, q4, 1, 4) /\ \A a, x : Does(q4, a, x) <=> Does(q3, a, x) \/ Does(p4, a, x)
  BY <1>23, <1>4, PartsJoin
<1> HIDE DEF q4
<1>25. Part(k, q5, 1, 5) /\ \A a, x : Does(q5, a, x) <=> Does(q4, a, x) \/ Does(p5, a, x)
  BY <1>24, <1>5, PartsJoin
<1> HIDE DEF q5
<1>26. Part(k, q6, 1, 6) /\ \A a, x : Does(q6, a, x) <=> Does(q5, a, x) \/ Does(p6, a, x)
  BY <1>25, <1>6, PartsJoin
<1> HIDE DEF q6
<1>27. Part(k, q7, 1, 7) /\ \A a, x : Does(q7, a, x) <=> Does(q6, a, x) \/ Does(p7, a, x)
  BY <1>26, <1>7, PartsJoin
<1> HIDE DEF q7
<1>28. Part(k, q9, 8, 9) /\ \A a, x : Does(q9, a, x) <=> Does(p8, a, x) \/ Does(p9, a, x)
  BY <1>8, <1>9, PartsJoin
<1> HIDE DEF q9
<1>29. Part(k, q, 1, 9) /\ \A a, x : Does(q, a, x) <=> Does(q7, a, x) \/ Does(q9, a, x)
  BY <1>27, <1>28, PartsJoin
<1> HIDE DEF q
<1>30. \A a, x : Does(q, a, x)
         <=> \/ a \in BACKUP_ONCE /\ x = None
             \/ a \in {"service.stop", "service.start", "readiness.wait"} /\ x \in Members(Units)
             \/ a \in {"snapshot.create", "retention.apply"} /\ x \in Members(DestinationNames)
  BY <1>1, <1>2, <1>3, <1>4, <1>5, <1>6, <1>7, <1>8, <1>9,
     <1>22, <1>23, <1>24, <1>25, <1>26, <1>27, <1>28, <1>29 DEF BACKUP_ONCE
<1> QED
  BY <1>12, <1>29, <1>30 DEF k

\* The canonical restore, part by part.
LEMMA CanonicalRestore ==
  /\ Part("restore", CanonicalFlow("restore"), 1, 15)
  /\ \A a, x : Does(CanonicalFlow("restore"), a, x)
       <=> \/ a \in RESTORE_ONCE /\ x = None
           \/ a \in {"service.start", "readiness.wait"} /\ x \in Members(Units)
           \/ a = "network.create" /\ x \in Members(NetworkNames)
           \/ a \in {"volume.create", "data.restore"} /\ x \in Members(Volumes)
<1> DEFINE k == "restore"
           One(a) == <<Step(a, None)>>
           p1 == One("runner.install")
           p2 == One("target.verify-clean")
           p3 == One("snapshot.verify")
           p4 == Each("network.create", NetworkNames)
           p5 == Each("volume.create", Volumes)
           p6 == Each("data.restore", Volumes)
           p7 == One("manifest.verify")
           p8 == One("database.integrity-check")
           p9 == One("checkpoint.data-restored")
           p10 == One("config.restore")
           p11 == One("secret.materialize")
           p12 == One("state.restore")
           p13 == Each("service.start", Units)
           p14 == Each("readiness.wait", Units)
           p15 == One("evidence.write")
           Only(s, a, x) == \A b, y : Does(s, b, y) <=> b = a /\ y \in x
<1>0. /\ Once(k) = RESTORE_ONCE /\ Once(k) \subseteq FlowActions(k)
      /\ {"network.create", "volume.create", "data.restore", "service.start", "readiness.wait"}
           \subseteq FlowActions(k) \ Once(k)
  BY DEF Once, FlowActions, RESTORE_ONCE
<1>1. Part(k, p1, 1, 1) /\ Only(p1, "runner.install", {None})
  BY <1>0, PartOfOne DEF Rank, RESTORE_ONCE
<1>2. Part(k, p2, 2, 2) /\ Only(p2, "target.verify-clean", {None})
  BY <1>0, PartOfOne DEF Rank, RESTORE_ONCE
<1>3. Part(k, p3, 3, 3) /\ Only(p3, "snapshot.verify", {None})
  BY <1>0, PartOfOne DEF Rank, RESTORE_ONCE
<1>4. Part(k, p4, 4, 4) /\ Only(p4, "network.create", Members(NetworkNames))
  BY <1>0, PartOfEach DEF Rank
<1>5. Part(k, p5, 5, 5) /\ Only(p5, "volume.create", Members(Volumes))
  BY <1>0, PartOfEach DEF Rank
<1>6. Part(k, p6, 6, 6) /\ Only(p6, "data.restore", Members(Volumes))
  BY <1>0, PartOfEach DEF Rank
<1>7. Part(k, p7, 7, 7) /\ Only(p7, "manifest.verify", {None})
  BY <1>0, PartOfOne DEF Rank, RESTORE_ONCE
<1>8. Part(k, p8, 8, 8) /\ Only(p8, "database.integrity-check", {None})
  BY <1>0, PartOfOne DEF Rank, RESTORE_ONCE
<1>9. Part(k, p9, 9, 9) /\ Only(p9, "checkpoint.data-restored", {None})
  BY <1>0, PartOfOne DEF Rank, RESTORE_ONCE
<1>10. Part(k, p10, 10, 10) /\ Only(p10, "config.restore", {None})
  BY <1>0, PartOfOne DEF Rank, RESTORE_ONCE
<1>11. Part(k, p11, 11, 11) /\ Only(p11, "secret.materialize", {None})
  BY <1>0, PartOfOne DEF Rank, RESTORE_ONCE
<1>12. Part(k, p12, 12, 12) /\ Only(p12, "state.restore", {None})
  BY <1>0, PartOfOne DEF Rank, RESTORE_ONCE
<1>13. Part(k, p13, 13, 13) /\ Only(p13, "service.start", Members(Units))
  BY <1>0, PartOfEach DEF Rank
<1>14. Part(k, p14, 14, 14) /\ Only(p14, "readiness.wait", Members(Units))
  BY <1>0, PartOfEach DEF Rank
<1>15. Part(k, p15, 15, 15) /\ Only(p15, "evidence.write", {None})
  BY <1>0, PartOfOne DEF Rank, RESTORE_ONCE
<1> DEFINE a2 == p1 \o p2
           a3 == a2 \o p3
           a4 == a3 \o p4
           a5 == a4 \o p5
           a6 == a5 \o p6
           b8 == p7 \o p8
           b9 == b8 \o p9
           b10 == b9 \o p10
           b11 == b10 \o p11
           b12 == b11 \o p12
           c12 == a6 \o b12
           c13 == c12 \o p13
           c14 == c13 \o p14
           q == c14 \o p15
<1>16. <<Step("runner.install", None), Step("target.verify-clean", None), Step("snapshot.verify", None)>>
         = a3
  OBVIOUS
<1>17. <<Step("manifest.verify", None), Step("database.integrity-check", None),
         Step("checkpoint.data-restored", None), Step("config.restore", None),
         Step("secret.materialize", None), Step("state.restore", None)>> = b12
  <2>1. <<Step("manifest.verify", None), Step("database.integrity-check", None)>> = b8
    OBVIOUS
  <2>2. <<Step("manifest.verify", None), Step("database.integrity-check", None),
         Step("checkpoint.data-restored", None)>> = b9
    BY <2>1
  <2>3. <<Step("manifest.verify", None), Step("database.integrity-check", None),
         Step("checkpoint.data-restored", None), Step("config.restore", None)>> = b10
    BY <2>2
  <2>4. <<Step("manifest.verify", None), Step("database.integrity-check", None),
         Step("checkpoint.data-restored", None), Step("config.restore", None),
         Step("secret.materialize", None)>> = b11
    BY <2>3
  <2> QED
    BY <2>4
<1>18. CanonicalFlow("restore") = q
  BY <1>16, <1>17 DEF CanonicalFlow
<1> HIDE DEF k, p1, p2, p3, p4, p5, p6, p7, p8, p9, p10, p11, p12, p13, p14, p15
<1>22. Part(k, a2, 1, 2) /\ \A a, x : Does(a2, a, x) <=> Does(p1, a, x) \/ Does(p2, a, x)
  BY <1>1, <1>2, PartsJoin
<1> HIDE DEF a2
<1>23. Part(k, a3, 1, 3) /\ \A a, x : Does(a3, a, x) <=> Does(a2, a, x) \/ Does(p3, a, x)
  BY <1>22, <1>3, PartsJoin
<1> HIDE DEF a3
<1>24. Part(k, a4, 1, 4) /\ \A a, x : Does(a4, a, x) <=> Does(a3, a, x) \/ Does(p4, a, x)
  BY <1>23, <1>4, PartsJoin
<1> HIDE DEF a4
<1>25. Part(k, a5, 1, 5) /\ \A a, x : Does(a5, a, x) <=> Does(a4, a, x) \/ Does(p5, a, x)
  BY <1>24, <1>5, PartsJoin
<1> HIDE DEF a5
<1>26. Part(k, a6, 1, 6) /\ \A a, x : Does(a6, a, x) <=> Does(a5, a, x) \/ Does(p6, a, x)
  BY <1>25, <1>6, PartsJoin
<1> HIDE DEF a6
<1>28. Part(k, b8, 7, 8) /\ \A a, x : Does(b8, a, x) <=> Does(p7, a, x) \/ Does(p8, a, x)
  BY <1>7, <1>8, PartsJoin
<1> HIDE DEF b8
<1>29. Part(k, b9, 7, 9) /\ \A a, x : Does(b9, a, x) <=> Does(b8, a, x) \/ Does(p9, a, x)
  BY <1>28, <1>9, PartsJoin
<1> HIDE DEF b9
<1>30. Part(k, b10, 7, 10) /\ \A a, x : Does(b10, a, x) <=> Does(b9, a, x) \/ Does(p10, a, x)
  BY <1>29, <1>10, PartsJoin
<1> HIDE DEF b10
<1>31. Part(k, b11, 7, 11) /\ \A a, x : Does(b11, a, x) <=> Does(b10, a, x) \/ Does(p11, a, x)
  BY <1>30, <1>11, PartsJoin
<1> HIDE DEF b11
<1>32. Part(k, b12, 7, 12) /\ \A a, x : Does(b12, a, x) <=> Does(b11, a, x) \/ Does(p12, a, x)
  BY <1>31, <1>12, PartsJoin
<1> HIDE DEF b12
<1>33. Part(k, c12, 1, 12) /\ \A a, x : Does(c12, a, x) <=> Does(a6, a, x) \/ Does(b12, a, x)
  BY <1>26, <1>32, PartsJoin
<1> HIDE DEF c12
<1>34. Part(k, c13, 1, 13) /\ \A a, x : Does(c13, a, x) <=> Does(c12, a, x) \/ Does(p13, a, x)
  BY <1>33, <1>13, PartsJoin
<1> HIDE DEF c13
<1>35. Part(k, c14, 1, 14) /\ \A a, x : Does(c14, a, x) <=> Does(c13, a, x) \/ Does(p14, a, x)
  BY <1>34, <1>14, PartsJoin
<1> HIDE DEF c14
<1>36. Part(k, q, 1, 15) /\ \A a, x : Does(q, a, x) <=> Does(c14, a, x) \/ Does(p15, a, x)
  BY <1>35, <1>15, PartsJoin
<1> HIDE DEF q
<1>37. \A a, x : Does(a6, a, x)
         <=> \/ a \in {"runner.install", "target.verify-clean", "snapshot.verify"} /\ x = None
             \/ a = "network.create" /\ x \in Members(NetworkNames)
             \/ a \in {"volume.create", "data.restore"} /\ x \in Members(Volumes)
  BY <1>1, <1>2, <1>3, <1>4, <1>5, <1>6, <1>22, <1>23, <1>24, <1>25, <1>26
<1>38. \A a, x : Does(b12, a, x)
         <=> /\ a \in {"manifest.verify", "database.integrity-check", "checkpoint.data-restored",
                       "config.restore", "secret.materialize", "state.restore"}
             /\ x = None
  BY <1>7, <1>8, <1>9, <1>10, <1>11, <1>12, <1>28, <1>29, <1>30, <1>31, <1>32
<1>39. \A a, x : Does(q, a, x)
         <=> \/ Does(a6, a, x) \/ Does(b12, a, x)
             \/ a \in {"service.start", "readiness.wait"} /\ x \in Members(Units)
             \/ a = "evidence.write" /\ x = None
  BY <1>13, <1>14, <1>15, <1>33, <1>34, <1>35, <1>36
<1>40. \A a, x : Does(q, a, x)
         <=> \/ a \in RESTORE_ONCE /\ x = None
             \/ a \in {"service.start", "readiness.wait"} /\ x \in Members(Units)
             \/ a = "network.create" /\ x \in Members(NetworkNames)
             \/ a \in {"volume.create", "data.restore"} /\ x \in Members(Volumes)
  BY <1>37, <1>38, <1>39 DEF RESTORE_ONCE
<1> QED
  BY <1>18, <1>36, <1>40 DEF k

-----------------------------------------------------------------------------
(* The verdict on a plan, however edited.                                  *)

\* Both directions for a backup,
LEMMA BackupVerdict ==
  ASSUME Flow("backup"), kind = "backup"
  PROVE  assertPlanValid(kind, PlanDoc(kind, Base, ops)) <=> ExecutionSafe
<1>1. assertPlanValid(kind, PlanDoc(kind, Base, ops))
        <=> ops # << >> /\ BackupComplete /\ BackupFlowOrdered(ops)
  BY BackupCompleteness, ReviewedPlanFields DEF assertPlanValid, validateBackupPlanOperations
<1> QED
  BY <1>1, AcceptedBackupIsSafe, SafeBackupIsAccepted

\* and for a restore.
LEMMA RestoreVerdict ==
  ASSUME Flow("restore"), kind = "restore"
  PROVE  assertPlanValid(kind, PlanDoc(kind, Base, ops)) <=> ExecutionSafe
<1>1. assertPlanValid(kind, PlanDoc(kind, Base, ops))
        <=> ops # << >> /\ RestoreComplete /\ RestoreFlowOrdered(ops)
  BY RestoreCompleteness, ReviewedPlanFields DEF assertPlanValid, validateRestorePlanOperations
<1> QED
  BY <1>1, AcceptedRestoreIsSafe, SafeRestoreIsAccepted

\* What is mixed into a bundle: documents of one other operation, or one field.
MixOK ==
  /\ mix.other \in Others \cup {Base}
  /\ mix.docs \subseteq DocumentNames(kind)
  /\ mix.field # << >> =>
       /\ mix.docs = {}
       /\ \E name \in DocumentNames(kind) \ {"events"} : \E field : mix.field = <<name, field>>

ReviewInv ==
  /\ kind \in {"backup", "restore"}
  /\ Flow(kind)
  /\ edits = 0 => ops = CanonicalFlow(kind)
  /\ edits \in Nat
  /\ MixOK

\* A plan of operations of the flow, taken from the plan before the edit.
LEMMA EditedFlow ==
  ASSUME NEW n \in Nat, NEW s, DOMAIN s = 1 .. n, s = [i \in DOMAIN s |-> s[i]],
         \A i \in 1 .. n : FlowStep(kind, s[i]), Edit(s), ReviewInv
  PROVE  ReviewInv'
<1>1. IsSeq(s)
  BY SeqOf
<1>2. ops' = s /\ kind' = kind /\ mix' = mix /\ edits' = edits + 1
  BY DEF Edit
<1>3. Flow(kind)'
  <2>1. IsSeq(ops)'
    BY <1>1, <1>2 DEF IsSeq
  <2>2. \A i \in DOMAIN ops' : FlowStep(kind', ops'[i])
    BY <1>2
  <2> QED
    BY <2>1, <2>2 DEF Flow, FlowStep
<1>4. MixOK'
  BY <1>2 DEF ReviewInv, MixOK
<1>5. edits' \in Nat /\ edits' # 0 /\ kind' \in {"backup", "restore"}
  BY <1>2 DEF ReviewInv
<1> QED
  BY <1>3, <1>4, <1>5 DEF ReviewInv

\* A step of the flow put into a sequence of such steps.
LEMMA InsertedStep ==
  ASSUME NEW N \in Nat, NEW t, DOMAIN t = 1 .. N, Len(t) = N,
         \A n \in 1 .. N : FlowStep(kind, t[n]),
         NEW i \in 1 .. N + 1, NEW e, FlowStep(kind, e)
  PROVE  /\ DOMAIN InsertAt(t, i, e) = 1 .. N + 1
         /\ InsertAt(t, i, e) = [n \in DOMAIN InsertAt(t, i, e) |-> InsertAt(t, i, e)[n]]
         /\ \A n \in 1 .. N + 1 : FlowStep(kind, InsertAt(t, i, e)[n])
<1> DEFINE s == InsertAt(t, i, e)
<1>1. DOMAIN s = 1 .. N + 1 /\ s = [n \in DOMAIN s |-> s[n]]
  BY DEF InsertAt
<1>2. \A n \in 1 .. N + 1 : \/ n < i /\ s[n] = t[n] /\ n \in 1 .. N
                            \/ n = i /\ s[n] = e
                            \/ n > i /\ s[n] = t[n - 1] /\ n - 1 \in 1 .. N
  BY DEF InsertAt
<1> HIDE DEF s
<1>3. \A n \in 1 .. N + 1 : FlowStep(kind, s[n])
  BY <1>2
<1> QED
  BY <1>1, <1>3 DEF s

\* Every edit leaves a list of operations of the flow.
LEMMA EditsKeepFlow ==
  ASSUME ReviewInv, MoveStep \/ DropStep \/ RepeatStep \/ RetargetStep
  PROVE  ReviewInv'
<1>1. /\ Len(ops) \in Nat /\ DOMAIN ops = 1 .. Len(ops)
      /\ \A i \in 1 .. Len(ops) : FlowStep(kind, ops[i])
  BY SeqDomain DEF ReviewInv, Flow
<1>2. ASSUME NEW i \in DOMAIN ops
      PROVE  LET s == RemoveAt(ops, i)
             IN  /\ Len(ops) - 1 \in Nat /\ DOMAIN s = 1 .. Len(ops) - 1
                 /\ s = [n \in DOMAIN s |-> s[n]] /\ Len(s) = Len(ops) - 1
                 /\ \A n \in 1 .. Len(ops) - 1 : FlowStep(kind, s[n])
  <2> DEFINE s == RemoveAt(ops, i)
  <2>1. Len(ops) - 1 \in Nat /\ DOMAIN s = 1 .. Len(ops) - 1 /\ s = [n \in DOMAIN s |-> s[n]]
    BY <1>1 DEF RemoveAt
  <2>2. \A n \in 1 .. Len(ops) - 1 : s[n] \in {ops[n], ops[n + 1]}
    BY DEF RemoveAt
  <2>3. \A n \in 1 .. Len(ops) - 1 : n \in 1 .. Len(ops) /\ n + 1 \in 1 .. Len(ops)
    BY <1>1
  <2> HIDE DEF s
  <2>4. \A n \in 1 .. Len(ops) - 1 : FlowStep(kind, s[n])
    BY <1>1, <2>2, <2>3
  <2> QED
    BY <2>1, <2>4, SeqOf DEF s
<1>4. CASE MoveStep
  <2>1. PICK i \in DOMAIN ops, j \in DOMAIN ops : i # j /\ Edit(InsertAt(RemoveAt(ops, i), j, ops[i]))
    BY <1>4 DEF MoveStep
  <2> DEFINE t == RemoveAt(ops, i)
             s == InsertAt(t, j, ops[i])
             N == Len(ops) - 1
  <2>2. /\ N \in Nat /\ DOMAIN t = 1 .. N /\ Len(t) = N
        /\ \A n \in 1 .. N : FlowStep(kind, t[n])
    BY <1>2
  <2>3. j \in 1 .. N + 1 /\ FlowStep(kind, ops[i]) /\ N + 1 \in Nat
    BY <1>1
  <2> DEFINE e == ops[i]
  <2> HIDE DEF t, N, s, e
  <2>4. s = InsertAt(t, j, e) /\ FlowStep(kind, e)
    BY <2>3 DEF s, e
  <2>6. /\ DOMAIN s = 1 .. N + 1 /\ s = [n \in DOMAIN s |-> s[n]]
        /\ \A n \in 1 .. N + 1 : FlowStep(kind, s[n])
    <3>1. /\ DOMAIN InsertAt(t, j, e) = 1 .. N + 1
          /\ InsertAt(t, j, e) = [n \in DOMAIN InsertAt(t, j, e) |-> InsertAt(t, j, e)[n]]
          /\ \A n \in 1 .. N + 1 : FlowStep(kind, InsertAt(t, j, e)[n])
      BY <2>2, <2>3, <2>4, InsertedStep
    <3> QED
      BY <2>4, <3>1
  <2>5. Edit(s)
    BY <2>1 DEF s, t
  <2> QED
    BY <2>3, <2>5, <2>6, EditedFlow
<1>5. CASE DropStep
  <2>1. PICK i \in DOMAIN ops : Edit(RemoveAt(ops, i))
    BY <1>5 DEF DropStep
  <2> QED
    BY <1>2, <2>1, EditedFlow
<1>6. CASE RepeatStep
  <2>1. PICK i \in DOMAIN ops : \E id \in {ops[i].id, <<"again", ops[i].id>>} :
          Edit(InsertAt(ops, i + 1, [ops[i] EXCEPT !.id = id]))
    BY <1>6 DEF RepeatStep
  <2>0. PICK id : Edit(InsertAt(ops, i + 1, [ops[i] EXCEPT !.id = id]))
    BY <2>1
  <2> DEFINE e == [ops[i] EXCEPT !.id = id]
             s == InsertAt(ops, i + 1, e)
  <2>2. e.action = ops[i].action /\ e.key = ops[i].key
    OBVIOUS
  <2>3. FlowStep(kind, e) /\ i + 1 \in 1 .. Len(ops) + 1 /\ Len(ops) + 1 \in Nat
    BY <1>1, <2>2 DEF FlowStep
  <2> HIDE DEF e
  <2>4. /\ DOMAIN s = 1 .. Len(ops) + 1 /\ s = [n \in DOMAIN s |-> s[n]]
        /\ \A n \in 1 .. Len(ops) + 1 : FlowStep(kind, s[n])
    BY <1>1, <2>3, InsertedStep
  <2>5. Edit(s)
    BY <2>0 DEF e
  <2> HIDE DEF s
  <2> QED
    BY <2>3, <2>4, <2>5, EditedFlow
<1>7. CASE RetargetStep
  <2>1. PICK i \in DOMAIN ops, key \in Subs :
          ops[i].key \notin {None, key} /\ Edit([ops EXCEPT ![i].key = key])
    BY <1>7 DEF RetargetStep
  <2> DEFINE s == [ops EXCEPT ![i].key = key]
  <2>2. DOMAIN s = 1 .. Len(ops) /\ s = [n \in DOMAIN s |-> s[n]]
    BY <1>1
  <2>3. \A n \in 1 .. Len(ops) : s[n].action = ops[n].action /\ (s[n].key = ops[n].key \/ n = i)
    BY <1>1
  <2>4. \A n \in 1 .. Len(ops) : FlowStep(kind, s[n])
    BY <1>1, <2>1, <2>3 DEF FlowStep
  <2>5. Edit(s)
    BY <2>1
  <2> HIDE DEF s
  <2> QED
    BY <1>1, <2>2, <2>4, <2>5, EditedFlow
<1> QED
  BY <1>4, <1>5, <1>6, <1>7

\* The review starts with the canonical flow; only edits change it.
LEMMA ReviewInvHolds == OpSpec => []ReviewInv
<1>1. ReviewInit /\ OpInit => ReviewInv
  <2> SUFFICES ASSUME ReviewInit
               PROVE  ReviewInv
    OBVIOUS
  <2>1. kind \in {"backup", "restore"} /\ ops = CanonicalFlow(kind) /\ edits = 0 /\ mix = Unmixed
    BY ReviewAssumption DEF ReviewInit
  <2>2. Part("backup", CanonicalFlow("backup"), 1, 9) /\ Part("restore", CanonicalFlow("restore"), 1, 15)
    BY CanonicalBackup, CanonicalRestore
  <2>3. Flow(kind)
    BY <2>1, <2>2 DEF Flow, Part
  <2>4. MixOK
    BY <2>1 DEF MixOK, Unmixed
  <2> QED
    BY <2>1, <2>3, <2>4 DEF ReviewInv
<1>2. ReviewInv /\ [ReviewedNext]_<<reviewVars, opVars>> => ReviewInv'
  <2> SUFFICES ASSUME ReviewInv, [ReviewedNext]_<<reviewVars, opVars>>
               PROVE  ReviewInv'
    OBVIOUS
  <2>1. CASE UNCHANGED reviewVars
    <3>1. UNCHANGED <<kind, ops, edits, mix>>
      BY <2>1 DEF reviewVars
    <3> QED
      BY <3>1 DEF ReviewInv, Flow, FlowStep, IsSeq, MixOK
  <2>2. CASE MoveStep \/ DropStep \/ RepeatStep \/ RetargetStep
    BY <2>2, EditsKeepFlow
  <2>3. CASE MixDocuments
    <3>1. UNCHANGED <<kind, ops, edits>>
      BY <2>3 DEF MixDocuments
    <3>2. MixOK'
      BY <2>3, <3>1 DEF MixDocuments, MixOK
    <3> QED
      BY <3>1, <3>2 DEF ReviewInv, Flow, FlowStep, IsSeq
  <2>4. CASE Approve
    <3>1. UNCHANGED <<kind, ops, edits, mix>>
      BY <2>4 DEF Approve
    <3> QED
      BY <3>1 DEF ReviewInv, Flow, FlowStep, IsSeq, MixOK
  <2> QED
    BY <2>1, <2>2, <2>3, <2>4 DEF ReviewedNext, ReviewNext, opVars, reviewVars
<1> QED
  BY <1>1, <1>2, PTL DEF OpSpec

\* validateBackupPlanOperations() and validateRestorePlanOperations() accept a plan,
\* however often and however it was edited, exactly when executing its operations in
\* order is safe at every step and brings the flow to its end.
THEOREM PlanVerdictMatchesExecutionHolds == OpSpec => []PlanVerdictMatchesExecution
<1>1. ReviewInv => PlanVerdictMatchesExecution
  BY BackupVerdict, RestoreVerdict DEF ReviewInv, PlanVerdictMatchesExecution
<1> QED
  BY <1>1, ReviewInvHolds, PTL

-----------------------------------------------------------------------------
(* The verdict on a bundle.                                                *)

\* The canonical flows are accepted, and each operation is named by its action and key.
LEMMA CanonicalAccepted ==
  ASSUME kind \in {"backup", "restore"}, ops = CanonicalFlow(kind), NEW s
  PROVE  /\ assertPlanValid(kind, PlanDoc(kind, s, ops))
         /\ \A i \in DOMAIN ops : ops[i].id = <<ops[i].action, ops[i].key>>
         /\ \A a \in Once(kind) : \E i \in DOMAIN ops : ops[i].action = a /\ ops[i].key = None
<1>1. CASE kind = "backup"
  <2>1. Part("backup", ops, 1, 9)
    BY <1>1, CanonicalBackup
  <2>2. \A a, x : Does(ops, a, x)
          <=> \/ a \in BACKUP_ONCE /\ x = None
              \/ a \in {"service.stop", "service.start", "readiness.wait"} /\ x \in Members(Units)
              \/ a \in {"snapshot.create", "retention.apply"} /\ x \in Members(DestinationNames)
    BY <1>1, CanonicalBackup
  <2>3. /\ Len(ops) \in Nat /\ DOMAIN ops = 1 .. Len(ops) /\ Flow("backup")
        /\ \A i \in DOMAIN ops : ops[i].id = <<ops[i].action, ops[i].key>>
        /\ \A i, j \in DOMAIN ops :
             /\ i <= j => Rank("backup", ops[i].action) <= Rank("backup", ops[j].action)
             /\ i # j => ops[i].id # ops[j].id
    BY <2>1, SeqDomain DEF Part, Flow
  <2>4. \A i, j \in DOMAIN ops :
          ops[i].action = ops[j].action /\ ops[i].key = ops[j].key => i = j
    BY <2>3
  <2>5. \A i, j \in DOMAIN ops :
          Rank("backup", ops[i].action) < Rank("backup", ops[j].action) => i < j
    BY <2>3, RankIsNumber
  <2>6. \A i \in DOMAIN ops : Does(ops, ops[i].action, ops[i].key)
    BY DEF Does
  <2>7. PICK u : u \in Members(Units)
    BY NamesListed
  <2>8. \A a, x : x \in KeysOf(ops, a) <=> Does(ops, a, x)
    BY DEF KeysOf, Does, indicesOfAction
  <2>9. BackupComplete
    <3>1. \A a \in BACKUP_ONCE :
            /\ \E i \in DOMAIN ops : ops[i].action = a
            /\ \A i, j \in DOMAIN ops : ops[i].action = a /\ ops[j].action = a => i = j
      <4>1. \A a \in BACKUP_ONCE : \E i \in DOMAIN ops : ops[i].action = a
        BY <2>2 DEF Does
      <4>2. \A i, j \in DOMAIN ops :
              ops[i].action \in BACKUP_ONCE /\ ops[j].action = ops[i].action => i = j
        <5>1. \A i \in DOMAIN ops : ops[i].action \in BACKUP_ONCE => ops[i].key = None
          BY <2>3 DEF Flow, FlowStep, Once
        <5> QED
          BY <2>4, <5>1
      <4> QED
        BY <4>1, <4>2
    <3>2. \A a \in {"service.stop", "service.start", "readiness.wait"} :
            \E i \in DOMAIN ops : ops[i].action = a
      <4>1. Does(ops, "service.stop", u) /\ Does(ops, "service.start", u)
            /\ Does(ops, "readiness.wait", u)
        BY <2>2, <2>7
      <4> QED
        BY <4>1 DEF Does
    <3>3. \A a : KeysApart(ops, a)
      BY <2>4 DEF KeysApart
    <3>4. /\ \A x : x \in KeysOf(ops, "snapshot.create") <=> x \in Members(DestinationNames)
          /\ \A x : x \in KeysOf(ops, "retention.apply") <=> x \in Members(DestinationNames)
          /\ \A x : x \in KeysOf(ops, "service.start") <=> x \in KeysOf(ops, "service.stop")
      BY <2>2, <2>8 DEF BACKUP_ONCE
    <3>5. /\ KeysOf(ops, "snapshot.create") = Members(DestinationNames)
          /\ KeysOf(ops, "retention.apply") = Members(DestinationNames)
          /\ KeysOf(ops, "service.start") = KeysOf(ops, "service.stop")
      BY <3>4
    <3> QED
      BY <2>3, <3>1, <3>2, <3>3, <3>5 DEF BackupComplete
  <2>10. BackupFlowOrdered(ops) /\ ops # << >>
    <3>1. PICK f \in DOMAIN ops : ops[f].action = "maintenance.enter"
      BY <2>9 DEF BackupComplete, BACKUP_ONCE
    <3>2. PICK e \in DOMAIN ops : ops[e].action = "evidence.write"
      BY <2>9 DEF BackupComplete, BACKUP_ONCE
    <3>3. \A i \in DOMAIN ops : ops[i].action \in FlowActions("backup")
      BY <2>3 DEF Flow, FlowStep
    <3>4. 1 \in DOMAIN ops /\ Len(ops) \in DOMAIN ops /\ ops # << >>
      BY <2>3, <3>1
    <3>5. ops[1].action = "maintenance.enter"
      <4>1. Rank("backup", ops[1].action) <= 1
        BY <2>3, <3>1, <3>4 DEF Rank
      <4> QED
        BY <3>3, <3>4, <4>1 DEF Rank, FlowActions, BACKUP_ONCE
    <3>6. ops[Len(ops)].action = "evidence.write"
      <4>1. Rank("backup", ops[Len(ops)].action) >= 9
        BY <2>3, <3>2, <3>4, RankIsNumber DEF Rank
      <4> QED
        BY <3>3, <3>4, <4>1 DEF Rank, FlowActions, BACKUP_ONCE
    <3>7. \A i, j \in DOMAIN ops :
            /\ ops[i].action = "snapshot.create" /\ ops[j].action = "retention.apply" => i < j
            /\ ops[i].action = "maintenance.enter" /\ ops[j].action = "staging.build" => i < j
            /\ ops[i].action = "service.stop" /\ ops[j].action = "staging.build" => i < j
            /\ ops[i].action = "staging.build" /\ ops[j].action = "snapshot.create" => i < j
            /\ ops[i].action \in {"snapshot.create", "retention.apply"}
                 /\ ops[j].action = "service.start" => i < j
            /\ ops[i].action = "service.start" /\ ops[j].action = "readiness.wait" => i < j
            /\ ops[i].action = "readiness.wait" /\ ops[j].action = "maintenance.exit" => i < j
            /\ ops[i].action \in {"snapshot.create", "retention.apply"}
                 /\ ops[j].action = "maintenance.exit" => i < j
      BY <2>5 DEF Rank
    <3> QED
      BY <3>4, <3>5, <3>6, <3>7
         DEF BackupFlowOrdered, Precede, KeyedPrecede, indicesOfAction, IndicesOf
  <2>11. assertPlanValid(kind, PlanDoc(kind, s, ops))
    BY <1>1, <2>3, <2>9, <2>10, BackupCompleteness, ReviewedPlanFields
       DEF assertPlanValid, validateBackupPlanOperations
  <2>12. \A a \in Once(kind) : Does(ops, a, None)
    BY <1>1, <2>2 DEF Once
  <2> QED
    BY <2>3, <2>11, <2>12 DEF Does
<1>2. CASE kind = "restore"
  <2>1. Part("restore", ops, 1, 15)
    BY <1>2, CanonicalRestore
  <2>2. \A a, x : Does(ops, a, x)
          <=> \/ a \in RESTORE_ONCE /\ x = None
              \/ a \in {"service.start", "readiness.wait"} /\ x \in Members(Units)
              \/ a = "network.create" /\ x \in Members(NetworkNames)
              \/ a \in {"volume.create", "data.restore"} /\ x \in Members(Volumes)
    BY <1>2, CanonicalRestore
  <2>3. /\ Len(ops) \in Nat /\ DOMAIN ops = 1 .. Len(ops) /\ Flow("restore")
        /\ \A i \in DOMAIN ops : ops[i].id = <<ops[i].action, ops[i].key>>
        /\ \A i, j \in DOMAIN ops :
             /\ i <= j => Rank("restore", ops[i].action) <= Rank("restore", ops[j].action)
             /\ i # j => ops[i].id # ops[j].id
    BY <2>1, SeqDomain DEF Part, Flow
  <2>4. \A i, j \in DOMAIN ops :
          ops[i].action = ops[j].action /\ ops[i].key = ops[j].key => i = j
    BY <2>3
  <2>5. \A i, j \in DOMAIN ops :
          Rank("restore", ops[i].action) < Rank("restore", ops[j].action) => i < j
    BY <2>3, RankIsNumber
  <2>7. PICK u : u \in Members(Units)
    BY NamesListed
  <2>8. \A a, x : x \in KeysOf(ops, a) <=> Does(ops, a, x)
    BY DEF KeysOf, Does, indicesOfAction
  <2>9. RestoreComplete
    <3>1. \A a \in RESTORE_ONCE :
            /\ \E i \in DOMAIN ops : ops[i].action = a
            /\ \A i, j \in DOMAIN ops : ops[i].action = a /\ ops[j].action = a => i = j
      <4>1. \A a \in RESTORE_ONCE : \E i \in DOMAIN ops : ops[i].action = a
        BY <2>2 DEF Does
      <4>2. \A i, j \in DOMAIN ops :
              ops[i].action \in RESTORE_ONCE /\ ops[j].action = ops[i].action => i = j
        BY <2>4, <2>3 DEF Flow, FlowStep, Once
      <4> QED
        BY <4>1, <4>2
    <3>2. \A a \in {"service.start", "readiness.wait"} : \E i \in DOMAIN ops : ops[i].action = a
      BY <2>2, <2>7 DEF Does
    <3>3. \A a : KeysApart(ops, a)
      BY <2>4 DEF KeysApart
    <3>4. /\ \A x : x \in KeysOf(ops, "network.create") <=> x \in Members(NetworkNames)
          /\ \A x : x \in KeysOf(ops, "volume.create") <=> x \in Members(Volumes)
          /\ \A x : x \in KeysOf(ops, "data.restore") <=> x \in Members(Volumes)
      BY <2>2, <2>8 DEF RESTORE_ONCE
    <3>5. /\ KeysOf(ops, "network.create") = Members(NetworkNames)
          /\ KeysOf(ops, "volume.create") = Members(Volumes)
          /\ KeysOf(ops, "data.restore") = Members(Volumes)
      BY <3>4
    <3> QED
      BY <2>3, <3>1, <3>2, <3>3, <3>5 DEF RestoreComplete
  <2>10. RestoreFlowOrdered(ops) /\ ops # << >>
    <3>1. PICK f \in DOMAIN ops : ops[f].action = "runner.install"
      BY <2>9 DEF RestoreComplete, RESTORE_ONCE
    <3>2. PICK e \in DOMAIN ops : ops[e].action = "evidence.write"
      BY <2>9 DEF RestoreComplete, RESTORE_ONCE
    <3>3. \A i \in DOMAIN ops : ops[i].action \in FlowActions("restore")
      BY <2>3 DEF Flow, FlowStep
    <3>4. 1 \in DOMAIN ops /\ Len(ops) \in DOMAIN ops /\ ops # << >>
      BY <2>3, <3>1
    <3>5. ops[1].action = "runner.install"
      <4>1. Rank("restore", ops[1].action) <= 1
        BY <2>3, <3>1, <3>4 DEF Rank
      <4> QED
        BY <3>3, <3>4, <4>1 DEF Rank, FlowActions, RESTORE_ONCE
    <3>6. ops[Len(ops)].action = "evidence.write"
      <4>1. Rank("restore", ops[Len(ops)].action) >= 15
        BY <2>3, <3>2, <3>4, RankIsNumber DEF Rank
      <4> QED
        BY <3>3, <3>4, <4>1 DEF Rank, FlowActions, RESTORE_ONCE
    <3>7. \A i, j \in DOMAIN ops :
            /\ ops[i].action = "volume.create" /\ ops[j].action = "data.restore" => i < j
            /\ ops[i].action = "target.verify-clean" /\ ops[j].action = "snapshot.verify" => i < j
            /\ ops[i].action = "snapshot.verify" /\ ops[j].action = "network.create" => i < j
            /\ ops[i].action = "network.create" /\ ops[j].action = "volume.create" => i < j
            /\ ops[i].action = "data.restore"
                 /\ ops[j].action \in {"manifest.verify", "database.integrity-check"} => i < j
            /\ ops[i].action \in {"manifest.verify", "database.integrity-check"}
                 /\ ops[j].action = "checkpoint.data-restored" => i < j
            /\ ops[i].action = "data.restore" /\ ops[j].action = "checkpoint.data-restored" => i < j
            /\ ops[i].action = "checkpoint.data-restored"
                 /\ ops[j].action \in {"config.restore", "secret.materialize", "state.restore"} => i < j
            /\ ops[i].action \in {"config.restore", "secret.materialize", "state.restore"}
                 /\ ops[j].action = "service.start" => i < j
            /\ ops[i].action = "service.start" /\ ops[j].action = "readiness.wait" => i < j
      BY <2>5 DEF Rank
    <3> QED
      BY <3>4, <3>5, <3>6, <3>7
         DEF RestoreFlowOrdered, Precede, KeyedPrecede, indicesOfAction, IndicesOf
  <2>11. assertPlanValid(kind, PlanDoc(kind, s, ops))
    BY <1>2, <2>3, <2>9, <2>10, RestoreCompleteness, ReviewedPlanFields
       DEF assertPlanValid, validateRestorePlanOperations
  <2>12. \A a \in Once(kind) : Does(ops, a, None)
    BY <1>2, <2>2 DEF Once
  <2> QED
    BY <2>3, <2>11, <2>12 DEF Does
<1> QED
  BY <1>1, <1>2

\* A document is a function from its fields.
IsDoc(d) == d = [f \in DOMAIN d |-> d[f]]

\* Documents with the same fields and values are the same.
LEMMA SameDoc ==
  ASSUME NEW d, NEW e, IsDoc(d), IsDoc(e), DOMAIN d = DOMAIN e,
         \A f \in DOMAIN d : d[f] = e[f]
  PROVE  d = e
BY DEF IsDoc

\* Documents that agree without some fields agree in all other fields.
LEMMA SameWithout ==
  ASSUME NEW d, NEW e, DOMAIN d = DOMAIN e, NEW X
  PROVE  Without(d, X) = Without(e, X) <=> \A f \in DOMAIN d \ X : d[f] = e[f]
<1>1. ASSUME Without(d, X) = Without(e, X), NEW f \in DOMAIN d \ X  PROVE d[f] = e[f]
  <2>1. Without(d, X)[f] = d[f] /\ Without(e, X)[f] = e[f]
    BY DEF Without
  <2> QED
    BY <1>1, <2>1
<1>2. ASSUME \A f \in DOMAIN d \ X : d[f] = e[f]  PROVE Without(d, X) = Without(e, X)
  BY <1>2 DEF Without
<1> QED
  BY <1>1, <1>2

\* A content id covers the fields outside the excluded ones.
LEMMA IdCovers ==
  ASSUME NEW d, NEW e, DOMAIN d = DOMAIN e, NEW X
  PROVE  canonicalContentId(d, X) = canonicalContentId(e, X)
           <=> \A f \in DOMAIN d \ X : d[f] = e[f]
BY SameWithout DEF canonicalContentId, Digest

\* A document's digest covers all of it.
LEMMA DigestCovers ==
  ASSUME NEW d, NEW e
  PROVE  canonicalDocumentDigest(d) = canonicalDocumentDigest(e) <=> d = e
BY DEF canonicalDocumentDigest, Digest

\* A document given its content id under a field the id leaves out.
LEMMA WithId ==
  ASSUME NEW d, IsDoc(d), NEW id \in DOMAIN d, NEW X, id \in X,
         NEW w, w = WithContentId(d, id, X)
  PROVE  /\ IsDoc(w) /\ DOMAIN w = DOMAIN d
         /\ \A f \in DOMAIN d \ {id} : w[f] = d[f]
         /\ w[id] = canonicalContentId(w, X)
<1>1. w = [d EXCEPT ![id] = canonicalContentId(d, X)]
  BY DEF WithContentId
<1>2. DOMAIN w = DOMAIN d /\ IsDoc(w) /\ w[id] = canonicalContentId(d, X)
      /\ \A f \in DOMAIN d \ {id} : w[f] = d[f]
  BY <1>1 DEF IsDoc
<1>3. canonicalContentId(w, X) = canonicalContentId(d, X)
  BY <1>2, IdCovers
<1> QED
  BY <1>2, <1>3

-----------------------------------------------------------------------------
(* The documents of one operation, field by field.                         *)

PolicyFields ==
  {"policyId", "installationId", "destinations", "retention", "appliedGeneration",
   "appliedManifestDigest"}

\* The policy.
LEMMA PolicyDocument ==
  ASSUME NEW s, NEW d, d = PolicyDoc(s)
  PROVE  /\ IsDoc(d) /\ DOMAIN d = PolicyFields
         /\ d.policyId =
              canonicalContentId(d, {"policyId", "appliedGeneration", "appliedManifestDigest"})
         /\ d.installationId = s.installation /\ d.destinations = DestinationNames
         /\ d.retention = s.policy /\ d.appliedGeneration = s.generation
<1> DEFINE e == [policyId |-> None, installationId |-> s.installation,
                 destinations |-> DestinationNames, retention |-> s.policy,
                 appliedGeneration |-> s.generation,
                 appliedManifestDigest |-> Digest(<<s.installation, s.generation>>)]
           X == {"policyId", "appliedGeneration", "appliedManifestDigest"}
<1>1. DOMAIN e = PolicyFields /\ IsDoc(e)
  BY DEF PolicyFields, IsDoc
<1>2. d = WithContentId(e, "policyId", X)
  BY DEF PolicyDoc
<1>3. /\ e.installationId = s.installation /\ e.destinations = DestinationNames
      /\ e.retention = s.policy /\ e.appliedGeneration = s.generation
  OBVIOUS
<1>4. "policyId" \in DOMAIN e /\ "policyId" \in X
  BY <1>1 DEF PolicyFields
<1> HIDE DEF e, X
<1>5. /\ IsDoc(d) /\ DOMAIN d = DOMAIN e /\ d["policyId"] = canonicalContentId(d, X)
      /\ \A f \in DOMAIN e \ {"policyId"} : d[f] = e[f]
  BY <1>1, <1>2, <1>4, WithId
<1> QED
  BY <1>1, <1>3, <1>5 DEF PolicyFields, X

BackupPlanFields ==
  {"planId", "executable", "operations", "target", "installationId", "generation",
   "backupPolicyId", "backupSequence", "backupId", "releaseLockDigest",
   "backupToolLockDigest", "destinations", "retention", "consistencySet"}

\* The plan of a backup.
LEMMA BackupPlan ==
  ASSUME NEW s, NEW o, NEW d, d = PlanDoc("backup", s, o)
  PROVE  /\ IsDoc(d) /\ DOMAIN d = BackupPlanFields
         /\ d.planId = canonicalContentId(d, {"planId"})
         /\ d.executable /\ d.operations = o
         /\ d.target = Target(s, s.installation, s.generation)
         /\ d.installationId = s.installation /\ d.generation = s.generation
         /\ d.backupPolicyId = PolicyDoc(s).policyId /\ d.backupSequence = s.sequence
         /\ d.backupId = BackupIdOf(s) /\ d.releaseLockDigest = Digest(s.release)
         /\ d.backupToolLockDigest = s.toolLock /\ d.destinations = DestinationNames
         /\ d.retention = s.policy /\ d.consistencySet = Volumes
<1> DEFINE e == [planId |-> None, executable |-> TRUE, operations |-> o,
                 target |-> Target(s, s.installation, s.generation),
                 installationId |-> s.installation, generation |-> s.generation,
                 backupPolicyId |-> PolicyDoc(s).policyId, backupSequence |-> s.sequence,
                 backupId |-> BackupIdOf(s), releaseLockDigest |-> Digest(s.release),
                 backupToolLockDigest |-> s.toolLock, destinations |-> DestinationNames,
                 retention |-> s.policy, consistencySet |-> Volumes]
<1>1. DOMAIN e = BackupPlanFields /\ IsDoc(e)
  BY DEF BackupPlanFields, IsDoc
<1>2. d = WithContentId(e, "planId", {"planId"})
  BY DEF PlanDoc
<1>3. /\ e.executable /\ e.operations = o
      /\ e.target = Target(s, s.installation, s.generation)
      /\ e.installationId = s.installation /\ e.generation = s.generation
      /\ e.backupPolicyId = PolicyDoc(s).policyId /\ e.backupSequence = s.sequence
      /\ e.backupId = BackupIdOf(s) /\ e.releaseLockDigest = Digest(s.release)
      /\ e.backupToolLockDigest = s.toolLock /\ e.destinations = DestinationNames
      /\ e.retention = s.policy /\ e.consistencySet = Volumes
  OBVIOUS
<1>4. "planId" \in DOMAIN e
  BY <1>1 DEF BackupPlanFields
<1> HIDE DEF e
<1>5. /\ IsDoc(d) /\ DOMAIN d = DOMAIN e /\ d["planId"] = canonicalContentId(d, {"planId"})
      /\ \A f \in DOMAIN e \ {"planId"} : d[f] = e[f]
  BY <1>1, <1>2, <1>4, WithId
<1> QED
  BY <1>1, <1>3, <1>5 DEF BackupPlanFields

RestorePlanFields ==
  {"planId", "executable", "operations", "target", "source", "backupId", "snapshotId",
   "manifestDigest", "recoveryKitDigest", "backupToolLockDigest", "networks",
   "consistencySet"}

Source(s) ==
  [installationId |-> s.installation, generation |-> s.generation,
   release |-> s.release, releaseLockDigest |-> Digest(s.release)]

\* The plan of a restore.
LEMMA RestorePlan ==
  ASSUME NEW s, NEW o, NEW d, d = PlanDoc("restore", s, o)
  PROVE  /\ IsDoc(d) /\ DOMAIN d = RestorePlanFields
         /\ d.planId = canonicalContentId(d, {"planId"})
         /\ d.executable /\ d.operations = o /\ d.target = Target(s, None, 0)
         /\ d.source = Source(s) /\ d.backupId = BackupIdOf(s)
         /\ d.snapshotId = <<"snapshot", BackupIdOf(s)>>
         /\ d.manifestDigest = canonicalDocumentDigest(ManifestDoc(s))
         /\ d.recoveryKitDigest = canonicalDocumentDigest(KitDoc(s))
         /\ d.backupToolLockDigest = s.toolLock /\ d.networks = NetworkNames
         /\ d.consistencySet = Volumes
<1> DEFINE e == [planId |-> None, executable |-> TRUE, operations |-> o,
                 target |-> Target(s, None, 0),
                 source |-> [installationId |-> s.installation, generation |-> s.generation,
                             release |-> s.release, releaseLockDigest |-> Digest(s.release)],
                 backupId |-> BackupIdOf(s), snapshotId |-> <<"snapshot", BackupIdOf(s)>>,
                 manifestDigest |-> canonicalDocumentDigest(ManifestDoc(s)),
                 recoveryKitDigest |-> canonicalDocumentDigest(KitDoc(s)),
                 backupToolLockDigest |-> s.toolLock, networks |-> NetworkNames,
                 consistencySet |-> Volumes]
<1>1. DOMAIN e = RestorePlanFields /\ IsDoc(e)
  BY DEF RestorePlanFields, IsDoc
<1>2. d = WithContentId(e, "planId", {"planId"})
  BY DEF PlanDoc
<1>3. /\ e.executable /\ e.operations = o /\ e.target = Target(s, None, 0)
      /\ e.source = Source(s) /\ e.backupId = BackupIdOf(s)
      /\ e.snapshotId = <<"snapshot", BackupIdOf(s)>>
      /\ e.manifestDigest = canonicalDocumentDigest(ManifestDoc(s))
      /\ e.recoveryKitDigest = canonicalDocumentDigest(KitDoc(s))
      /\ e.backupToolLockDigest = s.toolLock /\ e.networks = NetworkNames
      /\ e.consistencySet = Volumes
  BY DEF Source
<1>4. "planId" \in DOMAIN e
  BY <1>1 DEF RestorePlanFields
<1> HIDE DEF e
<1>5. /\ IsDoc(d) /\ DOMAIN d = DOMAIN e /\ d["planId"] = canonicalContentId(d, {"planId"})
      /\ \A f \in DOMAIN e \ {"planId"} : d[f] = e[f]
  BY <1>1, <1>2, <1>4, WithId
<1> QED
  BY <1>1, <1>3, <1>5 DEF RestorePlanFields

KitFields ==
  {"installationId", "createdForGeneration", "ageRecipient", "ageRecipientFingerprint",
   "ciphertext", "ciphertextDigest"}

\* The recovery kit.
LEMMA KitDocument ==
  ASSUME NEW s, NEW d, d = KitDoc(s)
  PROVE  /\ IsDoc(d) /\ DOMAIN d = KitFields /\ verifyRecoveryKit(d)
         /\ d.installationId = s.installation /\ d.createdForGeneration = s.generation
BY DEF KitDoc, KitFields, IsDoc, verifyRecoveryKit

ManifestFields ==
  {"backupId", "installationId", "generation", "release", "releaseLockDigest",
   "backupToolLockDigest", "consistencySet", "recoveryKitDigest"}

\* The backup manifest.
LEMMA ManifestDocument ==
  ASSUME NEW s, NEW d, d = ManifestDoc(s)
  PROVE  /\ IsDoc(d) /\ DOMAIN d = ManifestFields
         /\ d.backupId = BackupIdOf(s) /\ d.installationId = s.installation
         /\ d.generation = s.generation /\ d.release = s.release
         /\ d.releaseLockDigest = Digest(s.release) /\ d.backupToolLockDigest = s.toolLock
         /\ d.consistencySet = Volumes
         /\ d.recoveryKitDigest = canonicalDocumentDigest(KitDoc(s))
BY DEF ManifestDoc, ManifestFields, IsDoc

LockFields == {"operationKind", "operationId", "approvedPlanId", "target"}

\* The operation lock.
LEMMA LockDocument ==
  ASSUME NEW k, NEW operation, NEW plan, NEW d, d = buildLockDocument(k, operation, plan)
  PROVE  /\ IsDoc(d) /\ DOMAIN d = LockFields
         /\ d.operationKind = k /\ d.operationId = operation
         /\ d.approvedPlanId = plan.planId /\ d.target = plan.target
BY DEF buildLockDocument, LockFields, IsDoc

JournalFields ==
  {"operationKind", "operationId", "approvedPlanId", "target", "plan", "inputDigests",
   "status", "committedGeneration"}

\* The journal.
LEMMA JournalDocument ==
  ASSUME NEW k, NEW operation, NEW plan, NEW status, NEW generation,
         NEW d, d = buildJournalDocument(k, operation, plan, status, generation)
  PROVE  /\ IsDoc(d) /\ DOMAIN d = JournalFields
         /\ d.operationKind = k /\ d.operationId = operation
         /\ d.approvedPlanId = plan.planId /\ d.target = plan.target /\ d.plan = plan
         /\ d.inputDigests = inputDigestsFor(k, plan)
         /\ d.status = status /\ d.committedGeneration = generation
BY DEF buildJournalDocument, JournalFields, IsDoc

CommonEvidence ==
  {"operationId", "planId", "backupId", "backupToolLockDigest", "manifestDigest", "status",
   "abandoned"}
BackupEvidenceFields ==
  CommonEvidence \cup {"backupPolicyId", "target", "perDestinationResults"}
RestoreEvidenceFields ==
  CommonEvidence \cup {"snapshotId", "source", "recoveryKitDigest", "target"}

Status(s) == IF s.outcome = "succeeded" THEN "succeeded" ELSE "failed"

\* The evidence of a backup and of a restore.
LEMMA EvidenceDocument ==
  ASSUME NEW k, NEW s, NEW plan, NEW d, d = EvidenceDoc(k, s, plan)
  PROVE  /\ IsDoc(d)
         /\ d.operationId = s.operation /\ d.planId = plan.planId
         /\ d.backupId = plan.backupId /\ d.backupToolLockDigest = s.toolLock
         /\ d.manifestDigest = canonicalDocumentDigest(ManifestDoc(s))
         /\ d.status = Status(s) /\ (d.abandoned <=> s.outcome = "abandoned")
         /\ k = "backup" =>
              /\ DOMAIN d = BackupEvidenceFields
              /\ d.backupPolicyId = plan.backupPolicyId /\ d.target = plan.target
              /\ d.perDestinationResults = DestinationNames
         /\ k # "backup" =>
              /\ DOMAIN d = RestoreEvidenceFields
              /\ d.snapshotId = plan.snapshotId /\ d.source = plan.source
              /\ d.recoveryKitDigest = plan.recoveryKitDigest
              /\ d.target = Target(s, s.installation, s.generation)
<1> DEFINE common == [operationId |-> s.operation, planId |-> plan.planId,
                 backupId |-> plan.backupId, backupToolLockDigest |-> s.toolLock,
                 manifestDigest |-> canonicalDocumentDigest(ManifestDoc(s)),
                 status |-> IF s.outcome = "succeeded" THEN "succeeded" ELSE "failed",
                 abandoned |-> s.outcome = "abandoned"]
           forBackup == [backupPolicyId |-> plan.backupPolicyId, target |-> plan.target,
                        perDestinationResults |-> DestinationNames]
           forRestore == [snapshotId |-> plan.snapshotId, source |-> plan.source,
                        recoveryKitDigest |-> plan.recoveryKitDigest,
                        target |-> Target(s, s.installation, s.generation)]
           own == IF k = "backup" THEN forBackup ELSE forRestore
<1>1. d = [f \in DOMAIN common \cup DOMAIN own |->
             IF f \in DOMAIN common THEN common[f] ELSE own[f]]
  BY DEF EvidenceDoc
<1>2. /\ DOMAIN common = CommonEvidence
      /\ common.operationId = s.operation /\ common.planId = plan.planId
      /\ common.backupId = plan.backupId /\ common.backupToolLockDigest = s.toolLock
      /\ common.manifestDigest = canonicalDocumentDigest(ManifestDoc(s))
      /\ common.status = Status(s) /\ (common.abandoned <=> s.outcome = "abandoned")
  BY DEF CommonEvidence, Status
<1>3. /\ DOMAIN forBackup = {"backupPolicyId", "target", "perDestinationResults"}
      /\ forBackup.backupPolicyId = plan.backupPolicyId /\ forBackup.target = plan.target
      /\ forBackup.perDestinationResults = DestinationNames
  OBVIOUS
<1>4. /\ DOMAIN forRestore = {"snapshotId", "source", "recoveryKitDigest", "target"}
      /\ forRestore.snapshotId = plan.snapshotId /\ forRestore.source = plan.source
      /\ forRestore.recoveryKitDigest = plan.recoveryKitDigest
      /\ forRestore.target = Target(s, s.installation, s.generation)
  OBVIOUS
<1> HIDE DEF common, forBackup, forRestore
<1>5. /\ IsDoc(d) /\ DOMAIN d = DOMAIN common \cup DOMAIN own
      /\ \A f \in DOMAIN common : d[f] = common[f]
      /\ \A f \in DOMAIN own \ DOMAIN common : d[f] = own[f]
  BY <1>1 DEF IsDoc
<1>6. /\ d.operationId = s.operation /\ d.planId = plan.planId
      /\ d.backupId = plan.backupId /\ d.backupToolLockDigest = s.toolLock
      /\ d.manifestDigest = canonicalDocumentDigest(ManifestDoc(s))
      /\ d.status = Status(s) /\ (d.abandoned <=> s.outcome = "abandoned")
  BY <1>2, <1>5 DEF CommonEvidence
<1>7. CASE k = "backup"
  <2>1. own = forBackup
    BY <1>7
  <2> QED
    BY <1>2, <1>3, <1>5, <1>6, <1>7, <2>1 DEF CommonEvidence, BackupEvidenceFields
<1>8. CASE k # "backup"
  <2>1. own = forRestore
    BY <1>8
  <2> QED
    BY <1>2, <1>4, <1>5, <1>6, <1>8, <2>1 DEF CommonEvidence, RestoreEvidenceFields
<1> QED
  BY <1>7, <1>8

Outcomes == {"succeeded", "failed", "abandoned"}

Committed(k, s) == IF k = "restore" /\ s.outcome # "abandoned" THEN s.generation ELSE None

\* The log of an operation: successes, of actions the flow has once, up to the first.
LEMMA LogDocument ==
  ASSUME NEW k \in {"backup", "restore"}, NEW s, s.outcome \in Outcomes,
         NEW log, log = LogOf(k, s)
  PROVE  /\ s.outcome = "abandoned" <=> DOMAIN log = {}
         /\ s.outcome # "abandoned" => 2 \in DOMAIN log /\ log[2].step[1] = "evidence.write"
         /\ s.outcome # "abandoned" /\ k = "restore" =>
              1 \in DOMAIN log /\ log[1].step[1] = "state.restore"
         /\ \A n \in DOMAIN log : /\ log[n].operationKind = k /\ log[n].operationId = s.operation
                                  /\ log[n].phase = "succeeded"
                                  /\ \E a \in Once(k) : log[n].step = <<a, None>>
<1> DEFINE Ok(a) == buildEvent(k, s.operation, <<a, None>>, "succeeded")
<1>1. ASSUME NEW a
      PROVE  /\ Ok(a).operationKind = k /\ Ok(a).operationId = s.operation
             /\ Ok(a).phase = "succeeded" /\ Ok(a).step = <<a, None>> /\ Ok(a).step[1] = a
  BY DEF buildEvent
<1>2. log = IF s.outcome = "abandoned" THEN << >>
            ELSE <<Ok(IF k = "backup" THEN "maintenance.enter" ELSE "state.restore"),
                   Ok("evidence.write")>>
  BY DEF LogOf
<1> HIDE DEF Ok
<1>3. CASE s.outcome = "abandoned"
  <2>1. log = << >>
    BY <1>2, <1>3
  <2>2. DOMAIN log = {}
    BY <2>1
  <2> QED
    BY <1>3, <2>2
<1>4. CASE s.outcome # "abandoned" /\ k = "backup"
  <2>1. log = <<Ok("maintenance.enter"), Ok("evidence.write")>>
    BY <1>2, <1>4
  <2>2. DOMAIN log = {1, 2} /\ log[1] = Ok("maintenance.enter") /\ log[2] = Ok("evidence.write")
    BY <2>1
  <2>3. "maintenance.enter" \in Once(k) /\ "evidence.write" \in Once(k)
    BY <1>4 DEF Once, BACKUP_ONCE
  <2> QED
    BY <1>1, <1>4, <2>2, <2>3
<1>5. CASE s.outcome # "abandoned" /\ k = "restore"
  <2>1. log = <<Ok("state.restore"), Ok("evidence.write")>>
    BY <1>2, <1>5
  <2>2. DOMAIN log = {1, 2} /\ log[1] = Ok("state.restore") /\ log[2] = Ok("evidence.write")
    BY <2>1
  <2>3. "state.restore" \in Once(k) /\ "evidence.write" \in Once(k)
    BY <1>5 DEF Once, RESTORE_ONCE
  <2> QED
    BY <1>1, <1>5, <2>2, <2>3
<1> QED
  BY <1>3, <1>4, <1>5

\* All of them by name.
LEMMA Documents ==
  ASSUME NEW k, NEW s, NEW o
  PROVE  LET plan == PlanDoc(k, s, o)
         IN  /\ Document(k, s, o, "policy") = PolicyDoc(s)
             /\ Document(k, s, o, "plan") = plan
             /\ Document(k, s, o, "manifest") = ManifestDoc(s)
             /\ Document(k, s, o, "kit") = KitDoc(s)
             /\ Document(k, s, o, "lock") = buildLockDocument(k, s.operation, plan)
             /\ Document(k, s, o, "journal") =
                  buildJournalDocument(k, s.operation, plan, Status(s), Committed(k, s))
             /\ Document(k, s, o, "events") = LogOf(k, s)
             /\ Document(k, s, o, "evidence") = EvidenceDoc(k, s, plan)
BY DEF Document, Status, Committed

PlanFields(k) == IF k = "backup" THEN BackupPlanFields ELSE RestorePlanFields
EvidenceFields(k) == IF k = "backup" THEN BackupEvidenceFields ELSE RestoreEvidenceFields

\* The documents of a bundle have the fields their schemas ask for.
Shape(k, b) ==
  /\ DOMAIN b = DocumentNames(k)
  /\ IsDoc(b.plan) /\ DOMAIN b.plan = PlanFields(k)
  /\ IsDoc(b.manifest) /\ DOMAIN b.manifest = ManifestFields
  /\ IsDoc(b.kit) /\ DOMAIN b.kit = KitFields
  /\ IsDoc(b.lock) /\ DOMAIN b.lock = LockFields
  /\ IsDoc(b.journal) /\ DOMAIN b.journal = JournalFields
  /\ IsDoc(b.evidence) /\ DOMAIN b.evidence = EvidenceFields(k)
  /\ k = "backup" => IsDoc(b.policy) /\ DOMAIN b.policy = PolicyFields

\* The documents that every bundle has.
LEMMA NamesOfDocuments ==
  /\ \A k : {"plan", "manifest", "kit", "lock", "journal", "events", "evidence"}
              \subseteq DocumentNames(k)
  /\ "policy" \in DocumentNames("backup")
BY DEF DocumentNames

\* A plan is known by its id.
LEMMA PlanKnownById ==
  ASSUME NEW k \in {"backup", "restore"}, NEW s, NEW o, NEW plan, IsDoc(plan),
         DOMAIN plan = PlanFields(k), plan.planId = canonicalContentId(plan, {"planId"}),
         plan.planId = PlanDoc(k, s, o).planId
  PROVE  plan = PlanDoc(k, s, o)
<1> DEFINE p == PlanDoc(k, s, o)
<1>1. IsDoc(p) /\ DOMAIN p = PlanFields(k) /\ p.planId = canonicalContentId(p, {"planId"})
  <2>1. CASE k = "backup"
    <3>1. p = PlanDoc("backup", s, o)
      BY <2>1
    <3> HIDE DEF p
    <3>2. IsDoc(p) /\ DOMAIN p = BackupPlanFields /\ p.planId = canonicalContentId(p, {"planId"})
      BY <3>1, BackupPlan
    <3> QED
      BY <2>1, <3>2 DEF PlanFields
  <2>2. CASE k = "restore"
    <3>1. p = PlanDoc("restore", s, o)
      BY <2>2
    <3> HIDE DEF p
    <3>2. IsDoc(p) /\ DOMAIN p = RestorePlanFields /\ p.planId = canonicalContentId(p, {"planId"})
      BY <3>1, RestorePlan
    <3> QED
      BY <2>2, <3>2 DEF PlanFields
  <2> QED
    BY <2>1, <2>2
<1> HIDE DEF p
<1>2. plan.planId = p.planId
  BY DEF p
<1>3. \A f \in DOMAIN plan \ {"planId"} : plan[f] = p[f]
  BY <1>1, <1>2, IdCovers
<1>4. \A f \in DOMAIN plan : plan[f] = p[f]
  BY <1>2, <1>3
<1>5. plan = p
  BY <1>1, <1>4, SameDoc
<1> QED
  BY <1>5 DEF p

\* Which operation an accepted backup bundle is of, its evidence tells.
LEMMA BackupTraced ==
  ASSUME NEW b, Shape("backup", b), validateBackupBundle(b), NEW s,
         b.evidence.planId = PlanDoc("backup", s, ops).planId,
         b.evidence.manifestDigest = canonicalDocumentDigest(ManifestDoc(s)),
         b.evidence.operationId = s.operation, b.evidence.status = Status(s),
         b.journal.status \in {"succeeded", "failed"}, b.journal.committedGeneration = None
  PROVE  /\ \A name \in {"plan", "manifest", "kit", "lock", "journal"} :
              b[name] = Document("backup", s, ops, name)
         /\ Without(b.policy, {"appliedManifestDigest"})
              = Without(PolicyDoc(s), {"appliedManifestDigest"})
<1> DEFINE p == PlanDoc("backup", s, ops)
<1>1. /\ b.plan.planId = canonicalContentId(b.plan, {"planId"})
      /\ PolicyBound(b.plan, b.policy) /\ BackupKitBound(b)
      /\ BackupEvidenceBound(b) /\ EvidenceMatchesRun(b) /\ LockBound("backup", b)
      /\ JournalBound("backup", b)
      /\ b.journal.inputDigests =
            [releaseLockDigest    |-> b.plan.releaseLockDigest,
             backupToolLockDigest |-> b.plan.backupToolLockDigest,
             backupPolicyId       |-> b.plan.backupPolicyId]
      /\ \A name \in DocumentNames("backup") : Has(b, name)
  BY NamesOfDocuments DEF validateBackupBundle, BackupPlanIds, Has, Shape
<1>2. b.plan = p
  <2>1. b.plan.planId = p.planId /\ IsDoc(b.plan) /\ DOMAIN b.plan = PlanFields("backup")
    BY <1>1 DEF Shape, BackupEvidenceBound
  <2>2. b.plan.planId = canonicalContentId(b.plan, {"planId"})
    BY <1>1
  <2>3. "backup" \in {"backup", "restore"}
    OBVIOUS
  <2> HIDE DEF p
  <2>4. b.plan = PlanDoc("backup", s, ops)
    BY <2>1, <2>2, <2>3, PlanKnownById DEF p
  <2> QED
    BY <2>4 DEF p
<1>3. b.manifest = ManifestDoc(s)
  BY <1>1, DigestCovers, NamesOfDocuments DEF BackupEvidenceBound
<1>4. b.kit = KitDoc(s)
  BY <1>1, <1>3, DigestCovers, NamesOfDocuments, ManifestDocument DEF BackupKitBound
<1>5. /\ p.backupPolicyId = PolicyDoc(s).policyId /\ p.generation = s.generation
  BY BackupPlan
<1> DEFINE q == PolicyDoc(s)
<1>6. /\ IsDoc(q) /\ DOMAIN q = PolicyFields
      /\ q.policyId =
           canonicalContentId(q, {"policyId", "appliedGeneration", "appliedManifestDigest"})
      /\ q.appliedGeneration = s.generation
  BY PolicyDocument
<1> HIDE DEF p, q
<1>7. Without(b.policy, {"appliedManifestDigest"}) = Without(q, {"appliedManifestDigest"})
  <2>1. b.policy.policyId = q.policyId /\ b.policy.appliedGeneration = q.appliedGeneration
        /\ b.policy.policyId = canonicalContentId(b.policy,
              {"policyId", "appliedGeneration", "appliedManifestDigest"})
    BY <1>1, <1>2, <1>5, <1>6 DEF PolicyBound, q
  <2>2. DOMAIN b.policy = DOMAIN q
    BY <1>6 DEF Shape
  <2>3. \A f \in DOMAIN q \ {"policyId", "appliedGeneration", "appliedManifestDigest"} :
          b.policy[f] = q[f]
    BY <1>6, <2>1, <2>2, IdCovers
  <2>4. \A f \in DOMAIN b.policy \ {"appliedManifestDigest"} : b.policy[f] = q[f]
    BY <2>1, <2>2, <2>3
  <2> QED
    BY <2>2, <2>4, SameWithout
<1> DEFINE l == buildLockDocument("backup", s.operation, p)
           j == buildJournalDocument("backup", s.operation, p, Status(s), None)
<1>8. /\ IsDoc(l) /\ DOMAIN l = LockFields
      /\ l.operationKind = "backup" /\ l.operationId = s.operation
      /\ l.approvedPlanId = p.planId /\ l.target = p.target
  BY LockDocument
<1>9. /\ IsDoc(j) /\ DOMAIN j = JournalFields
      /\ j.operationKind = "backup" /\ j.operationId = s.operation
      /\ j.approvedPlanId = p.planId /\ j.target = p.target /\ j.plan = p
      /\ j.inputDigests = inputDigestsFor("backup", p)
      /\ j.status = Status(s) /\ j.committedGeneration = None
  BY JournalDocument
<1> HIDE DEF l, j
<1>10. b.lock = l
  <2>1. b.lock.operationId = s.operation
    BY <1>1, NamesOfDocuments DEF EvidenceMatchesRun
  <2>2. \A f \in LockFields : b.lock[f] = l[f]
    BY <1>1, <1>2, <1>8, <2>1 DEF LockBound, LockFields
  <2> QED
    BY <1>8, <2>2, SameDoc DEF Shape
<1>11. b.journal = j
  <2>1. b.journal.operationId = s.operation
    BY <1>1, NamesOfDocuments DEF EvidenceMatchesRun
  <2>2. b.journal.status = Status(s)
    BY <1>1, NamesOfDocuments DEF EvidenceMatchesRun, Status
  <2>3. b.journal.inputDigests = inputDigestsFor("backup", p)
    BY <1>1, <1>2 DEF inputDigestsFor
  <2>4. \A f \in JournalFields : b.journal[f] = j[f]
    BY <1>1, <1>2, <1>9, <2>1, <2>2, <2>3 DEF JournalBound, JournalFields
  <2> QED
    BY <1>9, <2>4, SameDoc DEF Shape
<1>12. Committed("backup", s) = None
  BY DEF Committed
<1> QED
  BY <1>2, <1>3, <1>4, <1>7, <1>10, <1>11, <1>12, Documents DEF p, q, l, j

\* Evidence is bound to the other documents in all it says but an abandonment denied.
LEMMA BackupEvidenceTraced ==
  ASSUME NEW b, Shape("backup", b), validateBackupBundle(b), NEW s,
         \A name \in {"plan", "manifest", "lock", "journal"} :
           b[name] = Document("backup", s, ops, name),
         b.evidence.status \in {"succeeded", "failed"},
         b.evidence.perDestinationResults = DestinationNames
  PROVE  Without(b.evidence, {"abandoned"})
           = Without(Document("backup", s, ops, "evidence"), {"abandoned"})
<1> DEFINE p == PlanDoc("backup", s, ops)
           e == EvidenceDoc("backup", s, p)
<1>1. /\ BackupEvidenceBound(b) /\ EvidenceMatchesRun(b)
      /\ \A name \in DocumentNames("backup") : Has(b, name)
  BY NamesOfDocuments DEF validateBackupBundle, Has, Shape
<1>2. /\ b.plan = p /\ b.manifest = ManifestDoc(s)
      /\ b.lock = buildLockDocument("backup", s.operation, p)
      /\ b.journal = buildJournalDocument("backup", s.operation, p, Status(s), None)
  BY Documents DEF Committed
<1>3. b.lock.operationId = s.operation /\ b.journal.status = Status(s)
  BY <1>2, LockDocument, JournalDocument
<1>4. /\ DOMAIN e = BackupEvidenceFields
      /\ e.operationId = s.operation /\ e.planId = p.planId
      /\ e.backupId = p.backupId /\ e.backupToolLockDigest = s.toolLock
      /\ e.manifestDigest = canonicalDocumentDigest(ManifestDoc(s))
      /\ e.status = Status(s) /\ e.backupPolicyId = p.backupPolicyId /\ e.target = p.target
      /\ e.perDestinationResults = DestinationNames
  BY EvidenceDocument
<1>5. p.backupToolLockDigest = s.toolLock
  BY BackupPlan
<1> HIDE DEF p, e
<1>6. b.evidence.operationId = s.operation
  BY <1>1, <1>3, NamesOfDocuments DEF EvidenceMatchesRun
<1>7. b.evidence.status = Status(s)
  BY <1>1, <1>3, NamesOfDocuments DEF EvidenceMatchesRun, Status
<1>8. b.evidence.manifestDigest = e.manifestDigest
  BY <1>1, <1>2, <1>4, NamesOfDocuments DEF BackupEvidenceBound
<1>9. \A f \in BackupEvidenceFields \ {"abandoned"} : b.evidence[f] = e[f]
  BY <1>1, <1>2, <1>4, <1>5, <1>6, <1>7, <1>8
     DEF BackupEvidenceBound, BackupEvidenceFields, CommonEvidence
<1>10. DOMAIN b.evidence = DOMAIN e
  BY <1>4 DEF Shape, EvidenceFields
<1> QED
  BY <1>4, <1>9, <1>10, SameWithout, Documents DEF p, e

\* A log, of the approved plan's steps.
LogOK(k, log) ==
  \A n \in DOMAIN log : /\ log[n].operationKind = k /\ log[n].phase = "succeeded"
                        /\ \E a \in Once(k) : log[n].step = <<a, None>>

Named(log, action) == \E n \in DOMAIN log : log[n].step[1] = action

\* A step is done when the log names it.
LEMMA StepsNamed ==
  ASSUME kind \in {"backup", "restore"}, ops = CanonicalFlow(kind),
         NEW plan, plan.operations = ops, NEW log, LogOK(kind, log), NEW a \in Once(kind)
  PROVE  StepSucceeded(plan, log, a) <=> Named(log, a)
<1>1. /\ \A i \in DOMAIN ops : ops[i].id = <<ops[i].action, ops[i].key>>
      /\ \E i \in DOMAIN ops : ops[i].action = a /\ ops[i].key = None
  BY CanonicalAccepted
<1>2. ASSUME StepSucceeded(plan, log, a)  PROVE Named(log, a)
  <2>1. PICK i \in DOMAIN ops, n \in DOMAIN log : ops[i].action = a /\ log[n].step = ops[i].id
    BY <1>2 DEF StepSucceeded, indicesOfAction
  <2>2. log[n].step = <<a, ops[i].key>>
    BY <1>1, <2>1
  <2>3. log[n].step[1] = a
    BY <2>2
  <2> QED
    BY <2>3 DEF Named
<1>3. ASSUME Named(log, a)  PROVE StepSucceeded(plan, log, a)
  <2>1. PICK n \in DOMAIN log : log[n].step[1] = a
    BY <1>3 DEF Named
  <2>2. PICK c \in Once(kind) : log[n].step = <<c, None>>
    BY <2>1 DEF LogOK
  <2>3. log[n].step = <<a, None>> /\ log[n].phase = "succeeded"
    BY <2>1, <2>2 DEF LogOK
  <2>4. PICK i \in DOMAIN ops : ops[i].action = a /\ ops[i].key = None
    BY <1>1
  <2>5. ops[i].id = <<a, None>>
    BY <1>1, <2>4
  <2> QED
    BY <2>3, <2>4, <2>5 DEF StepSucceeded, indicesOfAction
<1> QED
  BY <1>2, <1>3

\* Which operation an accepted restore bundle is of, its journal tells.
LEMMA RestoreTraced ==
  ASSUME NEW b, Shape("restore", b), validateRestoreBundle(b), NEW s,
         b.journal = Document("restore", s, ops, "journal"),
         b.evidence.status \in {"succeeded", "failed"}
  PROVE  /\ \A name \in {"plan", "manifest", "kit", "lock"} :
              b[name] = Document("restore", s, ops, name)
         /\ \A f \in RestoreEvidenceFields \ {"abandoned", "target"} :
              b.evidence[f] = Document("restore", s, ops, "evidence")[f]
         /\ targetConnectionEqual(b.evidence.target,
                                  Document("restore", s, ops, "evidence").target)
<1> DEFINE p == PlanDoc("restore", s, ops)
           l == buildLockDocument("restore", s.operation, p)
           e == EvidenceDoc("restore", s, p)
<1>1. /\ RestoreManifestBound(b.plan, b.manifest) /\ RestoreKitBound(b.plan, b.kit)
      /\ RestoreEvidenceBound(b.plan, b.evidence) /\ EvidenceMatchesRun(b)
      /\ LockBound("restore", b) /\ JournalBound("restore", b)
      /\ \A name \in DocumentNames("restore") : Has(b, name)
  BY NamesOfDocuments DEF validateRestoreBundle, Has, Shape
<1>2. b.journal =
        buildJournalDocument("restore", s.operation, p, Status(s), Committed("restore", s))
  BY Documents
<1>3. b.journal.operationId = s.operation /\ b.journal.plan = p /\ b.journal.status = Status(s)
  BY <1>2, JournalDocument
<1>4. /\ p.target = Target(s, None, 0) /\ p.source = Source(s) /\ p.backupId = BackupIdOf(s)
      /\ p.manifestDigest = canonicalDocumentDigest(ManifestDoc(s))
      /\ p.recoveryKitDigest = canonicalDocumentDigest(KitDoc(s))
      /\ p.backupToolLockDigest = s.toolLock
  BY RestorePlan
<1>5. /\ IsDoc(l) /\ DOMAIN l = LockFields
      /\ l.operationKind = "restore" /\ l.operationId = s.operation
      /\ l.approvedPlanId = p.planId /\ l.target = p.target
  BY LockDocument
<1>6. /\ e.operationId = s.operation /\ e.planId = p.planId
      /\ e.backupId = p.backupId /\ e.backupToolLockDigest = s.toolLock
      /\ e.manifestDigest = canonicalDocumentDigest(ManifestDoc(s)) /\ e.status = Status(s)
      /\ e.snapshotId = p.snapshotId /\ e.source = p.source
      /\ e.recoveryKitDigest = p.recoveryKitDigest
      /\ e.target = Target(s, s.installation, s.generation)
  BY EvidenceDocument
<1> HIDE DEF p, l, e
<1>7. b.plan = p
  BY <1>1, <1>3 DEF JournalBound
<1>8. b.manifest = ManifestDoc(s) /\ b.kit = KitDoc(s)
  BY <1>1, <1>4, <1>7, DigestCovers DEF RestoreManifestBound, RestoreKitBound
<1>9. b.lock = l
  <2>1. b.lock.operationId = s.operation
    BY <1>1, <1>3, NamesOfDocuments DEF JournalBound
  <2>2. \A f \in LockFields : b.lock[f] = l[f]
    BY <1>1, <1>5, <1>7, <2>1 DEF LockBound, LockFields
  <2> QED
    BY <1>5, <2>2, SameDoc DEF Shape
<1>10. \A f \in RestoreEvidenceFields \ {"abandoned", "target"} : b.evidence[f] = e[f]
  <2>1. b.evidence.operationId = s.operation
    BY <1>1, <1>3, NamesOfDocuments DEF EvidenceMatchesRun
  <2>2. b.evidence.status = Status(s)
    BY <1>1, <1>3, NamesOfDocuments DEF EvidenceMatchesRun, Status
  <2> QED
    BY <1>1, <1>4, <1>6, <1>7, <2>1, <2>2
       DEF RestoreEvidenceBound, RestoreEvidenceFields, CommonEvidence
<1>11. targetConnectionEqual(b.evidence.target, e.target)
  <2>1. targetConnectionEqual(b.evidence.target, Target(s, None, 0))
    BY <1>1, <1>4, <1>7 DEF RestoreEvidenceBound
  <2>2. targetConnectionEqual(Target(s, None, 0), Target(s, s.installation, s.generation))
    BY DEF targetConnectionEqual, Target, Without
  <2> QED
    BY <1>6, <2>1, <2>2 DEF targetConnectionEqual
<1> QED
  BY <1>7, <1>8, <1>9, <1>10, <1>11, Documents DEF p, l, e

\* An accepted restore bundle's journal is that of the operation its other documents are of.
LEMMA RestoreJournalTraced ==
  ASSUME kind = "restore", ops = CanonicalFlow("restore"),
         NEW b, Shape("restore", b), validateRestoreBundle(b), NEW s, s.outcome \in Outcomes,
         \A name \in {"plan", "lock", "events", "evidence"} :
           b[name] = Document("restore", s, ops, name),
         b.journal.status \in {"succeeded", "failed"}
  PROVE  b.journal = Document("restore", s, ops, "journal")
<1> DEFINE p == PlanDoc("restore", s, ops)
           j == buildJournalDocument("restore", s.operation, p, Status(s),
                                     Committed("restore", s))
<1>1. /\ EvidenceMatchesRun(b) /\ LockBound("restore", b) /\ JournalBound("restore", b)
      /\ b.journal.inputDigests =
            [releaseLockDigest    |-> b.plan.source.releaseLockDigest,
             backupToolLockDigest |-> b.plan.backupToolLockDigest,
             manifestDigest       |-> b.plan.manifestDigest,
             recoveryKitDigest    |-> b.plan.recoveryKitDigest]
      /\ validateRestoreCommittedGeneration(b.journal, b.events, b.plan)
      /\ \A name \in DocumentNames("restore") : Has(b, name)
  BY NamesOfDocuments DEF validateRestoreBundle, Has, Shape
<1>2. /\ b.plan = p /\ b.events = LogOf("restore", s)
      /\ b.lock = buildLockDocument("restore", s.operation, p)
      /\ b.evidence = EvidenceDoc("restore", s, p)
  BY Documents
<1>3. b.lock.operationId = s.operation
  BY <1>2, LockDocument
<1>4. b.evidence.status = Status(s)
  BY <1>2, EvidenceDocument
<1>5. p.operations = ops /\ p.source = Source(s)
  BY RestorePlan
<1>6. /\ IsDoc(j) /\ DOMAIN j = JournalFields
      /\ j.operationKind = "restore" /\ j.operationId = s.operation
      /\ j.approvedPlanId = p.planId /\ j.target = p.target /\ j.plan = p
      /\ j.inputDigests = inputDigestsFor("restore", p)
      /\ j.status = Status(s) /\ j.committedGeneration = Committed("restore", s)
  BY JournalDocument
<1> HIDE DEF p, j
<1>7. b.journal.committedGeneration = Committed("restore", s)
  <2>1. LogOK("restore", b.events)
        /\ (s.outcome = "abandoned" <=> DOMAIN b.events = {})
        /\ (s.outcome # "abandoned" => 1 \in DOMAIN b.events
                                       /\ b.events[1].step[1] = "state.restore")
    BY <1>2, LogDocument DEF LogOK
  <2>2. "state.restore" \in Once("restore")
    BY DEF Once, RESTORE_ONCE
  <2>3. StepSucceeded(b.plan, b.events, "state.restore") <=> Named(b.events, "state.restore")
    BY <1>2, <1>5, <2>1, <2>2, StepsNamed
  <2>4. Named(b.events, "state.restore") <=> s.outcome # "abandoned"
    BY <2>1 DEF Named
  <2>5. b.plan.source.generation = s.generation
    BY <1>2, <1>5 DEF Source
  <2> QED
    BY <1>1, <2>3, <2>4, <2>5 DEF validateRestoreCommittedGeneration, Committed
<1>8. b.journal.operationId = s.operation
  BY <1>1, <1>3, NamesOfDocuments DEF JournalBound
<1>9. b.journal.status = Status(s)
  BY <1>1, <1>4, NamesOfDocuments DEF EvidenceMatchesRun, Status
<1>10. b.journal.inputDigests = inputDigestsFor("restore", p)
  BY <1>1, <1>2 DEF inputDigestsFor
<1>11. \A f \in JournalFields : b.journal[f] = j[f]
  BY <1>1, <1>2, <1>6, <1>7, <1>8, <1>9, <1>10 DEF JournalBound, JournalFields
<1>12. b.journal = j
  BY <1>6, <1>11, SameDoc DEF Shape
<1> QED
  BY <1>12, Documents DEF p, j

\* A list agrees with itself.
LEMMA SetEqualsItself == ASSUME NEW x PROVE exactSetEquals(x, x)
BY DEF exactSetEquals

\* The log is of the steps of the plan.
LEMMA LogOfPlan ==
  ASSUME kind \in {"backup", "restore"}, ops = CanonicalFlow(kind),
         NEW b, b.plan.operations = ops, LogOK(kind, b.events),
         \A n \in DOMAIN b.events : b.events[n].operationId = b.journal.operationId
  PROVE  EventsBound(kind, b)
<1>1. /\ \A i \in DOMAIN ops : ops[i].id = <<ops[i].action, ops[i].key>>
      /\ \A a \in Once(kind) : \E i \in DOMAIN ops : ops[i].action = a /\ ops[i].key = None
  BY CanonicalAccepted
<1>2. ASSUME NEW n \in DOMAIN b.events
      PROVE  /\ b.events[n].operationId = b.journal.operationId
             /\ b.events[n].operationKind = kind
             /\ \E i \in DOMAIN b.plan.operations : b.plan.operations[i].id = b.events[n].step
  <2>1. PICK a \in Once(kind) : b.events[n].step = <<a, None>>
    BY DEF LogOK
  <2>2. PICK i \in DOMAIN ops : ops[i].action = a /\ ops[i].key = None
    BY <1>1
  <2>3. ops[i].id = b.events[n].step
    BY <1>1, <2>1, <2>2
  <2> QED
    BY <2>3 DEF LogOK
<1> QED
  BY <1>2 DEF EventsBound

\* Documents of one backup are accepted together.
LEMMA BackupAccepted ==
  ASSUME kind = "backup", ops = CanonicalFlow("backup"),
         NEW b, Shape("backup", b), NEW s,
         \A name \in {"plan", "manifest", "kit", "lock", "journal"} :
           b[name] = Document("backup", s, ops, name),
         Without(b.policy, {"appliedManifestDigest"})
           = Without(PolicyDoc(s), {"appliedManifestDigest"}),
         Without(b.evidence, {"abandoned"})
           = Without(Document("backup", s, ops, "evidence"), {"abandoned"}),
         LogOK("backup", b.events),
         \A n \in DOMAIN b.events : b.events[n].operationId = b.journal.operationId,
         b.evidence.abandoned => ~Named(b.events, "evidence.write") /\ Status(s) = "failed"
  PROVE  validateBackupBundle(b)
<1> DEFINE p == PlanDoc("backup", s, ops)
           e == EvidenceDoc("backup", s, p)
           q == PolicyDoc(s)
<1>1. /\ b.plan = p /\ b.manifest = ManifestDoc(s) /\ b.kit = KitDoc(s)
      /\ b.lock = buildLockDocument("backup", s.operation, p)
      /\ b.journal = buildJournalDocument("backup", s.operation, p, Status(s), None)
  BY Documents DEF Committed
<1>2. /\ p.planId = canonicalContentId(p, {"planId"})
      /\ p.operations = ops /\ p.target = Target(s, s.installation, s.generation)
      /\ p.installationId = s.installation /\ p.generation = s.generation
      /\ p.backupPolicyId = q.policyId /\ p.backupSequence = s.sequence
      /\ p.backupId = BackupIdOf(s) /\ p.releaseLockDigest = Digest(s.release)
      /\ p.backupToolLockDigest = s.toolLock /\ p.destinations = DestinationNames
      /\ p.retention = s.policy /\ p.consistencySet = Volumes
  BY BackupPlan
<1>3. /\ DOMAIN q = PolicyFields
      /\ q.policyId =
           canonicalContentId(q, {"policyId", "appliedGeneration", "appliedManifestDigest"})
      /\ q.installationId = s.installation /\ q.destinations = DestinationNames
      /\ q.retention = s.policy /\ q.appliedGeneration = s.generation
  BY PolicyDocument
<1>4. /\ DOMAIN e = BackupEvidenceFields
      /\ e.operationId = s.operation /\ e.planId = p.planId
      /\ e.backupId = p.backupId /\ e.backupToolLockDigest = s.toolLock
      /\ e.manifestDigest = canonicalDocumentDigest(ManifestDoc(s))
      /\ e.status = Status(s) /\ e.backupPolicyId = p.backupPolicyId /\ e.target = p.target
      /\ e.perDestinationResults = DestinationNames
  BY EvidenceDocument
<1>5. Without(b.evidence, {"abandoned"}) = Without(e, {"abandoned"})
  BY Documents
<1>6. /\ b.lock.operationKind = "backup" /\ b.lock.operationId = s.operation
      /\ b.lock.approvedPlanId = p.planId /\ b.lock.target = p.target
  BY <1>1, LockDocument
<1>7. /\ b.journal.operationKind = "backup" /\ b.journal.operationId = s.operation
      /\ b.journal.approvedPlanId = p.planId /\ b.journal.target = p.target
      /\ b.journal.plan = p /\ b.journal.inputDigests = inputDigestsFor("backup", p)
      /\ b.journal.status = Status(s)
  BY <1>1, JournalDocument
<1>8. /\ b.manifest.backupId = BackupIdOf(s) /\ b.manifest.installationId = s.installation
      /\ b.manifest.generation = s.generation
      /\ b.manifest.releaseLockDigest = Digest(s.release)
      /\ b.manifest.backupToolLockDigest = s.toolLock /\ b.manifest.consistencySet = Volumes
      /\ b.manifest.recoveryKitDigest = canonicalDocumentDigest(KitDoc(s))
  BY <1>1, ManifestDocument
<1>9. /\ verifyRecoveryKit(b.kit) /\ b.kit.installationId = s.installation
      /\ b.kit.createdForGeneration = s.generation
  BY <1>1, KitDocument
<1>10. BackupIdOf(s) = computeBackupId(s.installation, s.generation, q.policyId, s.sequence)
  BY DEF BackupIdOf
<1> HIDE DEF p, e, q
<1>11. BackupPlanIds(b.plan)
  BY <1>1, <1>2, <1>10 DEF BackupPlanIds, Target
<1>12. PolicyBound(b.plan, b.policy)
  <2>1. DOMAIN b.policy = DOMAIN q
    BY <1>3 DEF Shape
  <2>2. \A f \in PolicyFields \ {"appliedManifestDigest"} : b.policy[f] = q[f]
    BY <1>3, <2>1, SameWithout DEF q
  <2>3. canonicalContentId(b.policy, {"policyId", "appliedGeneration", "appliedManifestDigest"})
          = canonicalContentId(q, {"policyId", "appliedGeneration", "appliedManifestDigest"})
    <3>1. \A f \in DOMAIN q \ {"policyId", "appliedGeneration", "appliedManifestDigest"} :
            b.policy[f] = q[f]
      BY <1>3, <2>2
    <3> QED
      BY <2>1, <3>1, IdCovers
  <2>4. /\ b.policy.policyId = q.policyId /\ b.policy.installationId = q.installationId
        /\ b.policy.destinations = q.destinations /\ b.policy.retention = q.retention
        /\ b.policy.appliedGeneration = q.appliedGeneration
    BY <2>2 DEF PolicyFields
  <2> QED
    BY <1>1, <1>2, <1>3, <2>3, <2>4 DEF PolicyBound
<1>13. BackupManifestBound(b.plan, b.manifest)
  BY <1>1, <1>2, <1>8, SetEqualsItself DEF BackupManifestBound
<1>14. BackupKitBound(b)
  BY <1>1, <1>2, <1>8, <1>9 DEF BackupKitBound
<1>15. \A f \in BackupEvidenceFields \ {"abandoned"} : b.evidence[f] = e[f]
  <2>1. DOMAIN b.evidence = DOMAIN e
    BY <1>4 DEF Shape, EvidenceFields
  <2> QED
    BY <1>4, <1>5, <2>1, SameWithout
<1>16. /\ b.evidence.operationId = s.operation /\ b.evidence.planId = p.planId
       /\ b.evidence.backupId = p.backupId /\ b.evidence.backupToolLockDigest = s.toolLock
       /\ b.evidence.manifestDigest = canonicalDocumentDigest(ManifestDoc(s))
       /\ b.evidence.status = Status(s) /\ b.evidence.backupPolicyId = p.backupPolicyId
       /\ b.evidence.target = p.target /\ b.evidence.perDestinationResults = DestinationNames
  BY <1>4, <1>15 DEF BackupEvidenceFields, CommonEvidence
<1>17. BackupEvidenceBound(b)
  <2>1. ~hasDuplicates(DestinationNames)
    BY NamesListed
  <2> QED
    BY <1>1, <1>2, <1>16, <2>1, SetEqualsItself DEF BackupEvidenceBound
<1>18. EvidenceMatchesRun(b)
  <2>1. Status(s) # "in-progress"
    BY DEF Status
  <2>2. b.evidence.abandoned => ~StepSucceeded(b.plan, b.events, "evidence.write")
    <3>1. "evidence.write" \in Once(kind)
      BY DEF Once, BACKUP_ONCE
    <3>2. StepSucceeded(b.plan, b.events, "evidence.write") <=> Named(b.events, "evidence.write")
      BY <1>1, <1>2, <3>1, StepsNamed
    <3> QED
      BY <3>2
  <2> QED
    BY <1>6, <1>7, <1>16, <2>1, <2>2 DEF EvidenceMatchesRun
<1>19. LockBound("backup", b)
  BY <1>1, <1>6 DEF LockBound
<1>20. JournalBound("backup", b)
  BY <1>1, <1>6, <1>7 DEF JournalBound
<1>21. b.journal.inputDigests =
            [releaseLockDigest    |-> b.plan.releaseLockDigest,
             backupToolLockDigest |-> b.plan.backupToolLockDigest,
             backupPolicyId       |-> b.plan.backupPolicyId]
  BY <1>1, <1>7 DEF inputDigestsFor
<1>22. EventsBound("backup", b)
  BY <1>1, <1>2, LogOfPlan
<1>23. Has(b, "plan")
  BY NamesOfDocuments DEF Has, Shape
<1> QED
  BY <1>11, <1>12, <1>13, <1>14, <1>17, <1>18, <1>19, <1>20, <1>21, <1>22, <1>23
     DEF validateBackupBundle

\* So are the documents of one restore.
LEMMA RestoreAccepted ==
  ASSUME kind = "restore", ops = CanonicalFlow("restore"),
         NEW b, Shape("restore", b), NEW s, s.generation # None,
         \A name \in {"plan", "manifest", "kit", "lock", "journal"} :
           b[name] = Document("restore", s, ops, name),
         \A f \in RestoreEvidenceFields \ {"abandoned", "target"} :
           b.evidence[f] = Document("restore", s, ops, "evidence")[f],
         targetConnectionEqual(b.evidence.target, Document("restore", s, ops, "evidence").target),
         LogOK("restore", b.events),
         \A n \in DOMAIN b.events : b.events[n].operationId = b.journal.operationId,
         Named(b.events, "state.restore") <=> b.journal.committedGeneration # None,
         b.evidence.abandoned => ~Named(b.events, "evidence.write") /\ Status(s) = "failed"
  PROVE  validateRestoreBundle(b)
<1> DEFINE p == PlanDoc("restore", s, ops)
           e == EvidenceDoc("restore", s, p)
<1>1. /\ b.plan = p /\ b.manifest = ManifestDoc(s) /\ b.kit = KitDoc(s)
      /\ b.lock = buildLockDocument("restore", s.operation, p)
      /\ b.journal =
           buildJournalDocument("restore", s.operation, p, Status(s), Committed("restore", s))
  BY Documents
<1>2. /\ p.planId = canonicalContentId(p, {"planId"})
      /\ p.operations = ops /\ p.target = Target(s, None, 0) /\ p.source = Source(s)
      /\ p.backupId = BackupIdOf(s)
      /\ p.manifestDigest = canonicalDocumentDigest(ManifestDoc(s))
      /\ p.recoveryKitDigest = canonicalDocumentDigest(KitDoc(s))
      /\ p.backupToolLockDigest = s.toolLock /\ p.consistencySet = Volumes
  BY RestorePlan
<1>3. /\ e.operationId = s.operation /\ e.planId = p.planId
      /\ e.backupId = p.backupId /\ e.backupToolLockDigest = s.toolLock
      /\ e.manifestDigest = canonicalDocumentDigest(ManifestDoc(s)) /\ e.status = Status(s)
      /\ e.snapshotId = p.snapshotId /\ e.source = p.source
      /\ e.recoveryKitDigest = p.recoveryKitDigest
      /\ e.target = Target(s, s.installation, s.generation)
  BY EvidenceDocument
<1>4. /\ \A f \in RestoreEvidenceFields \ {"abandoned", "target"} : b.evidence[f] = e[f]
      /\ targetConnectionEqual(b.evidence.target, e.target)
  BY Documents
<1>6. /\ b.lock.operationKind = "restore" /\ b.lock.operationId = s.operation
      /\ b.lock.approvedPlanId = p.planId /\ b.lock.target = p.target
  BY <1>1, LockDocument
<1>7. /\ b.journal.operationKind = "restore" /\ b.journal.operationId = s.operation
      /\ b.journal.approvedPlanId = p.planId /\ b.journal.target = p.target
      /\ b.journal.plan = p /\ b.journal.inputDigests = inputDigestsFor("restore", p)
      /\ b.journal.status = Status(s)
      /\ b.journal.committedGeneration = Committed("restore", s)
  BY <1>1, JournalDocument
<1>8. /\ b.manifest.backupId = BackupIdOf(s) /\ b.manifest.installationId = s.installation
      /\ b.manifest.generation = s.generation /\ b.manifest.release = s.release
      /\ b.manifest.releaseLockDigest = Digest(s.release)
      /\ b.manifest.backupToolLockDigest = s.toolLock /\ b.manifest.consistencySet = Volumes
      /\ b.manifest.recoveryKitDigest = canonicalDocumentDigest(KitDoc(s))
  BY <1>1, ManifestDocument
<1>9. /\ verifyRecoveryKit(b.kit) /\ b.kit.installationId = s.installation
      /\ b.kit.createdForGeneration = s.generation
  BY <1>1, KitDocument
<1>10. /\ Source(s).installationId = s.installation /\ Source(s).generation = s.generation
       /\ Source(s).release = s.release /\ Source(s).releaseLockDigest = Digest(s.release)
  BY DEF Source
<1> HIDE DEF p, e
<1>13. RestoreManifestBound(b.plan, b.manifest)
  BY <1>1, <1>2, <1>8, <1>10, SetEqualsItself DEF RestoreManifestBound
<1>14. RestoreKitBound(b.plan, b.kit)
  BY <1>1, <1>2, <1>9, <1>10 DEF RestoreKitBound
<1>16. /\ b.evidence.operationId = s.operation /\ b.evidence.planId = p.planId
       /\ b.evidence.backupId = p.backupId /\ b.evidence.backupToolLockDigest = s.toolLock
       /\ b.evidence.manifestDigest = canonicalDocumentDigest(ManifestDoc(s))
       /\ b.evidence.status = Status(s) /\ b.evidence.snapshotId = p.snapshotId
       /\ b.evidence.source = p.source /\ b.evidence.recoveryKitDigest = p.recoveryKitDigest
  BY <1>3, <1>4 DEF RestoreEvidenceFields, CommonEvidence
<1>17. RestoreEvidenceBound(b.plan, b.evidence)
  <2>1. targetConnectionEqual(Target(s, s.installation, s.generation), Target(s, None, 0))
    BY DEF targetConnectionEqual, Target, Without
  <2>2. targetConnectionEqual(b.evidence.target, Target(s, None, 0))
    BY <1>3, <1>4, <2>1 DEF targetConnectionEqual
  <2> QED
    BY <1>1, <1>2, <1>16, <2>2 DEF RestoreEvidenceBound
<1>18. EvidenceMatchesRun(b)
  <2>1. Status(s) # "in-progress"
    BY DEF Status
  <2>2. b.evidence.abandoned => ~StepSucceeded(b.plan, b.events, "evidence.write")
    <3>1. "evidence.write" \in Once(kind)
      BY DEF Once, RESTORE_ONCE
    <3>2. StepSucceeded(b.plan, b.events, "evidence.write") <=> Named(b.events, "evidence.write")
      BY <1>1, <1>2, <3>1, StepsNamed
    <3> QED
      BY <3>2
  <2> QED
    BY <1>6, <1>7, <1>16, <2>1, <2>2 DEF EvidenceMatchesRun
<1>19. LockBound("restore", b)
  BY <1>1, <1>6 DEF LockBound
<1>20. JournalBound("restore", b)
  BY <1>1, <1>6, <1>7 DEF JournalBound
<1>21. b.journal.inputDigests =
            [releaseLockDigest    |-> b.plan.source.releaseLockDigest,
             backupToolLockDigest |-> b.plan.backupToolLockDigest,
             manifestDigest       |-> b.plan.manifestDigest,
             recoveryKitDigest    |-> b.plan.recoveryKitDigest]
  BY <1>1, <1>7 DEF inputDigestsFor
<1>22. EventsBound("restore", b)
  BY <1>1, <1>2, LogOfPlan
<1>23. validateRestoreCommittedGeneration(b.journal, b.events, b.plan)
  <2>1. "state.restore" \in Once(kind)
    BY DEF Once, RESTORE_ONCE
  <2>2. StepSucceeded(b.plan, b.events, "state.restore") <=> Named(b.events, "state.restore")
    BY <1>1, <1>2, <2>1, StepsNamed
  <2>3. b.plan.source.generation = s.generation
    BY <1>1, <1>2, <1>10
  <2> QED
    BY <1>7, <2>2, <2>3 DEF validateRestoreCommittedGeneration, Committed
<1>24. Has(b, "plan")
  BY NamesOfDocuments DEF Has, Shape
<1>25. b.plan.planId = canonicalContentId(b.plan, {"planId"})
  BY <1>1, <1>2
<1> QED
  BY <1>13, <1>14, <1>17, <1>18, <1>19, <1>20, <1>21, <1>22, <1>23, <1>24, <1>25
     DEF validateRestoreBundle

-----------------------------------------------------------------------------
(* The bundle under review.                                                *)

DocFields(k) ==
  [policy |-> PolicyFields, plan |-> PlanFields(k), manifest |-> ManifestFields,
   kit |-> KitFields, lock |-> LockFields, journal |-> JournalFields,
   evidence |-> EvidenceFields(k)]

\* Which fields a document has does not depend on the operation.
LEMMA DocumentShape ==
  ASSUME NEW k \in {"backup", "restore"}, NEW s, NEW o,
         NEW name \in DocumentNames(k) \ {"events"}
  PROVE  IsDoc(Document(k, s, o, name)) /\ DOMAIN Document(k, s, o, name) = DocFields(k)[name]
<1> DEFINE p == PlanDoc(k, s, o)
<1>1. /\ DocFields(k)["policy"] = PolicyFields /\ DocFields(k)["plan"] = PlanFields(k)
      /\ DocFields(k)["manifest"] = ManifestFields /\ DocFields(k)["kit"] = KitFields
      /\ DocFields(k)["lock"] = LockFields /\ DocFields(k)["journal"] = JournalFields
      /\ DocFields(k)["evidence"] = EvidenceFields(k)
  BY DEF DocFields
<1>2. name \in {"policy", "plan", "manifest", "kit", "lock", "journal", "evidence"}
  BY DEF DocumentNames
<1>3. IsDoc(PolicyDoc(s)) /\ DOMAIN PolicyDoc(s) = PolicyFields
  BY PolicyDocument
<1>4. IsDoc(p) /\ DOMAIN p = PlanFields(k)
  <2>1. CASE k = "backup"
    BY <2>1, BackupPlan DEF PlanFields
  <2>2. CASE k = "restore"
    BY <2>2, RestorePlan DEF PlanFields
  <2> QED
    BY <2>1, <2>2
<1>5. IsDoc(ManifestDoc(s)) /\ DOMAIN ManifestDoc(s) = ManifestFields
  BY ManifestDocument
<1>6. IsDoc(KitDoc(s)) /\ DOMAIN KitDoc(s) = KitFields
  BY KitDocument
<1>7. IsDoc(buildLockDocument(k, s.operation, p))
      /\ DOMAIN buildLockDocument(k, s.operation, p) = LockFields
  BY LockDocument
<1>8. IsDoc(buildJournalDocument(k, s.operation, p, Status(s), Committed(k, s)))
      /\ DOMAIN buildJournalDocument(k, s.operation, p, Status(s), Committed(k, s))
           = JournalFields
  BY JournalDocument
<1>9. IsDoc(EvidenceDoc(k, s, p)) /\ DOMAIN EvidenceDoc(k, s, p) = EvidenceFields(k)
  BY EvidenceDocument DEF EvidenceFields
<1> QED
  BY <1>1, <1>2, <1>3, <1>4, <1>5, <1>6, <1>7, <1>8, <1>9, Documents

\* Whole documents of another operation, or one field of one document.
Whole(b) ==
  \A name \in DocumentNames(kind) :
    \E t \in {Base, mix.other} : b[name] = Document(kind, t, ops, name)
OneField(b, changed) ==
  /\ changed \in DocumentNames(kind) \ {"events"}
  /\ \A name \in DocumentNames(kind) \ {changed} : b[name] = Document(kind, Base, ops, name)
  /\ \E f : b[changed] = [Document(kind, Base, ops, changed) EXCEPT
                             ![f] = Document(kind, mix.other, ops, changed)[f]]

\* A bundle is mixed in one of these two ways.
LEMMA BundleForm ==
  ASSUME ReviewInv, NEW b, b = ReviewedBundle
  PROVE  DOMAIN b = DocumentNames(kind) /\ (Whole(b) \/ \E changed : OneField(b, changed))
<1>1. DOMAIN b = DocumentNames(kind)
      /\ \A name \in DocumentNames(kind) :
           b[name] =
             IF name \in mix.docs THEN Document(kind, mix.other, ops, name)
             ELSE IF mix.field # << >> /\ name = mix.field[1]
               THEN [Document(kind, Base, ops, name) EXCEPT
                       ![mix.field[2]] = Document(kind, mix.other, ops, name)[mix.field[2]]]
               ELSE Document(kind, Base, ops, name)
  BY DEF ReviewedBundle
<1>2. CASE mix.field = << >>
  <2>1. Whole(b)
    BY <1>1, <1>2 DEF Whole
  <2> QED
    BY <1>1, <2>1
<1>3. CASE mix.field # << >>
  <2>1. mix.docs = {}
    BY <1>3 DEF ReviewInv, MixOK
  <2>2. PICK changed \in DocumentNames(kind) \ {"events"} :
          \E field : mix.field = <<changed, field>>
    BY <1>3 DEF ReviewInv, MixOK
  <2>3. mix.field[1] = changed
    BY <2>2
  <2>4. OneField(b, changed)
    BY <1>1, <1>3, <2>1, <2>3 DEF OneField
  <2> QED
    BY <1>1, <2>4
<1> QED
  BY <1>2, <1>3

\* What holds of the documents of both operations holds field by field of the bundle.
LEMMA BundleFields ==
  ASSUME ReviewInv, NEW b, b = ReviewedBundle,
         NEW name \in DocumentNames(kind) \ {"events"}
  PROVE  /\ IsDoc(b[name]) /\ DOMAIN b[name] = DocFields(kind)[name]
         /\ \A f \in DOMAIN b[name] :
              \E t \in {Base, mix.other} : b[name][f] = Document(kind, t, ops, name)[f]
<1>1. \A t : IsDoc(Document(kind, t, ops, name))
             /\ DOMAIN Document(kind, t, ops, name) = DocFields(kind)[name]
  BY DocumentShape DEF ReviewInv
<1>2. ASSUME NEW t \in {Base, mix.other}, b[name] = Document(kind, t, ops, name)
      PROVE  /\ IsDoc(b[name]) /\ DOMAIN b[name] = DocFields(kind)[name]
             /\ \A f \in DOMAIN b[name] :
                  \E u \in {Base, mix.other} : b[name][f] = Document(kind, u, ops, name)[f]
  BY <1>1, <1>2
<1>3. ASSUME NEW g, b[name] = [Document(kind, Base, ops, name) EXCEPT
                                 ![g] = Document(kind, mix.other, ops, name)[g]]
      PROVE  /\ IsDoc(b[name]) /\ DOMAIN b[name] = DocFields(kind)[name]
             /\ \A f \in DOMAIN b[name] :
                  \E u \in {Base, mix.other} : b[name][f] = Document(kind, u, ops, name)[f]
  <2> DEFINE d == Document(kind, Base, ops, name)
             e == Document(kind, mix.other, ops, name)
  <2>1. DOMAIN d = DocFields(kind)[name]
    BY <1>1
  <2>2. b[name] = [d EXCEPT ![g] = e[g]]
    BY <1>3
  <2>3. \A f \in DOMAIN d : d[f] = Document(kind, Base, ops, name)[f]
                            /\ e[f] = Document(kind, mix.other, ops, name)[f]
    OBVIOUS
  <2> HIDE DEF d, e
  <2>4. IsDoc(b[name]) /\ DOMAIN b[name] = DOMAIN d
        /\ \A f \in DOMAIN d : b[name][f] = IF f = g THEN e[f] ELSE d[f]
    BY <2>2 DEF IsDoc
  <2>5. ASSUME NEW f \in DOMAIN b[name]
        PROVE  \E u \in {Base, mix.other} : b[name][f] = Document(kind, u, ops, name)[f]
    <3>1. b[name][f] = d[f] \/ b[name][f] = e[f]
      BY <2>4
    <3> QED
      BY <2>3, <2>4, <3>1
  <2> QED
    BY <2>1, <2>4, <2>5
<1>4. \/ \E t \in {Base, mix.other} : b[name] = Document(kind, t, ops, name)
      \/ \E g : b[name] = [Document(kind, Base, ops, name) EXCEPT
                             ![g] = Document(kind, mix.other, ops, name)[g]]
  BY BundleForm DEF Whole, OneField
<1> QED
  BY <1>2, <1>3, <1>4

\* A bundle has the shape that the lemmas above ask for.
LEMMA BundleShape ==
  ASSUME ReviewInv, NEW b, b = ReviewedBundle
  PROVE  /\ Shape(kind, b) /\ LogOK(kind, b.events)
         /\ b.journal.status \in {"succeeded", "failed"}
         /\ b.evidence.status \in {"succeeded", "failed"}
         /\ kind = "backup" => /\ b.journal.committedGeneration = None
                               /\ b.evidence.perDestinationResults = DestinationNames
         /\ mix.other \in Others \cup {Base}
<1>1. DOMAIN b = DocumentNames(kind)
  BY BundleForm
<1>2. \A name \in DocumentNames(kind) \ {"events"} :
        /\ IsDoc(b[name]) /\ DOMAIN b[name] = DocFields(kind)[name]
        /\ \A f \in DOMAIN b[name] :
             \E t \in {Base, mix.other} : b[name][f] = Document(kind, t, ops, name)[f]
  BY BundleFields
<1>3. /\ "journal" \in DocumentNames(kind) \ {"events"}
      /\ "evidence" \in DocumentNames(kind) \ {"events"}
      /\ "events" \in DocumentNames(kind)
  BY NamesOfDocuments
<1>4. kind \in {"backup", "restore"} /\ mix.other \in Others \cup {Base}
  BY DEF ReviewInv, MixOK
<1>5. Shape(kind, b)
  <2>1. /\ DocFields(kind)["policy"] = PolicyFields /\ DocFields(kind)["plan"] = PlanFields(kind)
        /\ DocFields(kind)["manifest"] = ManifestFields /\ DocFields(kind)["kit"] = KitFields
        /\ DocFields(kind)["lock"] = LockFields /\ DocFields(kind)["journal"] = JournalFields
        /\ DocFields(kind)["evidence"] = EvidenceFields(kind)
    BY DEF DocFields
  <2> QED
    BY <1>1, <1>2, <2>1, NamesOfDocuments DEF Shape
<1>6. \A t : /\ Document(kind, t, ops, "journal").status = Status(t)
             /\ Document(kind, t, ops, "journal").committedGeneration = Committed(kind, t)
             /\ Document(kind, t, ops, "evidence").status = Status(t)
             /\ kind = "backup" =>
                  Document(kind, t, ops, "evidence").perDestinationResults = DestinationNames
  <2>1. ASSUME NEW t
        PROVE  /\ Document(kind, t, ops, "journal").status = Status(t)
               /\ Document(kind, t, ops, "journal").committedGeneration = Committed(kind, t)
    BY Documents, JournalDocument
  <2>2. ASSUME NEW t
        PROVE  /\ Document(kind, t, ops, "evidence").status = Status(t)
               /\ kind = "backup" =>
                    Document(kind, t, ops, "evidence").perDestinationResults = DestinationNames
    BY Documents, EvidenceDocument
  <2> QED
    BY <2>1, <2>2
<1>7. "status" \in DOMAIN b.journal /\ "committedGeneration" \in DOMAIN b.journal
      /\ "status" \in DOMAIN b.evidence
      /\ (kind = "backup" => "perDestinationResults" \in DOMAIN b.evidence)
  BY <1>4, <1>5 DEF Shape, JournalFields, EvidenceFields, BackupEvidenceFields,
                    RestoreEvidenceFields, CommonEvidence
<1>8. b.journal.status \in {"succeeded", "failed"} /\ b.evidence.status \in {"succeeded", "failed"}
  <2>1. PICK t : b["journal"]["status"] = Document(kind, t, ops, "journal")["status"]
    BY <1>2, <1>3, <1>7
  <2>2. PICK u : b["evidence"]["status"] = Document(kind, u, ops, "evidence")["status"]
    BY <1>2, <1>3, <1>7
  <2>3. \A s : Status(s) \in {"succeeded", "failed"}
    BY DEF Status
  <2> QED
    BY <1>6, <2>1, <2>2, <2>3
<1>9. kind = "backup" => /\ b.journal.committedGeneration = None
                         /\ b.evidence.perDestinationResults = DestinationNames
  <2>1. ASSUME kind = "backup"  PROVE b.journal.committedGeneration = None
    <3>1. \A t : Committed(kind, t) = None
      BY <2>1 DEF Committed
    <3>2. PICK t : b["journal"]["committedGeneration"]
                     = Document(kind, t, ops, "journal")["committedGeneration"]
      BY <1>2, <1>3, <1>7
    <3> QED
      BY <1>6, <3>1, <3>2
  <2>2. ASSUME kind = "backup"  PROVE b.evidence.perDestinationResults = DestinationNames
    <3>1. PICK t : b["evidence"]["perDestinationResults"]
                     = Document(kind, t, ops, "evidence")["perDestinationResults"]
      BY <1>2, <1>3, <1>7, <2>2
    <3> QED
      BY <1>6, <2>2, <3>1
  <2> QED
    BY <2>1, <2>2
<1>10. LogOK(kind, b.events)
  <2>1. PICK t \in {Base, mix.other} : b["events"] = Document(kind, t, ops, "events")
    BY <1>3, BundleForm DEF Whole, OneField
  <2>2. b.events = LogOf(kind, t)
    BY <2>1, Documents
  <2>3. t \in Others \cup {Base}
    BY <1>4
  <2>4. t.outcome \in Outcomes
    BY <2>3, ReviewAssumption DEF Outcomes
  <2> QED
    BY <1>4, <2>2, <2>4, LogDocument DEF LogOK
<1> QED
  BY <1>4, <1>5, <1>8, <1>9, <1>10

\* A backup bundle is of one operation when all is equal but what nothing binds.
LEMMA BackupOfOne ==
  ASSUME kind = "backup", NEW b, b = ReviewedBundle, NEW s
  PROVE  (\A name \in DocumentNames(kind) \ {"events"} :
            Covered(name, b[name]) = Covered(name, Document(kind, s, ops, name)))
         <=> /\ \A name \in {"plan", "manifest", "kit", "lock", "journal"} :
                  b[name] = Document("backup", s, ops, name)
             /\ Without(b.policy, {"appliedManifestDigest"})
                  = Without(PolicyDoc(s), {"appliedManifestDigest"})
             /\ Without(b.evidence, {"abandoned"})
                  = Without(Document("backup", s, ops, "evidence"), {"abandoned"})
<1>1. DocumentNames(kind) \ {"events"} =
        {"plan", "manifest", "kit", "lock", "journal"} \cup {"policy", "evidence"}
  BY DEF DocumentNames
<1>2. \A d : /\ Covered("policy", d) = Without(d, {"appliedManifestDigest"})
             /\ Covered("evidence", d) = Without(d, {"abandoned"})
             /\ \A name \in {"plan", "manifest", "kit", "lock", "journal"} : Covered(name, d) = d
  BY DEF Covered
<1>3. Document(kind, s, ops, "policy") = PolicyDoc(s)
  BY Documents
<1> QED
  BY <1>1, <1>2, <1>3

\* So for a restore, up to which installation the evidence names.
LEMMA RestoreOfOne ==
  ASSUME kind = "restore", NEW b, b = ReviewedBundle, NEW s,
         IsDoc(b.evidence), DOMAIN b.evidence = RestoreEvidenceFields
  PROVE  (\A name \in DocumentNames(kind) \ {"events"} :
            Covered(name, b[name]) = Covered(name, Document(kind, s, ops, name)))
         <=> /\ \A name \in {"plan", "manifest", "kit", "lock", "journal"} :
                  b[name] = Document("restore", s, ops, name)
             /\ \A f \in RestoreEvidenceFields \ {"abandoned", "target"} :
                  b.evidence[f] = Document("restore", s, ops, "evidence")[f]
             /\ targetConnectionEqual(b.evidence.target,
                                      Document("restore", s, ops, "evidence").target)
<1> DEFINE e == Document("restore", s, ops, "evidence")
           Dropped == {"installationId", "baselineGeneration"}
           Cut(d) == [Without(d, {"abandoned"}) EXCEPT !.target = Without(@, Dropped)]
<1>1. DocumentNames(kind) \ {"events"} =
        {"plan", "manifest", "kit", "lock", "journal"} \cup {"evidence"}
  BY DEF DocumentNames
<1>2. \A d : /\ Covered("evidence", d) = Cut(d)
             /\ \A name \in {"plan", "manifest", "kit", "lock", "journal"} : Covered(name, d) = d
  BY DEF Covered
<1>3. IsDoc(e) /\ DOMAIN e = RestoreEvidenceFields
  BY Documents, EvidenceDocument
<1> HIDE DEF e
<1>4. ASSUME NEW d, DOMAIN d = RestoreEvidenceFields
      PROVE  /\ IsDoc(Cut(d)) /\ DOMAIN Cut(d) = RestoreEvidenceFields \ {"abandoned"}
             /\ \A f \in RestoreEvidenceFields \ {"abandoned", "target"} : Cut(d)[f] = d[f]
             /\ Cut(d).target = Without(d.target, Dropped)
  <2> DEFINE w == Without(d, {"abandoned"})
  <2>1. /\ DOMAIN w = RestoreEvidenceFields \ {"abandoned"}
        /\ \A f \in RestoreEvidenceFields \ {"abandoned"} : w[f] = d[f]
    BY <1>4 DEF Without
  <2>2. "target" \in RestoreEvidenceFields \ {"abandoned"}
    BY DEF RestoreEvidenceFields, CommonEvidence
  <2>3. Cut(d) = [w EXCEPT !.target = Without(w.target, Dropped)]
    OBVIOUS
  <2> HIDE DEF w, Cut
  <2> QED
    BY <2>1, <2>2, <2>3 DEF IsDoc
<1> HIDE DEF Cut
<1>5. Cut(b.evidence) = Cut(e)
        <=> /\ \A f \in RestoreEvidenceFields \ {"abandoned", "target"} : b.evidence[f] = e[f]
            /\ Without(b.evidence.target, Dropped) = Without(e.target, Dropped)
  <2>1. /\ DOMAIN Cut(b.evidence) = RestoreEvidenceFields \ {"abandoned"} /\ IsDoc(Cut(b.evidence))
        /\ \A f \in RestoreEvidenceFields \ {"abandoned", "target"} :
             Cut(b.evidence)[f] = b.evidence[f]
        /\ Cut(b.evidence).target = Without(b.evidence.target, Dropped)
    BY <1>4
  <2>2. /\ DOMAIN Cut(e) = RestoreEvidenceFields \ {"abandoned"} /\ IsDoc(Cut(e))
        /\ \A f \in RestoreEvidenceFields \ {"abandoned", "target"} : Cut(e)[f] = e[f]
        /\ Cut(e).target = Without(e.target, Dropped)
    BY <1>3, <1>4
  <2>3. ASSUME Cut(b.evidence) = Cut(e)
        PROVE  /\ \A f \in RestoreEvidenceFields \ {"abandoned", "target"} : b.evidence[f] = e[f]
               /\ Without(b.evidence.target, Dropped) = Without(e.target, Dropped)
    BY <2>1, <2>2, <2>3
  <2>4. ASSUME \A f \in RestoreEvidenceFields \ {"abandoned", "target"} : b.evidence[f] = e[f],
               Without(b.evidence.target, Dropped) = Without(e.target, Dropped)
        PROVE  Cut(b.evidence) = Cut(e)
    <3>1. \A f \in RestoreEvidenceFields \ {"abandoned"} : Cut(b.evidence)[f] = Cut(e)[f]
      BY <2>1, <2>2, <2>4
    <3> QED
      BY <2>1, <2>2, <3>1, SameDoc
  <2> QED
    BY <2>3, <2>4
<1>6. targetConnectionEqual(b.evidence.target, e.target)
        <=> Without(b.evidence.target, Dropped) = Without(e.target, Dropped)
  BY DEF targetConnectionEqual
<1> QED
  BY <1>1, <1>2, <1>5, <1>6 DEF e

\* The log of an accepted bundle, whose plan is that of one of the operations.
LEMMA AcceptedLog ==
  ASSUME ReviewInv, edits = 0, NEW b, b = ReviewedBundle,
         IF kind = "backup" THEN validateBackupBundle(b) ELSE validateRestoreBundle(b),
         NEW s, s.generation # None, b.plan = PlanDoc(kind, s, ops)
  PROVE  LogAgrees
<1>1. /\ kind \in {"backup", "restore"} /\ ops = CanonicalFlow(kind)
      /\ Shape(kind, b) /\ LogOK(kind, b.events)
  BY BundleShape DEF ReviewInv
<1>2. /\ EvidenceMatchesRun(b) /\ EventsBound(kind, b)
      /\ \A name \in DocumentNames(kind) : Has(b, name)
      /\ kind = "restore" => validateRestoreCommittedGeneration(b.journal, b.events, b.plan)
  BY <1>1, NamesOfDocuments DEF validateBackupBundle, validateRestoreBundle, Has, Shape
<1>3. b.plan.operations = ops
  BY ReviewedPlanFields
<1>4. "evidence.write" \in Once(kind) /\ (kind = "restore" => "state.restore" \in Once(kind))
  BY <1>1 DEF Once, BACKUP_ONCE, RESTORE_ONCE
<1>5. \A a \in Once(kind) : StepSucceeded(b.plan, b.events, a) <=> Named(b.events, a)
  BY <1>1, <1>3, StepsNamed
<1>6. \A n \in DOMAIN b.events : b.events[n].operationId = b.journal.operationId
  BY <1>2, NamesOfDocuments DEF EventsBound
<1>7. b.evidence.abandoned => ~Named(b.events, "evidence.write")
  BY <1>2, <1>4, <1>5, NamesOfDocuments DEF EvidenceMatchesRun
<1>8. ASSUME kind = "restore"
      PROVE  Named(b.events, "state.restore") <=> b.journal.committedGeneration # None
  <2>1. b.plan.source = Source(s)
    BY <1>8, RestorePlan
  <2>2. b.plan.source.generation = s.generation
    BY <2>1 DEF Source
  <2> QED
    BY <1>2, <1>4, <1>5, <1>8, <2>2 DEF validateRestoreCommittedGeneration
<1> QED
  BY <1>6, <1>7, <1>8 DEF LogAgrees, Named

\* Evidence that claims an abandonment which the log does not refute says it failed.
LEMMA AbandonedFailed ==
  ASSUME ReviewInv, edits = 0, NEW b, b = ReviewedBundle, b.evidence.abandoned,
         ~Named(b.events, "evidence.write"), NEW s,
         b.evidence.status = Status(s), b.journal.status = Status(s)
  PROVE  Status(s) = "failed"
<1>1. \A t : /\ Document(kind, t, ops, "journal").status = Status(t)
             /\ Document(kind, t, ops, "evidence").status = Status(t)
             /\ Document(kind, t, ops, "evidence").abandoned <=> t.outcome = "abandoned"
  <2>1. ASSUME NEW t PROVE Document(kind, t, ops, "journal").status = Status(t)
    BY Documents, JournalDocument
  <2>2. ASSUME NEW t
        PROVE  /\ Document(kind, t, ops, "evidence").status = Status(t)
               /\ Document(kind, t, ops, "evidence").abandoned <=> t.outcome = "abandoned"
    BY Documents, EvidenceDocument
  <2> QED
    BY <2>1, <2>2
<1>2. \A t : t.outcome = "abandoned" => Status(t) = "failed"
  BY DEF Status
<1>3. {"journal", "evidence", "events"} \subseteq DocumentNames(kind)
  BY NamesOfDocuments
<1>4. CASE \E t : b["evidence"] = Document(kind, t, ops, "evidence")
  BY <1>1, <1>2, <1>4
<1>5. CASE OneField(b, "evidence")
  <2>1. b["events"] = Document(kind, Base, ops, "events")
        /\ b["journal"] = Document(kind, Base, ops, "journal")
    BY <1>3, <1>5 DEF OneField
  <2>2. b.events = LogOf(kind, Base)
    BY <2>1, Documents
  <2>3. kind \in {"backup", "restore"} /\ Base.outcome \in Outcomes
    BY ReviewAssumption DEF ReviewInv, Outcomes
  <2>4. Base.outcome = "abandoned"
    BY <2>2, <2>3, LogDocument DEF Named
  <2> QED
    BY <1>1, <1>2, <2>1, <2>4
<1>6. (\E t : b["evidence"] = Document(kind, t, ops, "evidence")) \/ OneField(b, "evidence")
  BY <1>3, BundleForm DEF Whole, OneField
<1> QED
  BY <1>4, <1>5, <1>6

\* A backup bundle is accepted exactly when it is of one operation and the log agrees.
LEMMA BackupBundleVerdict ==
  ASSUME ReviewInv, edits = 0, kind = "backup"
  PROVE  assertBundleBinding(kind, ReviewedBundle) <=> OfOneOperation /\ LogAgrees
<1> DEFINE b == ReviewedBundle
<1> HIDE DEF b
<1>1. b = ReviewedBundle
  BY DEF b
<1>2. /\ ops = CanonicalFlow("backup") /\ Shape("backup", b) /\ LogOK("backup", b.events)
      /\ b.journal.status \in {"succeeded", "failed"}
      /\ b.evidence.status \in {"succeeded", "failed"}
      /\ b.journal.committedGeneration = None
      /\ b.evidence.perDestinationResults = DestinationNames
      /\ mix.other \in Others \cup {Base}
  BY <1>1, BundleShape DEF ReviewInv
<1>3. \A s \in {Base, mix.other} : s.generation # None
  BY <1>2, ReviewAssumption
<1>4. OfOneOperation <=>
        \E s \in {Base, mix.other} :
          /\ \A name \in {"plan", "manifest", "kit", "lock", "journal"} :
               b[name] = Document("backup", s, ops, name)
          /\ Without(b.policy, {"appliedManifestDigest"})
               = Without(PolicyDoc(s), {"appliedManifestDigest"})
          /\ Without(b.evidence, {"abandoned"})
               = Without(Document("backup", s, ops, "evidence"), {"abandoned"})
  BY <1>1, BackupOfOne DEF OfOneOperation
<1>5. \A s : /\ Document("backup", s, ops, "plan") = PlanDoc("backup", s, ops)
             /\ Document("backup", s, ops, "journal").status = Status(s)
             /\ Document("backup", s, ops, "evidence").status = Status(s)
             /\ Document("backup", s, ops, "evidence").operationId = s.operation
             /\ Document("backup", s, ops, "evidence").planId = PlanDoc("backup", s, ops).planId
             /\ Document("backup", s, ops, "evidence").manifestDigest
                  = canonicalDocumentDigest(ManifestDoc(s))
             /\ DOMAIN Document("backup", s, ops, "evidence") = BackupEvidenceFields
  <2>1. ASSUME NEW s
        PROVE  /\ Document("backup", s, ops, "plan") = PlanDoc("backup", s, ops)
               /\ Document("backup", s, ops, "journal").status = Status(s)
    BY Documents, JournalDocument
  <2>2. ASSUME NEW s
        PROVE  /\ Document("backup", s, ops, "evidence").status = Status(s)
               /\ Document("backup", s, ops, "evidence").operationId = s.operation
               /\ Document("backup", s, ops, "evidence").planId
                    = PlanDoc("backup", s, ops).planId
               /\ Document("backup", s, ops, "evidence").manifestDigest
                    = canonicalDocumentDigest(ManifestDoc(s))
               /\ DOMAIN Document("backup", s, ops, "evidence") = BackupEvidenceFields
    BY Documents, EvidenceDocument
  <2> QED
    BY <2>1, <2>2
<1>6. {"plan", "policy", "manifest", "kit", "lock", "journal", "evidence"}
        \subseteq DocumentNames(kind)
  BY NamesOfDocuments
<1>7. ASSUME validateBackupBundle(b)  PROVE OfOneOperation /\ LogAgrees
  <2>1. ASSUME NEW s \in {Base, mix.other}, b["evidence"] = Document(kind, s, ops, "evidence")
        PROVE  OfOneOperation /\ b.plan = PlanDoc(kind, s, ops)
    <3>1. /\ b.evidence.planId = PlanDoc("backup", s, ops).planId
          /\ b.evidence.manifestDigest = canonicalDocumentDigest(ManifestDoc(s))
          /\ b.evidence.operationId = s.operation /\ b.evidence.status = Status(s)
      BY <1>5, <2>1
    <3>2. /\ \A name \in {"plan", "manifest", "kit", "lock", "journal"} :
               b[name] = Document("backup", s, ops, name)
          /\ Without(b.policy, {"appliedManifestDigest"})
               = Without(PolicyDoc(s), {"appliedManifestDigest"})
      BY <1>2, <1>7, <3>1, BackupTraced
    <3>3. Without(b.evidence, {"abandoned"})
            = Without(Document("backup", s, ops, "evidence"), {"abandoned"})
      BY <2>1
    <3>4. OfOneOperation
      BY <1>4, <3>2, <3>3
    <3> QED
      BY <1>5, <3>2, <3>4
  <2>2. ASSUME OneField(b, "evidence")
        PROVE  OfOneOperation /\ b.plan = PlanDoc(kind, Base, ops)
    <3>1. /\ \A name \in {"plan", "manifest", "kit", "lock", "journal"} :
               b[name] = Document("backup", Base, ops, name)
          /\ b["policy"] = Document("backup", Base, ops, "policy")
      BY <1>6, <2>2 DEF OneField
    <3>2. Without(b.evidence, {"abandoned"})
            = Without(Document("backup", Base, ops, "evidence"), {"abandoned"})
      BY <1>2, <1>7, <3>1, BackupEvidenceTraced
    <3>3. Without(b.policy, {"appliedManifestDigest"})
            = Without(PolicyDoc(Base), {"appliedManifestDigest"})
      BY <3>1, Documents
    <3>4. OfOneOperation
      BY <1>4, <3>1, <3>2, <3>3
    <3> QED
      BY <1>5, <3>1, <3>4
  <2>3. \/ \E s \in {Base, mix.other} : b["evidence"] = Document(kind, s, ops, "evidence")
        \/ OneField(b, "evidence")
    BY <1>1, <1>6, BundleForm DEF Whole, OneField
  <2>4. OfOneOperation /\ \E s \in {Base, mix.other} : b.plan = PlanDoc(kind, s, ops)
    BY <2>1, <2>2, <2>3
  <2>5. LogAgrees
    BY <1>1, <1>3, <1>7, <2>4, AcceptedLog
  <2> QED
    BY <2>4, <2>5
<1>8. ASSUME OfOneOperation, LogAgrees
      PROVE  validateBackupBundle(b) /\ assertPlanValid(kind, b.plan)
  <2>1. PICK s \in {Base, mix.other} :
          /\ \A name \in {"plan", "manifest", "kit", "lock", "journal"} :
               b[name] = Document("backup", s, ops, name)
          /\ Without(b.policy, {"appliedManifestDigest"})
               = Without(PolicyDoc(s), {"appliedManifestDigest"})
          /\ Without(b.evidence, {"abandoned"})
               = Without(Document("backup", s, ops, "evidence"), {"abandoned"})
    BY <1>4, <1>8
  <2>2. /\ \A n \in DOMAIN b.events : b.events[n].operationId = b.journal.operationId
        /\ b.evidence.abandoned => ~Named(b.events, "evidence.write")
    BY <1>1, <1>8 DEF LogAgrees, Named
  <2>3. b.journal.status = Status(s)
    BY <1>5, <2>1
  <2>4. b.evidence.status = Status(s)
    <3>1. DOMAIN b.evidence = BackupEvidenceFields
      BY <1>2 DEF Shape, EvidenceFields
    <3>2. "status" \in BackupEvidenceFields \ {"abandoned"}
      BY DEF BackupEvidenceFields, CommonEvidence
    <3> DEFINE e == Document("backup", s, ops, "evidence")
    <3>3. DOMAIN e = BackupEvidenceFields /\ e.status = Status(s)
          /\ Without(b.evidence, {"abandoned"}) = Without(e, {"abandoned"})
      BY <1>5, <2>1
    <3> HIDE DEF e
    <3>4. b.evidence["status"] = e["status"]
      BY <3>1, <3>2, <3>3, SameWithout
    <3> QED
      BY <3>3, <3>4
  <2>5. b.evidence.abandoned => Status(s) = "failed"
    BY <1>1, <2>2, <2>3, <2>4, AbandonedFailed
  <2>6. validateBackupBundle(b)
    BY <1>2, <2>1, <2>2, <2>5, BackupAccepted
  <2>7. assertPlanValid(kind, b.plan)
    <3>1. assertPlanValid(kind, PlanDoc(kind, s, ops))
      BY <1>2, CanonicalAccepted
    <3>2. b.plan = PlanDoc(kind, s, ops)
      BY <1>5, <2>1
    <3> QED
      BY <3>1, <3>2
  <2> QED
    BY <2>6, <2>7
<1>9. assertBundleBinding(kind, b)
        <=> (Has(b, "plan") => assertPlanValid(kind, b.plan)) /\ validateBackupBundle(b)
  BY DEF assertBundleBinding
<1> QED
  BY <1>1, <1>7, <1>8, <1>9

\* So is a restore bundle.
LEMMA RestoreBundleVerdict ==
  ASSUME ReviewInv, edits = 0, kind = "restore"
  PROVE  assertBundleBinding(kind, ReviewedBundle) <=> OfOneOperation /\ LogAgrees
<1> DEFINE b == ReviewedBundle
<1> HIDE DEF b
<1>1. b = ReviewedBundle
  BY DEF b
<1>2. /\ ops = CanonicalFlow("restore") /\ Shape("restore", b) /\ LogOK("restore", b.events)
      /\ b.journal.status \in {"succeeded", "failed"}
      /\ b.evidence.status \in {"succeeded", "failed"}
      /\ mix.other \in Others \cup {Base}
  BY <1>1, BundleShape DEF ReviewInv
<1>3. \A s \in {Base, mix.other} : s.generation # None /\ s.outcome \in Outcomes
  BY <1>2, ReviewAssumption DEF Outcomes
<1>4. OfOneOperation <=>
        \E s \in {Base, mix.other} :
          /\ \A name \in {"plan", "manifest", "kit", "lock", "journal"} :
               b[name] = Document("restore", s, ops, name)
          /\ \A f \in RestoreEvidenceFields \ {"abandoned", "target"} :
               b.evidence[f] = Document("restore", s, ops, "evidence")[f]
          /\ targetConnectionEqual(b.evidence.target,
                                   Document("restore", s, ops, "evidence").target)
  <2>1. IsDoc(b.evidence) /\ DOMAIN b.evidence = RestoreEvidenceFields
    BY <1>2 DEF Shape, EvidenceFields
  <2> QED
    BY <1>1, <2>1, RestoreOfOne DEF OfOneOperation
<1>5. \A s : /\ Document("restore", s, ops, "plan") = PlanDoc("restore", s, ops)
             /\ Document("restore", s, ops, "journal").status = Status(s)
             /\ Document("restore", s, ops, "evidence").status = Status(s)
  <2>1. ASSUME NEW s
        PROVE  /\ Document("restore", s, ops, "plan") = PlanDoc("restore", s, ops)
               /\ Document("restore", s, ops, "journal").status = Status(s)
    BY Documents, JournalDocument
  <2>2. ASSUME NEW s  PROVE Document("restore", s, ops, "evidence").status = Status(s)
    BY Documents, EvidenceDocument
  <2> QED
    BY <2>1, <2>2
<1>6. {"plan", "manifest", "kit", "lock", "journal", "evidence", "events"}
        \subseteq DocumentNames(kind)
  BY NamesOfDocuments
<1>7. ASSUME validateRestoreBundle(b)  PROVE OfOneOperation /\ LogAgrees
  <2>1. ASSUME NEW s \in {Base, mix.other}, b["journal"] = Document(kind, s, ops, "journal")
        PROVE  OfOneOperation /\ b.plan = PlanDoc(kind, s, ops)
    <3>1. /\ \A name \in {"plan", "manifest", "kit", "lock"} :
               b[name] = Document("restore", s, ops, name)
          /\ \A f \in RestoreEvidenceFields \ {"abandoned", "target"} :
               b.evidence[f] = Document("restore", s, ops, "evidence")[f]
          /\ targetConnectionEqual(b.evidence.target,
                                   Document("restore", s, ops, "evidence").target)
      BY <1>2, <1>7, <2>1, RestoreTraced
    <3>2. OfOneOperation
      BY <1>4, <2>1, <3>1
    <3> QED
      BY <1>5, <3>1, <3>2
  <2>2. ASSUME OneField(b, "journal")
        PROVE  b["journal"] = Document(kind, Base, ops, "journal")
    <3>1. \A name \in {"plan", "lock", "events", "evidence"} :
            b[name] = Document("restore", Base, ops, name)
      BY <1>6, <2>2 DEF OneField
    <3> QED
      BY <1>2, <1>3, <1>7, <3>1, RestoreJournalTraced
  <2>3. \/ \E s \in {Base, mix.other} : b["journal"] = Document(kind, s, ops, "journal")
        \/ OneField(b, "journal")
    BY <1>1, <1>6, BundleForm DEF Whole, OneField
  <2>4. OfOneOperation /\ \E s \in {Base, mix.other} : b.plan = PlanDoc(kind, s, ops)
    BY <2>1, <2>2, <2>3
  <2>5. LogAgrees
    BY <1>1, <1>3, <1>7, <2>4, AcceptedLog
  <2> QED
    BY <2>4, <2>5
<1>8. ASSUME OfOneOperation, LogAgrees
      PROVE  validateRestoreBundle(b) /\ assertPlanValid(kind, b.plan)
  <2>1. PICK s \in {Base, mix.other} :
          /\ \A name \in {"plan", "manifest", "kit", "lock", "journal"} :
               b[name] = Document("restore", s, ops, name)
          /\ \A f \in RestoreEvidenceFields \ {"abandoned", "target"} :
               b.evidence[f] = Document("restore", s, ops, "evidence")[f]
          /\ targetConnectionEqual(b.evidence.target,
                                   Document("restore", s, ops, "evidence").target)
    BY <1>4, <1>8
  <2>2. /\ \A n \in DOMAIN b.events : b.events[n].operationId = b.journal.operationId
        /\ b.evidence.abandoned => ~Named(b.events, "evidence.write")
        /\ Named(b.events, "state.restore") <=> b.journal.committedGeneration # None
    BY <1>1, <1>8 DEF LogAgrees, Named
  <2>3. b.journal.status = Status(s)
    BY <1>5, <2>1
  <2>4. b.evidence.status = Status(s)
    <3>1. "status" \in RestoreEvidenceFields \ {"abandoned", "target"}
      BY DEF RestoreEvidenceFields, CommonEvidence
    <3>2. b.evidence["status"] = Document("restore", s, ops, "evidence")["status"]
      BY <2>1, <3>1
    <3> QED
      BY <1>5, <3>2
  <2>5. b.evidence.abandoned => Status(s) = "failed"
    BY <1>1, <2>2, <2>3, <2>4, AbandonedFailed
  <2>6. validateRestoreBundle(b)
    BY <1>2, <1>3, <2>1, <2>2, <2>5, RestoreAccepted
  <2>7. assertPlanValid(kind, b.plan)
    <3>1. assertPlanValid(kind, PlanDoc(kind, s, ops))
      BY <1>2, CanonicalAccepted
    <3>2. b.plan = PlanDoc(kind, s, ops)
      BY <1>5, <2>1
    <3> QED
      BY <3>1, <3>2
  <2> QED
    BY <2>6, <2>7
<1>9. assertBundleBinding(kind, b)
        <=> (Has(b, "plan") => assertPlanValid(kind, b.plan)) /\ validateRestoreBundle(b)
  BY DEF assertBundleBinding
<1> QED
  BY <1>1, <1>7, <1>8, <1>9

\* validateBackupBundle() and validateRestoreBundle() accept a complete bundle, whatever
\* was mixed into it, exactly when all its documents are those of one operation and the
\* log agrees with what was concluded from it.
THEOREM BundleVerdictMatchesProvenanceHolds == OpSpec => []BundleVerdictMatchesProvenance
<1>1. ReviewInv => BundleVerdictMatchesProvenance
  BY BackupBundleVerdict, RestoreBundleVerdict DEF ReviewInv, BundleVerdictMatchesProvenance
<1> QED
  BY <1>1, ReviewInvHolds, PTL
=============================================================================
