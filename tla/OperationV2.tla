----------------------------- MODULE OperationV2 -----------------------------
(***************************************************************************)
(* The write wrappers of scripts/operation-v2.mjs for backup and restore   *)
(* operations: writeLockAndJournal(), writeJournalStatus() and             *)
(* writeEvent(), each a check on the caller's side followed, later, by one *)
(* fenced script on the target (scripts/target-mutate.mjs).                *)
(*                                                                         *)
(* Several calls may be in flight at once, of one lease holder or of       *)
(* successive ones; a call may be lost before its script runs; the lease   *)
(* may pass on at any time.  The lease itself is ExecLease; of it only its *)
(* promise is used, that a write under an old token is refused.  A journal *)
(* is persisted with the approved plan, or, after tampering, with one of   *)
(* another step under the same planId.                                     *)
(***************************************************************************)
EXTENDS BackupReview

CONSTANTS
  Op,          \* operation ids
  Call,        \* calls that may be in flight at once
  Bogus,       \* a step of no plan
  EventActions,\* the actions whose steps get events
  MaxLease, MaxEvents, MaxTampers  \* bounds: holders, events written, hand edits

VARIABLES lease,    \* token of the current lease holder; 0 before the first
          lock,     \* lock.json: an operation of Op or None
          journal,  \* [Op -> journal or None]
          events,   \* [Op -> sequence of events]
          calls,    \* [Call -> call in flight or None]
          careless, \* a holder ran two calls at once, or finished an operation blindly
          tampers

opVars == <<lease, lock, journal, events, calls, careless, tampers>>

Terminal == {"succeeded", "failed"}
Journals(statuses) ==
  [plan : {"approved", "altered"}, status : statuses,
   committedGeneration : {None, Base.generation}]

ASSUME OpAssumption ==
  /\ MaxLease \in Nat
  /\ None \notin Op
  /\ None \notin Journals(Terminal \cup {"in-progress"})
  /\ Base.generation # None

-----------------------------------------------------------------------------
ApprovedPlan == PlanDoc(kind, Base, ops)

PersistedPlan(j) ==
  IF j.plan = "approved" THEN ApprovedPlan
  ELSE [ApprovedPlan EXCEPT !.operations[2].id = Bogus]

\* The journal document behind the state's short form; its planId stays.
JournalDoc(o, j) ==
  buildJournalDocument(kind, o, PersistedPlan(j), j.status, j.committedGeneration)

OpInit ==
  /\ lease = 0 /\ lock = None
  /\ journal = [o \in Op |-> None]
  /\ events = [o \in Op |-> << >>]
  /\ calls = [c \in Call |-> None]
  /\ careless = FALSE /\ tampers = 0

\* The lease expires or is released, and the next client takes it.
NextHolder ==
  /\ lease < MaxLease
  /\ lease' = lease + 1
  /\ UNCHANGED <<lock, journal, events, calls, careless, tampers>>

-----------------------------------------------------------------------------
(* The caller's side.                                                      *)

\* assertLeaseHealthy(): the caller owns the lease at this moment; its token
\* travels with the write.
assertLeaseHealthy(c) == calls[c] = None /\ lease > 0

Start(c, call, blind) ==
  /\ calls' = [calls EXCEPT ![c] = call]
  /\ careless' = (careless \/ blind
                    \/ \E d \in Call : calls[d] # None /\ calls[d].token = lease)
  /\ UNCHANGED <<lease, lock, journal, events, tampers>>

\* A caller builds lock and journal; nothing ties the two before the binding.
writeLockAndJournal(c) ==
  /\ assertLeaseHealthy(c)
  /\ \E lockOp, o \in Op :
       LET lockDoc    == buildLockDocument(kind, lockOp, ApprovedPlan)
           journalDoc == buildJournalDocument(kind, o, ApprovedPlan, "in-progress", None)
       IN  /\ assertBundleBinding(kind, [plan |-> journalDoc.plan, lock |-> lockDoc,
                                         journal |-> journalDoc])
           /\ Start(c, [does |-> "create", token |-> lease, op |-> o, lockOp |-> lockOp],
                    FALSE)

\* Mutant: the persisted status is not looked at.
MayTransitionAny(persisted) == TRUE

\* The persisted journal is read back; a terminal one is never updated.
MayTransition(persisted) == persisted.status \notin Terminal

\* The candidate is bound to the persisted plan, and to the events if the caller
\* brings them: its `bundle` may do without.
writeJournalStatus(c) ==
  /\ assertLeaseHealthy(c)
  /\ \E o \in {p \in Op : journal[p] # None} :
       /\ MayTransition(journal[o])
       /\ \E status \in Terminal, committedGeneration \in {None, Base.generation} :
            LET candidate == [journal[o] EXCEPT !.status = status,
                                                !.committedGeneration = committedGeneration]
                call      == [does |-> "status", token |-> lease, op |-> o,
                              seen |-> journal[o], next |-> candidate]
            IN  /\ kind = "backup" => committedGeneration = None
                /\ \/ /\ assertBundleBinding(kind, [plan    |-> PersistedPlan(candidate),
                                                    journal |-> JournalDoc(o, candidate),
                                                    events  |-> events[o]])
                      /\ Start(c, call, FALSE)
                   \/ /\ assertBundleBinding(kind, [plan    |-> PersistedPlan(candidate),
                                                    journal |-> JournalDoc(o, candidate)])
                      /\ Start(c, call, TRUE)

\* Mutant: the persisted plan is used without recomputing its id.
PersistedJournalTrustedAsIs(o, persisted) == TRUE

\* The persisted plan must still be what its planId says.
PersistedJournalTrusted(o, persisted) ==
  assertBundleBinding(kind, [plan |-> PersistedPlan(persisted),
                             journal |-> JournalDoc(o, persisted)])

EventSteps ==
  {ops[i].id : i \in {j \in DOMAIN ops : ops[j].action \in EventActions}} \cup {Bogus}

\* The step is looked up in the persisted plan, never in one the caller brings.
writeEvent(c) ==
  /\ assertLeaseHealthy(c)
  /\ Cardinality(UNION {{o} \X DOMAIN events[o] : o \in Op}) < MaxEvents
  /\ \E o \in {p \in Op : journal[p] # None} :
       /\ journal[o].status = "in-progress"
       /\ PersistedJournalTrusted(o, journal[o])
       /\ \E step \in EventSteps, phase \in {"failed", "succeeded"} :
            /\ \E i \in DOMAIN ops : PersistedPlan(journal[o]).operations[i].id = step
            /\ Start(c, [does |-> "event", token |-> lease, op |-> o, seen |-> journal[o],
                         event |-> buildEvent(kind, o, step, phase)], FALSE)

-----------------------------------------------------------------------------
(* The target's side: one script under the lock guard.                     *)

\* Mutant: the token is not compared on the target.
FencedNowhere(call) == TRUE

\* leaseFencingScript(): the owner record still carries the call's token.
Fenced(call) == call.token = lease

Finish(c) == calls' = [calls EXCEPT ![c] = None]

NewJournal == [plan |-> "approved", status |-> "in-progress", committedGeneration |-> None]

\* Mutant: the lock first, then the journal.
acquireLockAndJournalLockFirst(c) ==
  LET call == calls[c]
  IN  /\ call # None /\ call.does = "create"
      /\ \/ /\ Fenced(call) /\ lock = None
            /\ lock' = call.lockOp
            /\ journal' \in {journal, [journal EXCEPT ![call.op] = NewJournal]}
         \/ ~Fenced(call) /\ UNCHANGED <<journal, lock>>
      /\ Finish(c)
      /\ UNCHANGED <<lease, events, careless, tampers>>

\* acquireLockAndJournalScript(): the journal first, removed again when the lock
\* is taken; the script may die between the two files.
acquireLockAndJournal(c) ==
  LET call == calls[c]
  IN  /\ call # None /\ call.does = "create"
      /\ \/ /\ Fenced(call) /\ journal[call.op] = None
            /\ \/ lock = None /\ lock' = call.lockOp
               \/ UNCHANGED lock
            /\ journal' = [journal EXCEPT ![call.op] = NewJournal]
         \/ /\ ~Fenced(call) \/ journal[call.op] # None \/ lock # None
            /\ UNCHANGED <<journal, lock>>
      /\ Finish(c)
      /\ UNCHANGED <<lease, events, careless, tampers>>

\* Mutant: whatever is there is overwritten.
UnchangedSinceReadIgnored(call) == TRUE

\* journalCasCheckScript() and journalGuardForEventScript(): the journal still is,
\* byte for byte, the one the caller read, which was not terminal.
UnchangedSinceRead(call) == journal[call.op] = call.seen

updateJournalStatus(c) ==
  LET call == calls[c]
  IN  /\ call # None /\ call.does = "status"
      /\ journal' = IF Fenced(call) /\ UnchangedSinceRead(call)
                      THEN [journal EXCEPT ![call.op] = call.next] ELSE journal
      /\ Finish(c)
      /\ UNCHANGED <<lease, lock, events, careless, tampers>>

appendEvent(c) ==
  LET call == calls[c]
  IN  /\ call # None /\ call.does = "event"
      /\ events' = IF Fenced(call) /\ UnchangedSinceRead(call)
                     THEN [events EXCEPT ![call.op] = Append(@, call.event)] ELSE events
      /\ Finish(c)
      /\ UNCHANGED <<lease, lock, journal, careless, tampers>>

\* The connection drops before the script runs.
LoseCall(c) ==
  /\ calls[c] # None
  /\ Finish(c)
  /\ UNCHANGED <<lease, lock, journal, events, careless, tampers>>

\* releaseLock() compares the operationId; the runner calls it when it is done.
releaseLock ==
  /\ lock \in Op /\ journal[lock] # None /\ journal[lock].status \in Terminal
  /\ lock' = None
  /\ UNCHANGED <<lease, journal, events, calls, careless, tampers>>

\* A hand edits the persisted plan and leaves its planId.
TamperJournal ==
  /\ tampers < MaxTampers
  /\ \E o \in Op : /\ journal[o] # None /\ journal[o].status = "in-progress"
                   /\ journal' = [journal EXCEPT ![o].plan = "altered"]
  /\ tampers' = tampers + 1
  /\ UNCHANGED <<lease, lock, events, calls, careless>>

OpNext ==
  \/ NextHolder
  \/ \E c \in Call :
       \/ writeLockAndJournal(c) \/ writeJournalStatus(c) \/ writeEvent(c)
       \/ acquireLockAndJournal(c) \/ updateJournalStatus(c) \/ appendEvent(c)
       \/ LoseCall(c)
  \/ releaseLock
  \/ TamperJournal

\* Nothing is written before the plan is approved, and it stays as approved.
ReviewedNext ==
  \/ ReviewNext /\ UNCHANGED opVars
  \/ stage = "approved" /\ OpNext /\ UNCHANGED reviewVars

OpSpec == ReviewInit /\ OpInit /\ [][ReviewedNext]_<<reviewVars, opVars>>

-----------------------------------------------------------------------------
(* Properties.                                                             *)

EventRecords ==
  [operationKind : {kind}, operationId : Op, step : EventSteps, phase : {"failed", "succeeded"}]

\* Calls carry a token handed out before and a journal read while in progress.
OpTypeOK ==
  /\ lease \in 0..MaxLease
  /\ lock \in Op \cup {None}
  /\ journal \in [Op -> Journals(Terminal \cup {"in-progress"}) \cup {None}]
  /\ events \in [Op -> Seq(EventRecords)]
  /\ \A c \in Call : calls[c] # None =>
       /\ calls[c].token \in 1..lease
       /\ calls[c].does # "create" => calls[c].seen \in Journals({"in-progress"})

\* A finished operation is frozen: no late or concurrent call rewrites its terminal
\* status or appends to its log (writeJournalStatus(), writeEvent() and their
\* compare-and-swap on the target).
FinishedOperationIsFrozen ==
  [][\A o \in Op : journal[o] # None /\ journal[o].status \in Terminal =>
       journal'[o] = journal[o] /\ events'[o] = events[o]]_opVars

\* Every event names a step of the plan that was approved, also when the persisted
\* journal was altered before, between or after the reads (writeEvent()).
EventsFollowApprovedPlan ==
  \A o \in Op : \A n \in DOMAIN events[o] :
    \E i \in DOMAIN ops : events[o][n].step = ops[i].id

\* The log shows that the plan's own state.restore step succeeded.
Restored(log) ==
  /\ kind = "restore"
  /\ \E n \in DOMAIN log, i \in DOMAIN ops :
       /\ ops[i].action = "state.restore"
       /\ log[n].step = ops[i].id /\ log[n].phase = "succeeded"

\* A finished restore says it committed a generation exactly when its log shows
\* state.restore succeeded, although the lease passes on between any two steps, as
\* long as no holder ran two calls at once or left the log out of a status call
\* (writeJournalStatus(), validateRestoreCommittedGeneration()).
CommittedGenerationIsHonest ==
  ~careless => \A o \in Op :
    journal[o] # None /\ journal[o].status \in Terminal =>
      (journal[o].committedGeneration # None <=> Restored(events[o]))

\* lock.json never names an operation without a journal, although callers may bring
\* lock and journal of different operations and the script may die between its two
\* files (writeLockAndJournal(), acquireLockAndJournalScript()).
LockNamesItsJournal == lock \in Op => journal[lock] # None
=============================================================================
