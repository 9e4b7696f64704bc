------------------------------- MODULE Apply -------------------------------
(***************************************************************************)
(* hofctl apply (scripts/apply.mjs, runApply) against one target: several  *)
(* invocations, fresh or --resume, sharing the execution lease, the        *)
(* durable lock, the operation journals with their event streams, and the  *)
(* state directory that the state role (ansible/roles/state) commits.      *)
(*                                                                         *)
(* The lease is used at the level FencedLease promises: `holder` is the    *)
(* invocation whose fenced writes land.  Dispatched roles and releaseLock  *)
(* are not fenced.  A role runs as a job of its own: it survives a crash   *)
(* of the invocation that started it.                                      *)
(*                                                                         *)
(* An operation is named by the invocation that created it; Genesis is the *)
(* operation that made the initial installation, if there is one.  A file  *)
(* of the state directory is modelled by the operation whose content it    *)
(* holds: current.json carries its operationId, so two operations never    *)
(* write the same bytes.                                                   *)
(***************************************************************************)
EXTENDS StepResumption

CONSTANTS
  Proc,           \* hofctl invocations
  Genesis,        \* the operation behind the initial installation
  None,
  NSteps,         \* operations of a plan; the last is state.commit
  MaxGeneration,  \* bound: generations of the installation
  MaxFaults,      \* bound: crashes, errors, failed roles and stalls together
  CanStall,       \* may the lease expire under an invocation that still runs?
  JobsOutlive,    \* does a role keep running after its invocation crashed?
  SameDigest      \* may two operations render the same topologyDigest?

ASSUME ApplyAssumption ==
  /\ Genesis \notin Proc /\ None \notin Proc /\ None # Genesis
  /\ NSteps \in Nat \ {0} /\ MaxGeneration \in Nat \ {0}
  /\ MaxFaults \in Nat
  /\ CanStall \in BOOLEAN /\ JobsOutlive \in BOOLEAN /\ SameDigest \in BOOLEAN

Op == Proc \cup {Genesis}
Step == 1..NSteps
Commit == NSteps
Generation == 1..MaxGeneration

VARIABLES
  (* on the target *)
  holder,      \* execution lease
  lock,        \* lock.json: the operation it names
  journal,     \* journal/<op>.json: status and the generation its plan commits
  events,      \* journal/<op>.events.ndjson
  snapshot,    \* generations/NNNNNN/
  topology,    \* topology.json
  current,     \* current.json
  managed,     \* does the host carry hof-managed Docker resources?
  done,        \* steps of each operation whose role ran to its end
  dispatches,  \* history: how often each step was dispatched
  (* of each invocation *)
  pc, mode, op, base, view, step, lost, job,
  faults

target  == <<lock, journal, events>>
stateDir == <<snapshot, topology, current, managed, done>>
procVars == <<mode, op, base, view, step>>
vars == <<holder, lock, journal, events, snapshot, topology, current, managed,
          done, dispatches, pc, mode, op, base, view, step, lost, job, faults>>

Status == {"absent", "in-progress", "failed", "succeeded"}
PC == {"idle", "leasing", "leased", "locked", "reading", "loop", "starting",
       "dispatch", "waiting", "succeeding", "failing", "failed", "recover",
       "pointers", "redispatch", "rewaiting", "reverify", "finishing",
       "unlock", "exit"}
JobAt == {"none", "run", "stat", "publish", "topology", "current", "ok", "failed"}

Event == [step : Step, attempt : {1}, phase : Phase]

NoJournal == [status |-> "absent", generation |-> 0]
NoJob == [op |-> None, step |-> 0, at |-> "none"]

JobRunning(p) == job[p].at \notin {"none", "ok", "failed"}

GenerationOf(o) ==
  CASE o = None -> 0
    [] o = Genesis -> 1
    [] OTHER -> journal[o].generation

\* resolveBaseline(): no pointer file and a clean host, or two of them whose
\* topologyDigest agrees.  The digest covers neither the Compose units nor the
\* generation, so a repair or a certificate rotation leaves it as it was.
BaselineResolves ==
  IF current = None THEN topology = None /\ ~managed
  ELSE topology # None /\ (topology = current \/ SameDigest)

\* releaseLock(): compares the operationId, and nothing else.
ReleasedLock(o) == IF lock = o THEN None ELSE lock

\* What a fenced write of the dispatch loop needs: the cached flag of
\* refuseIfLeaseLost()/assertOwnership(), and the target-side fence.
MayWrite(p) == ~lost[p] /\ holder = p

UnderLease(p) == pc[p] \notin {"idle", "leasing"}

Go(p, to) == pc' = [pc EXCEPT ![p] = to]

Fault == faults < MaxFaults /\ faults' = faults + 1

AppendEvent(o, s, ph) ==
  events' = [events EXCEPT ![o] = Append(@, BuildEvent(s, 1, ph))]

\* An invocation ends: whatever it remembered is gone.
Forget(p) ==
  /\ pc' = [pc EXCEPT ![p] = "idle"]
  /\ op' = [op EXCEPT ![p] = None]
  /\ base' = [base EXCEPT ![p] = 0]
  /\ view' = [view EXCEPT ![p] = <<>>]
  /\ step' = [step EXCEPT ![p] = 0]
  /\ lost' = [lost EXCEPT ![p] = FALSE]
  /\ UNCHANGED mode

-----------------------------------------------------------------------------
(* Invocation and lease.                                                   *)

\* The first inspection happens before the lease is taken.  An invocation
\* creates at most one operation; it may resume any number of times.
StartFresh(p) ==
  /\ pc[p] = "idle" /\ holder # p /\ ~JobRunning(p)
  /\ journal[p].status = "absent"
  /\ BaselineResolves /\ GenerationOf(current) < MaxGeneration
  /\ mode' = [mode EXCEPT ![p] = "fresh"]
  /\ base' = [base EXCEPT ![p] = GenerationOf(current)]
  /\ Go(p, "leasing")
  /\ UNCHANGED <<holder, target, stateDir, dispatches, op, view, step, lost, job, faults>>

StartResume(p) ==
  /\ pc[p] = "idle" /\ holder # p /\ ~JobRunning(p)
  /\ mode' = [mode EXCEPT ![p] = "resume"]
  /\ Go(p, "leasing")
  /\ UNCHANGED <<holder, target, stateDir, dispatches, op, base, view, step, lost, job, faults>>

\* Mutant: a lease that somebody holds is granted again.
AcquireLeaseShared(p) ==
  /\ pc[p] = "leasing"
  /\ holder' = p
  /\ Go(p, "leased")
  /\ UNCHANGED <<target, stateDir, dispatches, procVars, lost, job, faults>>

AcquireLease(p) ==
  /\ pc[p] = "leasing"
  /\ holder = None
  /\ holder' = p
  /\ Go(p, "leased")
  /\ UNCHANGED <<target, stateDir, dispatches, procVars, lost, job, faults>>

LeaseBusy(p) ==
  /\ pc[p] = "leasing"
  /\ holder # None
  /\ Forget(p)
  /\ UNCHANGED <<holder, target, stateDir, dispatches, job, faults>>

\* The unit on the target gives the lease up: its client is gone, or was
\* suspended for longer than the heartbeat timeout.
ExpireLease ==
  /\ holder # None
  /\ \/ pc[holder] = "idle" /\ UNCHANGED faults
     \/ CanStall /\ pc[holder] # "idle" /\ Fault
  /\ holder' = None
  /\ UNCHANGED <<target, stateDir, dispatches, pc, procVars, lost, job>>

\* A heartbeat finds the lease gone, or fails on the wire.
NoticeLoss(p) ==
  /\ UnderLease(p) /\ ~lost[p]
  /\ \/ holder # p /\ UNCHANGED faults
     \/ holder = p /\ Fault
  /\ lost' = [lost EXCEPT ![p] = TRUE]
  /\ UNCHANGED <<holder, target, stateDir, dispatches, pc, procVars, job>>

-----------------------------------------------------------------------------
(* Fresh: lock and journal, then the plan recomputed under the lock.       *)

\* Mutant: the lock is created first and the script dies before the journal.
CreateLockAndJournalLockFirst(p) ==
  /\ pc[p] = "leased" /\ mode[p] = "fresh"
  /\ \/ /\ holder = p /\ lock = None
        /\ journal' = [journal EXCEPT ![p] =
                         [status |-> "in-progress", generation |-> base[p] + 1]]
        /\ lock' = p
        /\ op' = [op EXCEPT ![p] = p]
        /\ Go(p, "locked")
        /\ UNCHANGED faults
     \/ /\ holder = p /\ lock = None /\ Fault
        /\ lock' = p
        /\ Go(p, "exit")
        /\ UNCHANGED <<journal, op>>
  /\ UNCHANGED <<holder, events, stateDir, dispatches, mode, base, view, step, lost, job>>

\* acquireLockAndJournal(): one fenced script; the journal is created first and
\* removed again when the lock turns out to be taken.
CreateLockAndJournal(p) ==
  /\ pc[p] = "leased" /\ mode[p] = "fresh"
  /\ \/ /\ holder = p /\ lock = None
        /\ journal' = [journal EXCEPT ![p] =
                         [status |-> "in-progress", generation |-> base[p] + 1]]
        /\ lock' = p
        /\ op' = [op EXCEPT ![p] = p]
        /\ Go(p, "locked")
        /\ UNCHANGED faults
     \/ /\ holder # p \/ lock # None
        /\ Go(p, "exit")
        /\ UNCHANGED <<journal, lock, op, faults>>
     \/ \* the script dies between its two files
        /\ holder = p /\ Fault
        /\ journal' = [journal EXCEPT ![p] =
                         [status |-> "in-progress", generation |-> base[p] + 1]]
        /\ Go(p, "exit")
        /\ UNCHANGED <<lock, op>>
  /\ UNCHANGED <<holder, events, stateDir, dispatches, mode, base, view, step, lost, job>>

\* computeLivePlanV2(): the same plan comes out again only if the target has a
\* baseline and it is the one the plan was made for.
LivePlanMatches(p) == BaselineResolves /\ GenerationOf(current) = base[p]

\* Mutant: the target is not inspected again under the lock.
RecheckSkipped(p) ==
  /\ pc[p] = "locked"
  /\ Go(p, "loop") /\ step' = [step EXCEPT ![p] = 1]
  /\ UNCHANGED <<holder, target, stateDir, dispatches, mode, op, base, view, lost, job, faults>>

\* The second inspection must give the same plan; drift, a failed inspection,
\* missing secrets or changed TLS material end the run instead.
Recheck(p) ==
  /\ pc[p] = "locked"
  /\ \/ /\ LivePlanMatches(p)
        /\ Go(p, "loop") /\ step' = [step EXCEPT ![p] = 1]
     \/ Go(p, "unlock") /\ UNCHANGED step
  /\ UNCHANGED <<holder, target, stateDir, dispatches, mode, op, base, view, lost, job, faults>>

-----------------------------------------------------------------------------
(* Resume: lock, then journal and events.                                  *)

ReadLock(p) ==
  /\ pc[p] = "leased" /\ mode[p] = "resume"
  /\ op' = [op EXCEPT ![p] = lock]
  /\ Go(p, IF lock = None THEN "exit" ELSE "reading")
  /\ UNCHANGED <<holder, target, stateDir, dispatches, mode, base, view, step, lost, job, faults>>

\* The commit this operation would have made is on disk, in all its parts.
CommitComplete(o) ==
  /\ snapshot[GenerationOf(o)] = o
  /\ topology = o
  /\ current = o

AllStepsSkip(stream) ==
  \A s \in Step : DecideStepResumption(stream, s) = "skip"

ReadOperation(p) ==
  /\ pc[p] = "reading"
  /\ LET o == op[p]
         trusted == ReadAndValidateEvents(events[o])
         status == journal[o].status
     IN  /\ Go(p, CASE status = "absent" -> "unlock"
                    [] status = "succeeded" /\ trusted ->
                         IF AllStepsSkip(events[o]) /\ CommitComplete(o)
                         THEN "unlock" ELSE "exit"
                    [] status = "in-progress" /\ trusted -> "loop"
                    [] OTHER -> "exit")
         /\ view' = [view EXCEPT ![p] = events[o]]
         /\ step' = [step EXCEPT ![p] = 1]
  /\ UNCHANGED <<holder, target, stateDir, dispatches, mode, op, base, lost, job, faults>>

-----------------------------------------------------------------------------
(* The dispatch loop.                                                      *)

\* Mutant: the loop runs one position past the plan's last operation.
DecidePastEnd(p) ==
  /\ pc[p] = "loop"
  /\ IF step[p] > NSteps + 1 THEN Go(p, "finishing") /\ UNCHANGED step
     ELSE LET outcome == DecideStepResumption(view[p], step[p]) IN
          CASE ~lost[p] /\ outcome = "skip" ->
                 step' = [step EXCEPT ![p] = @ + 1] /\ UNCHANGED pc
            [] ~lost[p] /\ outcome = "run" -> Go(p, "starting") /\ UNCHANGED step
            [] OTHER -> Go(p, "exit") /\ UNCHANGED step
  /\ UNCHANGED <<holder, target, stateDir, dispatches, mode, op, base, view, lost, job, faults>>

Decide(p) ==
  /\ pc[p] = "loop"
  /\ IF step[p] > NSteps THEN Go(p, "finishing") /\ UNCHANGED step
     ELSE LET outcome == DecideStepResumption(view[p], step[p]) IN
          CASE lost[p] -> Go(p, "exit") /\ UNCHANGED step
            [] ~lost[p] /\ outcome = "skip" ->
                 step' = [step EXCEPT ![p] = @ + 1] /\ UNCHANGED pc
            [] ~lost[p] /\ outcome = "run" -> Go(p, "starting") /\ UNCHANGED step
            [] OTHER ->
                 /\ Go(p, IF outcome = "blocked" /\ step[p] = Commit /\ mode[p] = "resume"
                          THEN "recover" ELSE "exit")
                 /\ UNCHANGED step
  /\ UNCHANGED <<holder, target, stateDir, dispatches, mode, op, base, view, lost, job, faults>>

\* Mutant: the event is appended without the target-side fence.
AppendStartedUnfenced(p) ==
  /\ pc[p] = "starting"
  /\ IF ~lost[p]
     THEN AppendEvent(op[p], step[p], "started") /\ Go(p, "dispatch")
     ELSE UNCHANGED events /\ Go(p, "exit")
  /\ UNCHANGED <<holder, lock, journal, stateDir, dispatches, procVars, lost, job, faults>>

AppendStarted(p) ==
  /\ pc[p] = "starting"
  /\ IF MayWrite(p)
     THEN AppendEvent(op[p], step[p], "started") /\ Go(p, "dispatch")
     ELSE UNCHANGED events /\ Go(p, "exit")
  /\ UNCHANGED <<holder, lock, journal, stateDir, dispatches, procVars, lost, job, faults>>

\* dispatchOperation(): `docker run` of the Execution Environment, not fenced.
DispatchOperation(p, s) ==
  /\ job' = [job EXCEPT ![p] =
               [op |-> op[p], step |-> s, at |-> IF s = Commit THEN "stat" ELSE "run"]]
  /\ dispatches' = [dispatches EXCEPT ![op[p]][s] = @ + 1]

Dispatch(p) ==
  /\ pc[p] = "dispatch"
  /\ IF lost[p] THEN Go(p, "exit") /\ UNCHANGED <<job, dispatches>>
     ELSE DispatchOperation(p, step[p]) /\ Go(p, "waiting")
  /\ UNCHANGED <<holder, target, stateDir, procVars, lost, faults>>

\* Mutant: the role's exit status is not looked at.
DispatchEndsIgnoringStatus(p) ==
  /\ pc[p] \in {"waiting", "rewaiting"} /\ ~JobRunning(p)
  /\ job' = [job EXCEPT ![p] = NoJob]
  /\ Go(p, IF pc[p] = "waiting" THEN "succeeding" ELSE "reverify")
  /\ UNCHANGED <<holder, target, stateDir, dispatches, procVars, lost, faults>>

DispatchEnds(p) ==
  /\ pc[p] \in {"waiting", "rewaiting"} /\ ~JobRunning(p)
  /\ job' = [job EXCEPT ![p] = NoJob]
  /\ Go(p, CASE pc[p] = "waiting" /\ job[p].at = "ok" -> "succeeding"
             [] pc[p] = "waiting" /\ job[p].at = "failed" -> "failing"
             [] pc[p] = "rewaiting" /\ job[p].at = "ok" -> "reverify"
             [] OTHER -> "exit")
  /\ UNCHANGED <<holder, target, stateDir, dispatches, procVars, lost, faults>>

AppendSucceeded(p) ==
  /\ pc[p] = "succeeding"
  /\ IF MayWrite(p)
     THEN /\ AppendEvent(op[p], step[p], "succeeded")
          /\ step' = [step EXCEPT ![p] = @ + 1]
          /\ Go(p, "loop")
     ELSE UNCHANGED <<events, step>> /\ Go(p, "exit")
  /\ UNCHANGED <<holder, lock, journal, stateDir, dispatches, mode, op, base, view, lost, job, faults>>

AppendFailed(p) ==
  /\ pc[p] = "failing"
  /\ IF MayWrite(p)
     THEN AppendEvent(op[p], step[p], "failed") /\ Go(p, "failed")
     ELSE UNCHANGED events /\ Go(p, "exit")
  /\ UNCHANGED <<holder, lock, journal, stateDir, dispatches, procVars, lost, job, faults>>

\* Fenced, but no isLost() check before it.
WriteJournalFailed(p) ==
  /\ pc[p] = "failed"
  /\ IF holder = p
     THEN journal' = [journal EXCEPT ![op[p]].status = "failed"] /\ Go(p, "unlock")
     ELSE UNCHANGED journal /\ Go(p, "exit")
  /\ UNCHANGED <<holder, lock, events, stateDir, dispatches, procVars, lost, job, faults>>

-----------------------------------------------------------------------------
(* An interrupted state.commit, on resume.                                 *)

ReadSnapshot(p) ==
  /\ pc[p] = "recover"
  /\ Go(p, IF snapshot[GenerationOf(op[p])] = op[p] THEN "pointers" ELSE "exit")
  /\ UNCHANGED <<holder, target, stateDir, dispatches, procVars, lost, job, faults>>

\* Mutant: topology.json alone counts as the landed commit.
ReadPointersTopologyOnly(p) ==
  /\ pc[p] = "pointers"
  /\ Go(p, IF topology = op[p] THEN "succeeding" ELSE "redispatch")
  /\ UNCHANGED <<holder, target, stateDir, dispatches, procVars, lost, job, faults>>

\* Mutant: pointer files that do not match yet are left for somebody to look at.
ReadPointersNoRedispatch(p) ==
  /\ pc[p] = "pointers"
  /\ Go(p, IF current = op[p] /\ topology = op[p] THEN "succeeding" ELSE "exit")
  /\ UNCHANGED <<holder, target, stateDir, dispatches, procVars, lost, job, faults>>

ReadPointers(p) ==
  /\ pc[p] = "pointers"
  /\ Go(p, IF current = op[p] /\ topology = op[p] THEN "succeeding" ELSE "redispatch")
  /\ UNCHANGED <<holder, target, stateDir, dispatches, procVars, lost, job, faults>>

Redispatch(p) ==
  /\ pc[p] = "redispatch"
  /\ IF lost[p] THEN Go(p, "exit") /\ UNCHANGED <<job, dispatches>>
     ELSE DispatchOperation(p, Commit) /\ Go(p, "rewaiting")
  /\ UNCHANGED <<holder, target, stateDir, procVars, lost, faults>>

Reverify(p) ==
  /\ pc[p] = "reverify"
  /\ Go(p, IF CommitComplete(op[p]) THEN "succeeding" ELSE "exit")
  /\ UNCHANGED <<holder, target, stateDir, dispatches, procVars, lost, job, faults>>

-----------------------------------------------------------------------------
(* The end of a run.                                                       *)

WriteJournalSucceeded(p) ==
  /\ pc[p] = "finishing"
  /\ IF MayWrite(p)
     THEN journal' = [journal EXCEPT ![op[p]].status = "succeeded"] /\ Go(p, "unlock")
     ELSE UNCHANGED journal /\ Go(p, "exit")
  /\ UNCHANGED <<holder, lock, events, stateDir, dispatches, procVars, lost, job, faults>>

\* tryReleaseLock(): under the guard, without a fence.
ReleaseLock(p) ==
  /\ pc[p] = "unlock"
  /\ lock' = ReleasedLock(op[p])
  /\ Go(p, "exit")
  /\ UNCHANGED <<holder, journal, events, stateDir, dispatches, procVars, lost, job, faults>>

\* The finally block of runApply().
ReleaseLease(p) ==
  /\ pc[p] = "exit"
  /\ holder' = IF holder = p THEN None ELSE holder
  /\ Forget(p)
  /\ UNCHANGED <<target, stateDir, dispatches, job, faults>>

\* A round trip throws, before or after its effect, or a resume refuses its own
\* inputs (changed digests, missing secrets); the lease is released.
Abort(p) ==
  /\ UnderLease(p) /\ pc[p] \notin {"exit", "waiting", "rewaiting"}
  /\ Fault
  /\ Go(p, "exit")
  /\ UNCHANGED <<holder, target, stateDir, dispatches, procVars, lost, job>>

\* The invocation dies; its lease stays until the target lets it expire.
Crash(p) ==
  /\ UnderLease(p)
  /\ Fault
  /\ Forget(p)
  /\ job' = IF JobsOutlive THEN job ELSE [job EXCEPT ![p] = NoJob]
  /\ UNCHANGED <<holder, target, stateDir, dispatches>>

-----------------------------------------------------------------------------
(* The roles that run on the target.                                       *)

JobAdvances(p, to) == job' = [job EXCEPT ![p].at = to]

\* Any role but state: its effect, which may be the first managed resource.
RunRole(p) ==
  /\ job[p].at = "run"
  /\ done' = [done EXCEPT ![job[p].op] = @ \cup {job[p].step}]
  /\ managed' \in {managed, TRUE}
  /\ JobAdvances(p, "ok")
  /\ UNCHANGED <<holder, target, snapshot, topology, current, dispatches, pc, procVars, lost, faults>>

\* Mutant: an existing generation directory is taken as it is.
StatSnapshotTrusting(p) ==
  /\ job[p].at = "stat"
  /\ JobAdvances(p, IF snapshot[GenerationOf(job[p].op)] = None THEN "publish" ELSE "topology")
  /\ UNCHANGED <<holder, target, stateDir, dispatches, pc, procVars, lost, faults>>

StatSnapshot(p) ==
  /\ job[p].at = "stat"
  /\ LET there == snapshot[GenerationOf(job[p].op)]
     IN  JobAdvances(p, CASE there = None -> "publish"
                          [] there = job[p].op -> "topology"
                          [] OTHER -> "failed")
  /\ UNCHANGED <<holder, target, stateDir, dispatches, pc, procVars, lost, faults>>

\* `mv -T` with `creates`: skipped when the directory appeared meanwhile.
PublishSnapshot(p) ==
  /\ job[p].at = "publish"
  /\ snapshot' = [snapshot EXCEPT ![GenerationOf(job[p].op)] =
                    IF @ = None THEN job[p].op ELSE @]
  /\ JobAdvances(p, "topology")
  /\ UNCHANGED <<holder, target, topology, current, managed, done, dispatches, pc, procVars, lost, faults>>

WriteTopology(p) ==
  /\ job[p].at = "topology"
  /\ topology' = job[p].op
  /\ JobAdvances(p, "current")
  /\ UNCHANGED <<holder, target, snapshot, current, managed, done, dispatches, pc, procVars, lost, faults>>

WriteCurrent(p) ==
  /\ job[p].at = "current"
  /\ current' = job[p].op
  /\ done' = [done EXCEPT ![job[p].op] = @ \cup {Commit}]
  /\ JobAdvances(p, "ok")
  /\ UNCHANGED <<holder, target, snapshot, topology, managed, dispatches, pc, procVars, lost, faults>>

\* A role fails where it stands; an ordinary role may leave resources behind.
FailRole(p) ==
  /\ JobRunning(p)
  /\ Fault
  /\ managed' \in IF job[p].at = "run" THEN {managed, TRUE} ELSE {managed}
  /\ JobAdvances(p, "failed")
  /\ UNCHANGED <<holder, target, snapshot, topology, current, done, dispatches, pc, procVars, lost>>

-----------------------------------------------------------------------------
Init ==
  /\ holder = None /\ lock = None
  /\ journal = [o \in Proc |-> NoJournal]
  /\ events = [o \in Proc |-> <<>>]
  /\ \/ /\ snapshot = [g \in Generation |-> None]
        /\ topology = None /\ current = None /\ managed = FALSE
     \/ /\ snapshot = [g \in Generation |-> IF g = 1 THEN Genesis ELSE None]
        /\ topology = Genesis /\ current = Genesis /\ managed = TRUE
  /\ done = [o \in Proc |-> {}]
  /\ dispatches = [o \in Proc |-> [s \in Step |-> 0]]
  /\ pc = [p \in Proc |-> "idle"]
  /\ mode = [p \in Proc |-> "none"]
  /\ op = [p \in Proc |-> None]
  /\ base = [p \in Proc |-> 0]
  /\ view = [p \in Proc |-> <<>>]
  /\ step = [p \in Proc |-> 0]
  /\ lost = [p \in Proc |-> FALSE]
  /\ job = [p \in Proc |-> NoJob]
  /\ faults = 0

FreshRun(p) == CreateLockAndJournal(p) \/ Recheck(p)
ResumeRun(p) == ReadLock(p) \/ ReadOperation(p)
DispatchLoop(p) ==
  \/ Decide(p) \/ AppendStarted(p) \/ Dispatch(p) \/ DispatchEnds(p)
  \/ AppendSucceeded(p) \/ AppendFailed(p) \/ WriteJournalFailed(p)
RecoverCommit(p) == ReadSnapshot(p) \/ ReadPointers(p) \/ Redispatch(p) \/ Reverify(p)
EndRun(p) == WriteJournalSucceeded(p) \/ ReleaseLock(p) \/ ReleaseLease(p)
Role(p) ==
  \/ RunRole(p) \/ StatSnapshot(p) \/ PublishSnapshot(p)
  \/ WriteTopology(p) \/ WriteCurrent(p)

RunUnderLease(p) ==
  FreshRun(p) \/ ResumeRun(p) \/ DispatchLoop(p) \/ RecoverCommit(p) \/ EndRun(p)

Next ==
  \/ ExpireLease
  \/ \E p \in Proc :
       \/ StartFresh(p) \/ StartResume(p) \/ AcquireLease(p) \/ LeaseBusy(p)
       \/ RunUnderLease(p) \/ NoticeLoss(p) \/ Abort(p) \/ Crash(p)
       \/ Role(p) \/ FailRole(p)

Spec == Init /\ [][Next]_vars

(* Live invocations and roles make progress, a dead client's lease expires,  *)
(* and an operator who finds the target locked runs --resume, again and      *)
(* again until one of these invocations gets the lease.                      *)
Fairness ==
  /\ WF_vars(holder # None /\ pc[holder] = "idle" /\ ExpireLease)
  /\ \A p \in Proc :
       /\ WF_vars(AcquireLease(p) \/ LeaseBusy(p))
       /\ WF_vars(RunUnderLease(p))
       /\ WF_vars(Role(p))
       /\ SF_vars(lock # None /\ holder = None /\ StartResume(p))
       /\ SF_vars(mode[p] = "resume" /\ AcquireLease(p))

FairSpec == Spec /\ Fairness

-----------------------------------------------------------------------------
(* Correctness.                                                            *)

TypeOK ==
  /\ holder \in Proc \cup {None}
  /\ lock \in Proc \cup {None}
  /\ journal \in [Proc -> [status : Status, generation : 0..MaxGeneration]]
  /\ events \in [Proc -> Seq(Event)]
  /\ snapshot \in [Generation -> Op \cup {None}]
  /\ topology \in Op \cup {None} /\ current \in Op \cup {None}
  /\ managed \in BOOLEAN
  /\ done \in [Proc -> SUBSET Step]
  /\ dispatches \in [Proc -> [Step -> Nat]]
  /\ pc \in [Proc -> PC]
  /\ mode \in [Proc -> {"none", "fresh", "resume"}]
  /\ op \in [Proc -> Proc \cup {None}]
  /\ base \in [Proc -> 0..(MaxGeneration - 1)]
  /\ view \in [Proc -> Seq(Event)]
  /\ step \in [Proc -> 0..(NSteps + 1)]
  /\ lost \in [Proc -> BOOLEAN]
  /\ job \in [Proc -> [op : Proc \cup {None}, step : 0..NSteps, at : JobAt]]
  /\ faults \in 0..MaxFaults

\* acquireLockAndJournalScript(): whatever interrupts it, a lock never names an
\* operation whose journal was not written, so --resume finds what it needs.
LockHasJournal ==
  lock # None => journal[lock].status # "absent"

\* decideStepResumption() and the fence of appendEvent(): no crash, stall, resume
\* or late writer makes a role other than state run twice in one operation.
StepDispatchedOnce ==
  \A o \in Proc : \A s \in Step \ {Commit} : dispatches[o][s] <= 1

\* readAndValidateEvents(): the streams that any interleaving of invocations
\* leaves behind are ones a later --resume accepts.
StreamsStayReadable ==
  \A o \in Proc :
    /\ ReadAndValidateEvents(events[o])
    /\ \A s \in Step : DecideStepResumption(events[o], s) # "corrupted"

\* The dispatch loop: whatever part of an operation's state is committed, every
\* other step of its plan ran to its end before.
CommitAfterAllSteps ==
  \A o \in Proc :
    \/ o \in {topology, current}
    \/ \E g \in Generation : snapshot[g] = o
    => Step \ {Commit} \subseteq done[o]

\* roles/state: a pointer file never names a commit whose immutable snapshot is
\* missing or belongs to another operation.
PointersBackedBySnapshot ==
  \A o \in {topology, current} \ {None} : snapshot[GenerationOf(o)] = o

\* commitGenerationFor() and the recheck under the lock: an installation moves
\* from one generation to the next, never back and never past one.
GenerationsAdvanceByOne ==
  [][current' # current => GenerationOf(current') = GenerationOf(current) + 1]_vars

\* The recheck under the lock: a role dispatched by a fresh apply only changes the
\* installation its plan was computed for, however long that apply waited.
FreshRolesMatchBaseline ==
  \A p \in Proc : mode[p] = "fresh" /\ job[p].at = "run" =>
    GenerationOf(job[p].op) = GenerationOf(current) + 1

\* updateJournalStatus("succeeded"): such a journal has every step resolved, and
\* its commit is the current one or was the current one of its generation.
SucceededMeansCommitted ==
  \A o \in Proc :
    journal[o].status = "succeeded" =>
      /\ AllStepsSkip(events[o])
      /\ done[o] = Step
      /\ snapshot[GenerationOf(o)] = o
      /\ GenerationOf(current) >= GenerationOf(o)

\* lock.json: a role only runs while the lock names its operation.
RunningRoleHoldsLock ==
  \A p \in Proc : JobRunning(p) => lock = job[p].op

\* The resume path: a commit whose snapshot is published under a held lock is
\* resolved, done or failed, whatever interrupted the invocation.
PublishedCommitIsResolved ==
  \A o \in Proc :
    lock = o /\ snapshot[GenerationOf(o)] = o ~>
      \/ journal[o].status = "succeeded"
      \/ DecideStepResumption(events[o], Commit) = "failed"

-----------------------------------------------------------------------------
(* What the repository says and the code does not do: each of these is      *)
(* violated.                                                                *)

\* The failure branch of the dispatch loop: after a failed operation, "run a fresh
\* hofctl plan/hofctl apply reconciliation against this same installation", which
\* needs the next generation to be still unpublished.
NextGenerationFree ==
  current # None /\ BaselineResolves /\ lock = None /\ (\A p \in Proc : ~JobRunning(p)) =>
    \A o \in Proc :
      journal[o].status = "failed" => snapshot[GenerationOf(current) + 1] # o

\* assertJournalResumable(), which only ever speaks while lock.json is there: "already
\* failed - resume is refused", start a fresh apply.  That needs the lock gone.
FailedOperationFreesLock ==
  \A o \in Proc : journal[o].status = "failed" ~> lock # o

=============================================================================
