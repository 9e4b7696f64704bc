---------------------------- MODULE ApplyProofs ----------------------------
(***************************************************************************)
(* Proofs about Apply, for any number of invocations, steps, generations   *)
(* and faults, with late clients and orphaned roles: its types, that a     *)
(* lock always comes with its journal, and that a published generation     *)
(* directory is immutable.                                                 *)
(***************************************************************************)
EXTENDS Apply, TLAPS

\* What an invocation knows at each point: the operation it works on, and a
\* step of the plan once it is inside the loop's body.  The same of its role.
ControlInv ==
  \A p \in Proc :
    /\ pc[p] \notin {"idle", "leasing", "leased", "exit"} => op[p] \in Proc
    /\ pc[p] = "loop" => step[p] # 0
    /\ pc[p] \in {"starting", "dispatch", "waiting", "succeeding", "failing", "recover",
                  "pointers", "redispatch", "rewaiting", "reverify"} => step[p] \in Step
    /\ JobRunning(p) => job[p].op \in Proc /\ job[p].step \in Step

TypeInv == TypeOK /\ ControlInv

\* The target and the invocations start well typed.
LEMMA InitTypeInv == Init => TypeInv
<1> SUFFICES ASSUME Init PROVE TypeInv
  OBVIOUS
<1> USE ApplyAssumption
<1>1. TypeOK
  <2>1. journal \in [Proc -> [status : Status, generation : 0..MaxGeneration]]
    BY DEF Init, NoJournal, Status
  <2>2. events \in [Proc -> Seq(Event)] /\ view \in [Proc -> Seq(Event)]
    BY DEF Init
  <2>3. snapshot \in [Generation -> Op \cup {None}]
    BY DEF Init, Op
  <2>4. dispatches \in [Proc -> [Step -> Nat]]
    BY DEF Init
  <2>5. job \in [Proc -> [op : Proc \cup {None}, step : 0..NSteps, at : JobAt]]
    BY DEF Init, NoJob, JobAt
  <2>6. /\ base \in [Proc -> 0..(MaxGeneration - 1)]
        /\ step \in [Proc -> 0..(NSteps + 1)]
        /\ faults \in 0..MaxFaults
    BY DEF Init
  <2>7. /\ pc \in [Proc -> PC]
        /\ mode \in [Proc -> {"none", "fresh", "resume"}]
        /\ op \in [Proc -> Proc \cup {None}]
        /\ lost \in [Proc -> BOOLEAN]
        /\ done \in [Proc -> SUBSET Step]
    BY DEF Init, PC
  <2>8. topology \in Op \cup {None} /\ current \in Op \cup {None} /\ managed \in BOOLEAN
    BY DEF Init, Op
  <2> QED
    BY <2>1, <2>2, <2>3, <2>4, <2>5, <2>6, <2>7, <2>8 DEF Init, TypeOK
<1>2. ControlInv
  BY DEF Init, ControlInv, JobRunning, NoJob
<1> QED
  BY <1>1, <1>2 DEF TypeInv

\* Appending to the stream of an operation keeps the streams' type.
LEMMA AppendEventType ==
  ASSUME TypeOK, NEW o \in Proc, NEW s \in Step, NEW ph \in Phase, AppendEvent(o, s, ph)
  PROVE  events' \in [Proc -> Seq(Event)]
<1>1. BuildEvent(s, 1, ph) \in Event
  BY DEF BuildEvent, Event
<1>2. Append(events[o], BuildEvent(s, 1, ph)) \in Seq(Event)
  BY <1>1 DEF TypeOK
<1> QED
  BY <1>2 DEF AppendEvent, TypeOK

\* commitGenerationFor(): every operation has a generation within the bound.
LEMMA GenerationOfType ==
  TypeOK => \A o \in Op \cup {None} : GenerationOf(o) \in 0..MaxGeneration
<1> SUFFICES ASSUME TypeOK, NEW o \in Op \cup {None}
             PROVE  GenerationOf(o) \in 0..MaxGeneration
  OBVIOUS
<1>1. CASE o = None
  BY <1>1, ApplyAssumption DEF GenerationOf
<1>2. CASE o = Genesis
  BY <1>2, ApplyAssumption DEF GenerationOf
<1>3. CASE o \in Proc
  <2>1. journal[o].generation \in 0..MaxGeneration
    BY <1>3 DEF TypeOK
  <2>2. GenerationOf(o) = journal[o].generation
    BY <1>3, ApplyAssumption DEF GenerationOf
  <2> QED
    BY <2>1, <2>2
<1> QED
  BY <1>1, <1>2, <1>3 DEF Op

\* Every action of an invocation or a role keeps the types, and the control facts
\* they rest on.
LEMMA TypeStep == TypeInv /\ [Next]_vars => TypeInv'
<1> SUFFICES ASSUME TypeInv, [Next]_vars PROVE TypeInv'
  OBVIOUS
<1> USE ApplyAssumption
<1>holder. holder \in Proc \cup {None}
  BY DEF TypeInv, TypeOK
<1>lock. lock \in Proc \cup {None}
  BY DEF TypeInv, TypeOK
<1>journal. journal \in [Proc -> [status : Status, generation : 0..MaxGeneration]]
  BY DEF TypeInv, TypeOK
<1>events. events \in [Proc -> Seq(Event)]
  BY DEF TypeInv, TypeOK
<1>snapshot. snapshot \in [Generation -> Op \cup {None}]
  BY DEF TypeInv, TypeOK
<1>topology. topology \in Op \cup {None}
  BY DEF TypeInv, TypeOK
<1>current. current \in Op \cup {None}
  BY DEF TypeInv, TypeOK
<1>managed. managed \in BOOLEAN
  BY DEF TypeInv, TypeOK
<1>done. done \in [Proc -> SUBSET Step]
  BY DEF TypeInv, TypeOK
<1>dispatches. dispatches \in [Proc -> [Step -> Nat]]
  BY DEF TypeInv, TypeOK
<1>pc. pc \in [Proc -> PC]
  BY DEF TypeInv, TypeOK
<1>mode. mode \in [Proc -> {"none", "fresh", "resume"}]
  BY DEF TypeInv, TypeOK
<1>op. op \in [Proc -> Proc \cup {None}]
  BY DEF TypeInv, TypeOK
<1>base. base \in [Proc -> 0..(MaxGeneration - 1)]
  BY DEF TypeInv, TypeOK
<1>view. view \in [Proc -> Seq(Event)]
  BY DEF TypeInv, TypeOK
<1>step. step \in [Proc -> 0..(NSteps + 1)]
  BY DEF TypeInv, TypeOK
<1>lost. lost \in [Proc -> BOOLEAN]
  BY DEF TypeInv, TypeOK
<1>job. job \in [Proc -> [op : Proc \cup {None}, step : 0..NSteps, at : JobAt]]
  BY DEF TypeInv, TypeOK
<1>faults. faults \in 0..MaxFaults
  BY DEF TypeInv, TypeOK
<1>ty. TypeOK
  BY DEF TypeInv
<1>ci. ControlInv
  BY DEF TypeInv
<1>0. CASE ExpireLease
  <2>1. holder' \in Proc \cup {None} /\ faults' \in 0..MaxFaults
    BY <1>0, <1>faults DEF ExpireLease, Fault
  <2> QED
    BY <1>0, <2>1
    DEF ExpireLease, TypeInv, TypeOK, ControlInv, JobRunning, target, stateDir, procVars
<1>1. ASSUME NEW p \in Proc, StartFresh(p) PROVE TypeInv'
  <2>1. mode' \in [Proc -> {"none", "fresh", "resume"}]
    BY <1>1, <1>mode DEF StartFresh
  <2>2. base' \in [Proc -> 0..(MaxGeneration - 1)]
    BY <1>1, <1>base, <1>current, GenerationOfType, <1>ty DEF StartFresh
  <2>3. pc' \in [Proc -> PC]
    BY <1>1, <1>pc DEF StartFresh, Go, PC
  <2>4. ControlInv'
    BY <1>1, <1>ci, <1>pc, <1>op, <1>step, <1>job, <1>lock
    DEF StartFresh, Go, PC, ControlInv, JobRunning, NoJob, Step, Commit, target, stateDir,
        procVars
  <2> QED
    BY <1>1, <2>1, <2>2, <2>3, <2>4 DEF StartFresh, TypeInv, TypeOK, target, stateDir, procVars
<1>2. ASSUME NEW p \in Proc, StartResume(p) PROVE TypeInv'
  <2>1. mode' \in [Proc -> {"none", "fresh", "resume"}]
    BY <1>2, <1>mode DEF StartResume
  <2>2. pc' \in [Proc -> PC]
    BY <1>2, <1>pc DEF StartResume, Go, PC
  <2>3. ControlInv'
    BY <1>2, <1>ci, <1>pc, <1>op, <1>step, <1>job, <1>lock
    DEF StartResume, Go, PC, ControlInv, JobRunning, NoJob, Step, Commit, target, stateDir,
        procVars
  <2> QED
    BY <1>2, <2>1, <2>2, <2>3 DEF StartResume, TypeInv, TypeOK, target, stateDir, procVars
<1>3. ASSUME NEW p \in Proc, AcquireLease(p) PROVE TypeInv'
  <2>1. holder' \in Proc \cup {None}
    BY <1>3, <1>holder DEF AcquireLease
  <2>2. pc' \in [Proc -> PC]
    BY <1>3, <1>pc DEF AcquireLease, Go, PC
  <2>3. ControlInv'
    BY <1>3, <1>ci, <1>pc, <1>op, <1>step, <1>job, <1>lock
    DEF AcquireLease, Go, PC, ControlInv, JobRunning, NoJob, Step, Commit, target, stateDir,
        procVars
  <2> QED
    BY <1>3, <2>1, <2>2, <2>3 DEF AcquireLease, TypeInv, TypeOK, target, stateDir, procVars
<1>4. ASSUME NEW p \in Proc, LeaseBusy(p) PROVE TypeInv'
  <2>1. pc' \in [Proc -> PC]
    BY <1>4, <1>pc DEF LeaseBusy, Forget, Go, PC
  <2>2. op' \in [Proc -> Proc \cup {None}]
    BY <1>4, <1>op, <1>lock DEF LeaseBusy, Forget
  <2>3. base' \in [Proc -> 0..(MaxGeneration - 1)]
    BY <1>4, <1>base, <1>current DEF LeaseBusy, Forget
  <2>4. view' \in [Proc -> Seq(Event)]
    BY <1>4, <1>view, <1>events, <1>op, <1>ci DEF LeaseBusy, Forget, ControlInv
  <2>5. step' \in [Proc -> 0..(NSteps + 1)]
    BY <1>4, <1>step, <1>ci DEF LeaseBusy, Forget, Step, ControlInv
  <2>6. lost' \in [Proc -> BOOLEAN]
    BY <1>4, <1>lost DEF LeaseBusy, Forget
  <2>7. ControlInv'
    BY <1>4, <1>ci, <1>pc, <1>op, <1>step, <1>job, <1>lock
    DEF LeaseBusy, Forget, Go, PC, ControlInv, JobRunning, NoJob, Step, Commit, target, stateDir,
        procVars
  <2> QED
    BY <1>4, <2>1, <2>2, <2>3, <2>4, <2>5, <2>6, <2>7
    DEF LeaseBusy, Forget, TypeInv, TypeOK, target, stateDir, procVars
<1>5. ASSUME NEW p \in Proc, NoticeLoss(p) PROVE TypeInv'
  <2>1. lost' \in [Proc -> BOOLEAN]
    BY <1>5, <1>lost DEF NoticeLoss, Fault
  <2>2. faults' \in 0..MaxFaults
    BY <1>5, <1>faults DEF NoticeLoss, Fault
  <2>3. ControlInv'
    BY <1>5, <1>ci, <1>pc, <1>op, <1>step, <1>job, <1>lock
    DEF NoticeLoss, Fault, Go, PC, ControlInv, JobRunning, NoJob, Step, Commit, target, stateDir,
        procVars
  <2> QED
    BY <1>5, <2>1, <2>2, <2>3 DEF NoticeLoss, Fault, TypeInv, TypeOK, target, stateDir, procVars
<1>6. ASSUME NEW p \in Proc, CreateLockAndJournal(p) PROVE TypeInv'
  <2>1. journal' \in [Proc -> [status : Status, generation : 0..MaxGeneration]]
    BY <1>6, <1>journal, <1>op, <1>base, <1>ci DEF CreateLockAndJournal, Fault, Status, ControlInv
  <2>2. lock' \in Proc \cup {None}
    BY <1>6, <1>lock DEF CreateLockAndJournal, Fault
  <2>3. op' \in [Proc -> Proc \cup {None}]
    BY <1>6, <1>op, <1>lock DEF CreateLockAndJournal, Fault
  <2>4. pc' \in [Proc -> PC]
    BY <1>6, <1>pc DEF CreateLockAndJournal, Fault, Go, PC
  <2>5. faults' \in 0..MaxFaults
    BY <1>6, <1>faults DEF CreateLockAndJournal, Fault
  <2>6. ControlInv'
    BY <1>6, <1>ci, <1>pc, <1>op, <1>step, <1>job, <1>lock
    DEF CreateLockAndJournal, Fault, Go, PC, ControlInv, JobRunning, NoJob, Step, Commit, target,
        stateDir, procVars
  <2> QED
    BY <1>6, <2>1, <2>2, <2>3, <2>4, <2>5, <2>6
    DEF CreateLockAndJournal, Fault, TypeInv, TypeOK, target, stateDir, procVars
<1>7. ASSUME NEW p \in Proc, Recheck(p) PROVE TypeInv'
  <2>1. pc' \in [Proc -> PC]
    BY <1>7, <1>pc DEF Recheck, Go, PC
  <2>2. step' \in [Proc -> 0..(NSteps + 1)]
    BY <1>7, <1>step, <1>ci DEF Recheck, Step, ControlInv
  <2>3. ControlInv'
    BY <1>7, <1>ci, <1>pc, <1>op, <1>step, <1>job, <1>lock
    DEF Recheck, Go, PC, ControlInv, JobRunning, NoJob, Step, Commit, target, stateDir, procVars
  <2> QED
    BY <1>7, <2>1, <2>2, <2>3 DEF Recheck, TypeInv, TypeOK, target, stateDir, procVars
<1>8. ASSUME NEW p \in Proc, ReadLock(p) PROVE TypeInv'
  <2>1. op' \in [Proc -> Proc \cup {None}]
    BY <1>8, <1>op, <1>lock DEF ReadLock
  <2>2. pc' \in [Proc -> PC]
    BY <1>8, <1>pc DEF ReadLock, Go, PC
  <2>3. ControlInv'
    BY <1>8, <1>ci, <1>pc, <1>op, <1>step, <1>job, <1>lock
    DEF ReadLock, Go, PC, ControlInv, JobRunning, NoJob, Step, Commit, target, stateDir, procVars
  <2> QED
    BY <1>8, <2>1, <2>2, <2>3 DEF ReadLock, TypeInv, TypeOK, target, stateDir, procVars
<1>9. ASSUME NEW p \in Proc, ReadOperation(p) PROVE TypeInv'
  <2>1. pc' \in [Proc -> PC]
    BY <1>9, <1>pc DEF ReadOperation, Go, PC
  <2>2. view' \in [Proc -> Seq(Event)]
    BY <1>9, <1>view, <1>events, <1>op, <1>ci DEF ReadOperation, ControlInv
  <2>3. step' \in [Proc -> 0..(NSteps + 1)]
    BY <1>9, <1>step, <1>ci DEF ReadOperation, Step, ControlInv
  <2>4. ControlInv'
    BY <1>9, <1>ci, <1>pc, <1>op, <1>step, <1>job, <1>lock
    DEF ReadOperation, Go, PC, ControlInv, JobRunning, NoJob, Step, Commit, target, stateDir,
        procVars
  <2> QED
    BY <1>9, <2>1, <2>2, <2>3, <2>4 DEF ReadOperation, TypeInv, TypeOK, target, stateDir, procVars
<1>10. ASSUME NEW p \in Proc, Decide(p) PROVE TypeInv'
  <2>1. pc' \in [Proc -> PC]
    BY <1>10, <1>pc DEF Decide, Go, PC
  <2>2. step' \in [Proc -> 0..(NSteps + 1)]
    BY <1>10, <1>step, <1>ci DEF Decide, Step, ControlInv
  <2>3. ControlInv'
    BY <1>10, <1>ci, <1>pc, <1>op, <1>step, <1>job, <1>lock
    DEF Decide, Go, PC, ControlInv, JobRunning, NoJob, Step, Commit, target, stateDir, procVars
  <2> QED
    BY <1>10, <2>1, <2>2, <2>3 DEF Decide, TypeInv, TypeOK, target, stateDir, procVars
<1>11. ASSUME NEW p \in Proc, AppendStarted(p) PROVE TypeInv'
  <2>1. events' \in [Proc -> Seq(Event)]
    BY <1>11, <1>events, <1>op, <1>step, <1>ci, AppendEventType, <1>ty
    DEF AppendStarted, ControlInv, Phase
  <2>2. pc' \in [Proc -> PC]
    BY <1>11, <1>pc DEF AppendStarted, Go, PC
  <2>3. ControlInv'
    BY <1>11, <1>ci, <1>pc, <1>op, <1>step, <1>job, <1>lock
    DEF AppendStarted, Go, PC, ControlInv, JobRunning, NoJob, Step, Commit, target, stateDir,
        procVars
  <2> QED
    BY <1>11, <2>1, <2>2, <2>3 DEF AppendStarted, TypeInv, TypeOK, target, stateDir, procVars
<1>12. ASSUME NEW p \in Proc, Dispatch(p) PROVE TypeInv'
  <2>1. job' \in [Proc -> [op : Proc \cup {None}, step : 0..NSteps, at : JobAt]]
    BY <1>12, <1>job, <1>op, <1>step, <1>ci
    DEF Dispatch, DispatchOperation, JobAt, NoJob, Step, Commit, ControlInv, JobRunning
  <2>2. dispatches' \in [Proc -> [Step -> Nat]]
    <3>1. op[p] \in Proc /\ step[p] \in Step
      BY <1>12, <1>ci DEF Dispatch, ControlInv, Step, Commit
    <3>2. dispatches[op[p]][step[p]] + 1 \in Nat
      BY <3>1, <1>dispatches
    <3>3. [dispatches[op[p]] EXCEPT ![step[p]] = @ + 1] \in [Step -> Nat]
      BY <1>dispatches, <3>1, <3>2
    <3>4. \/ UNCHANGED dispatches
          \/ dispatches' = [dispatches EXCEPT ![op[p]] =
                              [dispatches[op[p]] EXCEPT ![step[p]] = @ + 1]]
      BY <1>12, <1>dispatches, <3>1 DEF Dispatch, DispatchOperation
    <3> QED
      BY <1>dispatches, <3>1, <3>3, <3>4
  <2>3. pc' \in [Proc -> PC]
    BY <1>12, <1>pc DEF Dispatch, DispatchOperation, Go, PC
  <2>4. ControlInv'
    BY <1>12, <1>ci, <1>pc, <1>op, <1>step, <1>job, <1>lock
    DEF Dispatch, DispatchOperation, Go, PC, ControlInv, JobRunning, NoJob, Step, Commit, target,
        stateDir, procVars
  <2> QED
    BY <1>12, <2>1, <2>2, <2>3, <2>4
    DEF Dispatch, DispatchOperation, TypeInv, TypeOK, target, stateDir, procVars
<1>13. ASSUME NEW p \in Proc, DispatchEnds(p) PROVE TypeInv'
  <2>1. job' \in [Proc -> [op : Proc \cup {None}, step : 0..NSteps, at : JobAt]]
    BY <1>13, <1>job, <1>op, <1>step, <1>ci
    DEF DispatchEnds, JobAt, NoJob, Step, Commit, ControlInv, JobRunning
  <2>2. pc' \in [Proc -> PC]
    BY <1>13, <1>pc DEF DispatchEnds, Go, PC
  <2>3. ControlInv'
    BY <1>13, <1>ci, <1>pc, <1>op, <1>step, <1>job, <1>lock
    DEF DispatchEnds, Go, PC, ControlInv, JobRunning, NoJob, Step, Commit, target, stateDir,
        procVars
  <2> QED
    BY <1>13, <2>1, <2>2, <2>3 DEF DispatchEnds, TypeInv, TypeOK, target, stateDir, procVars
<1>14. ASSUME NEW p \in Proc, AppendSucceeded(p) PROVE TypeInv'
  <2>1. events' \in [Proc -> Seq(Event)]
    BY <1>14, <1>events, <1>op, <1>step, <1>ci, AppendEventType, <1>ty
    DEF AppendSucceeded, ControlInv, Phase
  <2>2. step' \in [Proc -> 0..(NSteps + 1)]
    BY <1>14, <1>step, <1>ci DEF AppendSucceeded, Step, ControlInv
  <2>3. pc' \in [Proc -> PC]
    BY <1>14, <1>pc DEF AppendSucceeded, Go, PC
  <2>4. ControlInv'
    BY <1>14, <1>ci, <1>pc, <1>op, <1>step, <1>job, <1>lock
    DEF AppendSucceeded, Go, PC, ControlInv, JobRunning, NoJob, Step, Commit, target, stateDir,
        procVars
  <2> QED
    BY <1>14, <2>1, <2>2, <2>3, <2>4
    DEF AppendSucceeded, TypeInv, TypeOK, target, stateDir, procVars
<1>15. ASSUME NEW p \in Proc, AppendFailed(p) PROVE TypeInv'
  <2>1. events' \in [Proc -> Seq(Event)]
    BY <1>15, <1>events, <1>op, <1>step, <1>ci, AppendEventType, <1>ty
    DEF AppendFailed, ControlInv, Phase
  <2>2. pc' \in [Proc -> PC]
    BY <1>15, <1>pc DEF AppendFailed, Go, PC
  <2>3. ControlInv'
    BY <1>15, <1>ci, <1>pc, <1>op, <1>step, <1>job, <1>lock
    DEF AppendFailed, Go, PC, ControlInv, JobRunning, NoJob, Step, Commit, target, stateDir,
        procVars
  <2> QED
    BY <1>15, <2>1, <2>2, <2>3 DEF AppendFailed, TypeInv, TypeOK, target, stateDir, procVars
<1>16. ASSUME NEW p \in Proc, WriteJournalFailed(p) PROVE TypeInv'
  <2>1. journal' \in [Proc -> [status : Status, generation : 0..MaxGeneration]]
    BY <1>16, <1>journal, <1>op, <1>base, <1>ci DEF WriteJournalFailed, Status, ControlInv
  <2>2. pc' \in [Proc -> PC]
    BY <1>16, <1>pc DEF WriteJournalFailed, Go, PC
  <2>3. ControlInv'
    BY <1>16, <1>ci, <1>pc, <1>op, <1>step, <1>job, <1>lock
    DEF WriteJournalFailed, Go, PC, ControlInv, JobRunning, NoJob, Step, Commit, target, stateDir,
        procVars
  <2> QED
    BY <1>16, <2>1, <2>2, <2>3 DEF WriteJournalFailed, TypeInv, TypeOK, target, stateDir, procVars
<1>17. ASSUME NEW p \in Proc, ReadSnapshot(p) PROVE TypeInv'
  <2>1. pc' \in [Proc -> PC]
    BY <1>17, <1>pc DEF ReadSnapshot, Go, PC
  <2>2. ControlInv'
    BY <1>17, <1>ci, <1>pc, <1>op, <1>step, <1>job, <1>lock
    DEF ReadSnapshot, Go, PC, ControlInv, JobRunning, NoJob, Step, Commit, target, stateDir,
        procVars
  <2> QED
    BY <1>17, <2>1, <2>2 DEF ReadSnapshot, TypeInv, TypeOK, target, stateDir, procVars
<1>18. ASSUME NEW p \in Proc, ReadPointers(p) PROVE TypeInv'
  <2>1. pc' \in [Proc -> PC]
    BY <1>18, <1>pc DEF ReadPointers, Go, PC
  <2>2. ControlInv'
    BY <1>18, <1>ci, <1>pc, <1>op, <1>step, <1>job, <1>lock
    DEF ReadPointers, Go, PC, ControlInv, JobRunning, NoJob, Step, Commit, target, stateDir,
        procVars
  <2> QED
    BY <1>18, <2>1, <2>2 DEF ReadPointers, TypeInv, TypeOK, target, stateDir, procVars
<1>19. ASSUME NEW p \in Proc, Redispatch(p) PROVE TypeInv'
  <2>1. job' \in [Proc -> [op : Proc \cup {None}, step : 0..NSteps, at : JobAt]]
    BY <1>19, <1>job, <1>op, <1>step, <1>ci
    DEF Redispatch, DispatchOperation, JobAt, NoJob, Step, Commit, ControlInv, JobRunning
  <2>2. dispatches' \in [Proc -> [Step -> Nat]]
    <3>1. op[p] \in Proc /\ Commit \in Step
      BY <1>19, <1>ci DEF Redispatch, ControlInv, Step, Commit
    <3>2. dispatches[op[p]][Commit] + 1 \in Nat
      BY <3>1, <1>dispatches
    <3>3. [dispatches[op[p]] EXCEPT ![Commit] = @ + 1] \in [Step -> Nat]
      BY <1>dispatches, <3>1, <3>2
    <3>4. \/ UNCHANGED dispatches
          \/ dispatches' = [dispatches EXCEPT ![op[p]] =
                              [dispatches[op[p]] EXCEPT ![Commit] = @ + 1]]
      BY <1>19, <1>dispatches, <3>1 DEF Redispatch, DispatchOperation
    <3> QED
      BY <1>dispatches, <3>1, <3>3, <3>4
  <2>3. pc' \in [Proc -> PC]
    BY <1>19, <1>pc DEF Redispatch, DispatchOperation, Go, PC
  <2>4. ControlInv'
    BY <1>19, <1>ci, <1>pc, <1>op, <1>step, <1>job, <1>lock
    DEF Redispatch, DispatchOperation, Go, PC, ControlInv, JobRunning, NoJob, Step, Commit,
        target, stateDir, procVars
  <2> QED
    BY <1>19, <2>1, <2>2, <2>3, <2>4
    DEF Redispatch, DispatchOperation, TypeInv, TypeOK, target, stateDir, procVars
<1>20. ASSUME NEW p \in Proc, Reverify(p) PROVE TypeInv'
  <2>1. pc' \in [Proc -> PC]
    BY <1>20, <1>pc DEF Reverify, Go, PC
  <2>2. ControlInv'
    BY <1>20, <1>ci, <1>pc, <1>op, <1>step, <1>job, <1>lock
    DEF Reverify, Go, PC, ControlInv, JobRunning, NoJob, Step, Commit, target, stateDir, procVars
  <2> QED
    BY <1>20, <2>1, <2>2 DEF Reverify, TypeInv, TypeOK, target, stateDir, procVars
<1>21. ASSUME NEW p \in Proc, WriteJournalSucceeded(p) PROVE TypeInv'
  <2>1. journal' \in [Proc -> [status : Status, generation : 0..MaxGeneration]]
    BY <1>21, <1>journal, <1>op, <1>base, <1>ci DEF WriteJournalSucceeded, Status, ControlInv
  <2>2. pc' \in [Proc -> PC]
    BY <1>21, <1>pc DEF WriteJournalSucceeded, Go, PC
  <2>3. ControlInv'
    BY <1>21, <1>ci, <1>pc, <1>op, <1>step, <1>job, <1>lock
    DEF WriteJournalSucceeded, Go, PC, ControlInv, JobRunning, NoJob, Step, Commit, target,
        stateDir, procVars
  <2> QED
    BY <1>21, <2>1, <2>2, <2>3
    DEF WriteJournalSucceeded, TypeInv, TypeOK, target, stateDir, procVars
<1>22. ASSUME NEW p \in Proc, ReleaseLock(p) PROVE TypeInv'
  <2>1. lock' \in Proc \cup {None}
    BY <1>22, <1>lock DEF ReleaseLock, ReleasedLock
  <2>2. pc' \in [Proc -> PC]
    BY <1>22, <1>pc DEF ReleaseLock, ReleasedLock, Go, PC
  <2>3. ControlInv'
    BY <1>22, <1>ci, <1>pc, <1>op, <1>step, <1>job, <1>lock
    DEF ReleaseLock, ReleasedLock, Go, PC, ControlInv, JobRunning, NoJob, Step, Commit, target,
        stateDir, procVars
  <2> QED
    BY <1>22, <2>1, <2>2, <2>3
    DEF ReleaseLock, ReleasedLock, TypeInv, TypeOK, target, stateDir, procVars
<1>23. ASSUME NEW p \in Proc, ReleaseLease(p) PROVE TypeInv'
  <2>1. holder' \in Proc \cup {None}
    BY <1>23, <1>holder DEF ReleaseLease, Forget
  <2>2. pc' \in [Proc -> PC]
    BY <1>23, <1>pc DEF ReleaseLease, Forget, Go, PC
  <2>3. op' \in [Proc -> Proc \cup {None}]
    BY <1>23, <1>op, <1>lock DEF ReleaseLease, Forget
  <2>4. base' \in [Proc -> 0..(MaxGeneration - 1)]
    BY <1>23, <1>base, <1>current DEF ReleaseLease, Forget
  <2>5. view' \in [Proc -> Seq(Event)]
    BY <1>23, <1>view, <1>events, <1>op, <1>ci DEF ReleaseLease, Forget, ControlInv
  <2>6. step' \in [Proc -> 0..(NSteps + 1)]
    BY <1>23, <1>step, <1>ci DEF ReleaseLease, Forget, Step, ControlInv
  <2>7. lost' \in [Proc -> BOOLEAN]
    BY <1>23, <1>lost DEF ReleaseLease, Forget
  <2>8. ControlInv'
    BY <1>23, <1>ci, <1>pc, <1>op, <1>step, <1>job, <1>lock
    DEF ReleaseLease, Forget, Go, PC, ControlInv, JobRunning, NoJob, Step, Commit, target,
        stateDir, procVars
  <2> QED
    BY <1>23, <2>1, <2>2, <2>3, <2>4, <2>5, <2>6, <2>7, <2>8
    DEF ReleaseLease, Forget, TypeInv, TypeOK, target, stateDir, procVars
<1>24. ASSUME NEW p \in Proc, Abort(p) PROVE TypeInv'
  <2>1. pc' \in [Proc -> PC]
    BY <1>24, <1>pc DEF Abort, Fault, Go, PC
  <2>2. faults' \in 0..MaxFaults
    BY <1>24, <1>faults DEF Abort, Fault
  <2>3. ControlInv'
    BY <1>24, <1>ci, <1>pc, <1>op, <1>step, <1>job, <1>lock
    DEF Abort, Fault, Go, PC, ControlInv, JobRunning, NoJob, Step, Commit, target, stateDir,
        procVars
  <2> QED
    BY <1>24, <2>1, <2>2, <2>3 DEF Abort, Fault, TypeInv, TypeOK, target, stateDir, procVars
<1>25. ASSUME NEW p \in Proc, Crash(p) PROVE TypeInv'
  <2>1. job' \in [Proc -> [op : Proc \cup {None}, step : 0..NSteps, at : JobAt]]
    BY <1>25, <1>job, <1>op, <1>step, <1>ci
    DEF Crash, Forget, Fault, JobAt, NoJob, Step, Commit, ControlInv, JobRunning
  <2>2. faults' \in 0..MaxFaults
    BY <1>25, <1>faults DEF Crash, Forget, Fault
  <2>3. pc' \in [Proc -> PC]
    BY <1>25, <1>pc DEF Crash, Forget, Fault, Go, PC
  <2>4. op' \in [Proc -> Proc \cup {None}]
    BY <1>25, <1>op, <1>lock DEF Crash, Forget, Fault
  <2>5. base' \in [Proc -> 0..(MaxGeneration - 1)]
    BY <1>25, <1>base, <1>current DEF Crash, Forget, Fault
  <2>6. view' \in [Proc -> Seq(Event)]
    BY <1>25, <1>view, <1>events, <1>op, <1>ci DEF Crash, Forget, Fault, ControlInv
  <2>7. step' \in [Proc -> 0..(NSteps + 1)]
    BY <1>25, <1>step, <1>ci DEF Crash, Forget, Fault, Step, ControlInv
  <2>8. lost' \in [Proc -> BOOLEAN]
    BY <1>25, <1>lost DEF Crash, Forget, Fault
  <2>9. ControlInv'
    BY <1>25, <1>ci, <1>pc, <1>op, <1>step, <1>job, <1>lock
    DEF Crash, Forget, Fault, Go, PC, ControlInv, JobRunning, NoJob, Step, Commit, target,
        stateDir, procVars
  <2> QED
    BY <1>25, <2>1, <2>2, <2>3, <2>4, <2>5, <2>6, <2>7, <2>8, <2>9
    DEF Crash, Forget, Fault, TypeInv, TypeOK, target, stateDir, procVars
<1>26. ASSUME NEW p \in Proc, RunRole(p) PROVE TypeInv'
  <2>1. done' \in [Proc -> SUBSET Step]
    BY <1>26, <1>done, <1>job, <1>ci
    DEF RunRole, JobAdvances, Step, Commit, ControlInv, JobRunning
  <2>2. managed' \in BOOLEAN
    BY <1>26, <1>managed DEF RunRole, JobAdvances
  <2>3. job' \in [Proc -> [op : Proc \cup {None}, step : 0..NSteps, at : JobAt]]
    BY <1>26, <1>job, <1>op, <1>step, <1>ci
    DEF RunRole, JobAdvances, JobAt, NoJob, Step, Commit, ControlInv, JobRunning
  <2>4. ControlInv'
    BY <1>26, <1>ci, <1>pc, <1>op, <1>step, <1>job, <1>lock
    DEF RunRole, JobAdvances, Go, PC, ControlInv, JobRunning, NoJob, Step, Commit, target,
        stateDir, procVars
  <2> QED
    BY <1>26, <2>1, <2>2, <2>3, <2>4
    DEF RunRole, JobAdvances, TypeInv, TypeOK, target, stateDir, procVars
<1>27. ASSUME NEW p \in Proc, StatSnapshot(p) PROVE TypeInv'
  <2>1. job' \in [Proc -> [op : Proc \cup {None}, step : 0..NSteps, at : JobAt]]
    BY <1>27, <1>job, <1>op, <1>step, <1>ci
    DEF StatSnapshot, JobAdvances, JobAt, NoJob, Step, Commit, ControlInv, JobRunning
  <2>2. ControlInv'
    BY <1>27, <1>ci, <1>pc, <1>op, <1>step, <1>job, <1>lock
    DEF StatSnapshot, JobAdvances, Go, PC, ControlInv, JobRunning, NoJob, Step, Commit, target,
        stateDir, procVars
  <2> QED
    BY <1>27, <2>1, <2>2
    DEF StatSnapshot, JobAdvances, TypeInv, TypeOK, target, stateDir, procVars
<1>28. ASSUME NEW p \in Proc, PublishSnapshot(p) PROVE TypeInv'
  <2>1. snapshot' \in [Generation -> Op \cup {None}]
    BY <1>28, <1>snapshot, <1>job, <1>ci
    DEF PublishSnapshot, JobAdvances, Op, ControlInv, JobRunning
  <2>2. job' \in [Proc -> [op : Proc \cup {None}, step : 0..NSteps, at : JobAt]]
    BY <1>28, <1>job, <1>op, <1>step, <1>ci
    DEF PublishSnapshot, JobAdvances, JobAt, NoJob, Step, Commit, ControlInv, JobRunning
  <2>3. ControlInv'
    BY <1>28, <1>ci, <1>pc, <1>op, <1>step, <1>job, <1>lock
    DEF PublishSnapshot, JobAdvances, Go, PC, ControlInv, JobRunning, NoJob, Step, Commit, target,
        stateDir, procVars
  <2> QED
    BY <1>28, <2>1, <2>2, <2>3
    DEF PublishSnapshot, JobAdvances, TypeInv, TypeOK, target, stateDir, procVars
<1>29. ASSUME NEW p \in Proc, WriteTopology(p) PROVE TypeInv'
  <2>1. topology' \in Op \cup {None}
    BY <1>29, <1>topology, <1>job, <1>ci
    DEF WriteTopology, JobAdvances, Op, ControlInv, JobRunning
  <2>2. job' \in [Proc -> [op : Proc \cup {None}, step : 0..NSteps, at : JobAt]]
    BY <1>29, <1>job, <1>op, <1>step, <1>ci
    DEF WriteTopology, JobAdvances, JobAt, NoJob, Step, Commit, ControlInv, JobRunning
  <2>3. ControlInv'
    BY <1>29, <1>ci, <1>pc, <1>op, <1>step, <1>job, <1>lock
    DEF WriteTopology, JobAdvances, Go, PC, ControlInv, JobRunning, NoJob, Step, Commit, target,
        stateDir, procVars
  <2> QED
    BY <1>29, <2>1, <2>2, <2>3
    DEF WriteTopology, JobAdvances, TypeInv, TypeOK, target, stateDir, procVars
<1>30. ASSUME NEW p \in Proc, WriteCurrent(p) PROVE TypeInv'
  <2>1. current' \in Op \cup {None}
    BY <1>30, <1>current, <1>job, <1>ci DEF WriteCurrent, JobAdvances, Op, ControlInv, JobRunning
  <2>2. done' \in [Proc -> SUBSET Step]
    BY <1>30, <1>done, <1>job, <1>ci
    DEF WriteCurrent, JobAdvances, Step, Commit, ControlInv, JobRunning
  <2>3. job' \in [Proc -> [op : Proc \cup {None}, step : 0..NSteps, at : JobAt]]
    BY <1>30, <1>job, <1>op, <1>step, <1>ci
    DEF WriteCurrent, JobAdvances, JobAt, NoJob, Step, Commit, ControlInv, JobRunning
  <2>4. ControlInv'
    BY <1>30, <1>ci, <1>pc, <1>op, <1>step, <1>job, <1>lock
    DEF WriteCurrent, JobAdvances, Go, PC, ControlInv, JobRunning, NoJob, Step, Commit, target,
        stateDir, procVars
  <2> QED
    BY <1>30, <2>1, <2>2, <2>3, <2>4
    DEF WriteCurrent, JobAdvances, TypeInv, TypeOK, target, stateDir, procVars
<1>31. ASSUME NEW p \in Proc, FailRole(p) PROVE TypeInv'
  <2>1. managed' \in BOOLEAN
    BY <1>31, <1>managed DEF FailRole, Fault, JobAdvances
  <2>2. job' \in [Proc -> [op : Proc \cup {None}, step : 0..NSteps, at : JobAt]]
    BY <1>31, <1>job, <1>op, <1>step, <1>ci
    DEF FailRole, Fault, JobAdvances, JobAt, NoJob, Step, Commit, ControlInv, JobRunning
  <2>3. faults' \in 0..MaxFaults
    BY <1>31, <1>faults DEF FailRole, Fault, JobAdvances
  <2>4. ControlInv'
    BY <1>31, <1>ci, <1>pc, <1>op, <1>step, <1>job, <1>lock
    DEF FailRole, Fault, JobAdvances, Go, PC, ControlInv, JobRunning, NoJob, Step, Commit, target,
        stateDir, procVars
  <2> QED
    BY <1>31, <2>1, <2>2, <2>3, <2>4
    DEF FailRole, Fault, JobAdvances, TypeInv, TypeOK, target, stateDir, procVars
<1>32. CASE UNCHANGED vars
  BY <1>32 DEF vars, TypeInv, TypeOK, ControlInv, JobRunning
<1> QED
  BY <1>0, <1>1, <1>2, <1>3, <1>4, <1>5, <1>6, <1>7, <1>8, <1>9, <1>10, <1>11, <1>12, <1>13,
     <1>14, <1>15, <1>16, <1>17, <1>18, <1>19, <1>20, <1>21, <1>22, <1>23, <1>24, <1>25, <1>26,
     <1>27, <1>28, <1>29, <1>30, <1>31, <1>32
  DEF Next, RunUnderLease, FreshRun, ResumeRun, DispatchLoop, RecoverCommit, EndRun, Role

\* Every variable of Apply keeps its type.
THEOREM ApplyTypeCorrect == Spec => []TypeOK
<1>1. TypeInv => TypeOK
  BY DEF TypeInv
<1> QED
  BY <1>1, InitTypeInv, TypeStep, PTL DEF Spec

-----------------------------------------------------------------------------
(* Locks, journals and snapshots.                                          *)

\* The files these theorems are about.
Files == <<lock, journal, snapshot>>

\* Starting, taking and losing the lease, and ending early touch none of them.
LEMMA LeaseFrame ==
  ASSUME NEW p \in Proc,
         \/ StartFresh(p) \/ StartResume(p) \/ AcquireLease(p) \/ LeaseBusy(p)
         \/ NoticeLoss(p) \/ Abort(p) \/ Crash(p) \/ ReleaseLease(p)
  PROVE  UNCHANGED Files
<1>1. CASE StartFresh(p) \/ StartResume(p)
  BY <1>1 DEF StartFresh, StartResume, Files, target, stateDir
<1>2. CASE AcquireLease(p) \/ LeaseBusy(p)
  BY <1>2 DEF AcquireLease, LeaseBusy, Files, target, stateDir
<1>3. CASE NoticeLoss(p) \/ Abort(p)
  BY <1>3 DEF NoticeLoss, Abort, Files, target, stateDir
<1>4. CASE Crash(p) \/ ReleaseLease(p)
  BY <1>4 DEF Crash, ReleaseLease, Files, target, stateDir
<1> QED
  BY <1>1, <1>2, <1>3, <1>4

\* The reads, the events and the dispatches of a run touch none of them.
LEMMA LoopFrame ==
  ASSUME NEW p \in Proc,
         \/ Recheck(p) \/ ReadLock(p) \/ ReadOperation(p) \/ Decide(p)
         \/ AppendStarted(p) \/ Dispatch(p) \/ DispatchEnds(p) \/ AppendSucceeded(p)
         \/ AppendFailed(p) \/ RecoverCommit(p)
  PROVE  UNCHANGED Files
<1>1. CASE Recheck(p) \/ ReadLock(p)
  BY <1>1 DEF Recheck, ReadLock, Files, target, stateDir
<1>2. CASE ReadOperation(p) \/ Decide(p)
  <2>1. UNCHANGED <<target, stateDir>>
    BY <1>2, Zenon DEF ReadOperation, Decide
  <2> QED
    BY <2>1 DEF Files, target, stateDir
<1>3. CASE AppendStarted(p) \/ AppendSucceeded(p) \/ AppendFailed(p)
  BY <1>3 DEF AppendStarted, AppendSucceeded, AppendFailed, Files, stateDir
<1>4. CASE Dispatch(p) \/ DispatchEnds(p)
  <2>1. UNCHANGED <<target, stateDir>>
    BY <1>4, Zenon DEF Dispatch, DispatchEnds
  <2> QED
    BY <2>1 DEF Files, target, stateDir
<1>5. CASE RecoverCommit(p)
  BY <1>5 DEF RecoverCommit, ReadSnapshot, ReadPointers, Redispatch, Reverify, Files, target,
              stateDir
<1> QED
  BY <1>1, <1>2, <1>3, <1>4, <1>5

\* Of the tasks of a role, only the publishing one does.
LEMMA RoleFrame ==
  ASSUME NEW p \in Proc,
         \/ RunRole(p) \/ StatSnapshot(p) \/ WriteTopology(p) \/ WriteCurrent(p)
         \/ FailRole(p)
  PROVE  UNCHANGED Files
<1>1. CASE RunRole(p) \/ FailRole(p)
  BY <1>1 DEF RunRole, FailRole, Files, target
<1>2. CASE StatSnapshot(p)
  <2>1. UNCHANGED <<target, stateDir>>
    BY <1>2, Zenon DEF StatSnapshot
  <2> QED
    BY <2>1 DEF Files, target, stateDir
<1>3. CASE WriteTopology(p) \/ WriteCurrent(p)
  BY <1>3 DEF WriteTopology, WriteCurrent, Files, target
<1> QED
  BY <1>1, <1>2, <1>3

WritesFiles(p) ==
  \/ CreateLockAndJournal(p) \/ WriteJournalFailed(p) \/ WriteJournalSucceeded(p)
  \/ ReleaseLock(p) \/ PublishSnapshot(p)

\* Every step leaves lock, journals and snapshots alone or is one of five actions.
LEMMA WhoWritesFiles ==
  [Next]_vars => UNCHANGED Files \/ \E p \in Proc : WritesFiles(p)
<1> SUFFICES ASSUME [Next]_vars PROVE UNCHANGED Files \/ \E p \in Proc : WritesFiles(p)
  OBVIOUS
<1>1. CASE UNCHANGED vars
  BY <1>1 DEF vars, Files
<1>2. CASE ExpireLease
  BY <1>2 DEF ExpireLease, Files, target, stateDir
<1>3. ASSUME NEW p \in Proc,
             \/ StartFresh(p) \/ StartResume(p) \/ AcquireLease(p) \/ LeaseBusy(p)
             \/ RunUnderLease(p) \/ NoticeLoss(p) \/ Abort(p) \/ Crash(p)
             \/ Role(p) \/ FailRole(p)
      PROVE  UNCHANGED Files \/ WritesFiles(p)
  BY <1>3, LeaseFrame, LoopFrame, RoleFrame, Zenon
  DEF RunUnderLease, FreshRun, ResumeRun, DispatchLoop, EndRun, Role, WritesFiles
<1> QED
  BY <1>1, <1>2, <1>3 DEF Next

\* A journal that exists is never removed or taken back to nothing.
LEMMA JournalsStay ==
  ASSUME TypeInv, [Next]_vars, NEW o \in Proc, journal[o].status # "absent"
  PROVE  journal'[o].status # "absent"
<1>1. journal \in [Proc -> [status : Status, generation : 0..MaxGeneration]]
  BY DEF TypeInv, TypeOK
<1>2. CASE UNCHANGED Files
  BY <1>2 DEF Files
<1>3. ASSUME NEW p \in Proc, WritesFiles(p) PROVE journal'[o].status # "absent"
  <2>1. CASE CreateLockAndJournal(p)
    BY <1>1, <2>1 DEF CreateLockAndJournal
  <2>2. CASE WriteJournalFailed(p) \/ WriteJournalSucceeded(p)
    BY <1>1, <2>2 DEF WriteJournalFailed, WriteJournalSucceeded
  <2>3. CASE ReleaseLock(p) \/ PublishSnapshot(p)
    BY <2>3 DEF ReleaseLock, PublishSnapshot, target
  <2> QED
    BY <1>3, <2>1, <2>2, <2>3 DEF WritesFiles
<1> QED
  BY <1>2, <1>3, WhoWritesFiles

\* acquireLockAndJournal() with every interruption, and everything that removes a
\* lock later: lock.json only ever names an operation that has a journal.
THEOREM LockHasJournalHolds == Spec => []LockHasJournal
<1>1. Init => LockHasJournal
  BY DEF Init, LockHasJournal
<1>2. TypeInv /\ LockHasJournal /\ [Next]_vars => LockHasJournal'
  <2> SUFFICES ASSUME TypeInv, LockHasJournal, [Next]_vars, lock' # None
               PROVE  journal'[lock'].status # "absent"
    BY DEF LockHasJournal
  <2>1. CASE lock' = lock
    <3>1. lock \in Proc
      BY <2>1 DEF TypeInv, TypeOK
    <3> QED
      BY <2>1, <3>1, JournalsStay DEF LockHasJournal
  <2>2. CASE lock' # lock
    <3>1. PICK p \in Proc : WritesFiles(p)
      BY <2>2, WhoWritesFiles DEF Files
    <3>2. CreateLockAndJournal(p)
      BY <2>2, <3>1
      DEF WritesFiles, WriteJournalFailed, WriteJournalSucceeded, ReleaseLock, ReleasedLock,
          PublishSnapshot, target
    <3> QED
      BY <2>2, <3>2 DEF CreateLockAndJournal, TypeInv, TypeOK
  <2> QED
    BY <2>1, <2>2
<1> QED
  BY <1>1, <1>2, InitTypeInv, TypeStep, PTL DEF Spec

-----------------------------------------------------------------------------
(* The actions of Apply as facts about the state they leave: what each lets *)
(* a proof know of the invocation that takes it, and what it leaves alone.  *)

\* A fresh invocation notes the generation it inspected and waits for the lease.
LEMMA StartFreshEffect ==
  ASSUME TypeInv, NEW p \in Proc, StartFresh(p)
  PROVE  /\ pc[p] = "idle" /\ holder # p /\ ~JobRunning(p) /\ journal[p].status = "absent"
         /\ BaselineResolves /\ GenerationOf(current) < MaxGeneration
         /\ mode'[p] = "fresh" /\ base'[p] = GenerationOf(current) /\ pc'[p] = "leasing"
         /\ \A q \in Proc \ {p} : mode'[q] = mode[q] /\ base'[q] = base[q] /\ pc'[q] = pc[q]
         /\ UNCHANGED <<holder, lock, journal, events, snapshot, topology, current, done,
                dispatches, op, view, step, job>>
  BY DEF StartFresh, Go, target, stateDir, TypeInv, TypeOK

\* A resuming invocation notes nothing and waits for the lease.
LEMMA StartResumeEffect ==
  ASSUME TypeInv, NEW p \in Proc, StartResume(p)
  PROVE  /\ pc[p] = "idle" /\ holder # p /\ ~JobRunning(p)
         /\ mode'[p] = "resume" /\ pc'[p] = "leasing"
         /\ \A q \in Proc \ {p} : mode'[q] = mode[q] /\ pc'[q] = pc[q]
         /\ UNCHANGED <<holder, lock, journal, events, snapshot, topology, current, done,
                dispatches, op, base, view, step, job>>
  BY DEF StartResume, Go, target, stateDir, TypeInv, TypeOK

\* A free lease goes to the invocation that asks for it.
LEMMA AcquireLeaseEffect ==
  ASSUME TypeInv, NEW p \in Proc, AcquireLease(p)
  PROVE  /\ pc[p] = "leasing" /\ holder = None
         /\ holder' = p /\ pc'[p] = "leased"
         /\ \A q \in Proc \ {p} : pc'[q] = pc[q]
         /\ UNCHANGED <<lock, journal, events, snapshot, topology, current, done, dispatches,
                mode, op, base, view, step, job>>
  BY DEF AcquireLease, Go, target, stateDir, procVars, TypeInv, TypeOK

\* Refused the lease, an invocation forgets and changes nothing on the target.
LEMMA LeaseBusyEffect ==
  ASSUME TypeInv, NEW p \in Proc, LeaseBusy(p)
  PROVE  /\ pc[p] = "leasing"
         /\ pc'[p] = "idle" /\ op'[p] = None /\ base'[p] = 0 /\ view'[p] = <<>> /\ step'[p] = 0
         /\ \A q \in Proc \ {p} : /\ pc'[q] = pc[q] /\ op'[q] = op[q] /\ base'[q] = base[q]
                                  /\ view'[q] = view[q] /\ step'[q] = step[q]
         /\ UNCHANGED <<holder, lock, journal, events, snapshot, topology, current, done,
                dispatches, mode, job>>
  BY DEF LeaseBusy, Forget, target, stateDir, TypeInv, TypeOK

\* A heartbeat sets the invocation's flag only.
LEMMA NoticeLossEffect ==
  ASSUME TypeInv, NEW p \in Proc, NoticeLoss(p)
  PROVE  /\ pc[p] \notin {"idle", "leasing"}
         /\ UNCHANGED <<holder, lock, journal, events, snapshot, topology, current, done,
                dispatches, pc, mode, op, base, view, step, job>>
  BY DEF NoticeLoss, target, stateDir, procVars, UnderLease, Fault, TypeInv, TypeOK

\* Both files, neither, or the journal alone.
LEMMA CreateLockAndJournalEffect ==
  ASSUME TypeInv, NEW p \in Proc, CreateLockAndJournal(p)
  PROVE  /\ pc[p] = "leased" /\ mode[p] = "fresh"
         /\ \/ holder = p /\ lock = None /\ lock' = p /\ op'[p] = p /\ pc'[p] = "locked"
               /\ journal'[p].status = "in-progress" /\ journal'[p].generation = base[p] + 1
            \/ lock' = lock /\ op'[p] = op[p] /\ pc'[p] = "exit" /\ journal'[p] = journal[p]
            \/ lock' = lock /\ op'[p] = op[p] /\ pc'[p] = "exit" /\ holder = p
               /\ journal'[p].status = "in-progress" /\ journal'[p].generation = base[p] + 1
         /\ \A q \in Proc \ {p} : op'[q] = op[q] /\ pc'[q] = pc[q]
         /\ \A o \in Proc \ {p} : journal'[o] = journal[o]
         /\ UNCHANGED <<holder, events, snapshot, topology, current, done, dispatches, mode,
                base, view, step, job>>
  BY DEF CreateLockAndJournal, Go, stateDir, Fault, TypeInv, TypeOK

\* Only a plan that still matches enters the loop, at its first step.
LEMMA RecheckEffect ==
  ASSUME TypeInv, NEW p \in Proc, Recheck(p)
  PROVE  /\ pc[p] = "locked"
         /\ \/ LivePlanMatches(p) /\ pc'[p] = "loop" /\ step'[p] = 1
            \/ pc'[p] = "unlock" /\ step'[p] = step[p]
         /\ \A q \in Proc \ {p} : pc'[q] = pc[q] /\ step'[q] = step[q]
         /\ UNCHANGED <<holder, lock, journal, events, snapshot, topology, current, done,
                dispatches, mode, op, base, view, job>>
  BY DEF Recheck, Go, target, stateDir, TypeInv, TypeOK

\* A resume takes up the operation that the lock names.
LEMMA ReadLockEffect ==
  ASSUME TypeInv, NEW p \in Proc, ReadLock(p)
  PROVE  /\ pc[p] = "leased" /\ mode[p] = "resume" /\ op'[p] = lock
         /\ \/ lock = None /\ pc'[p] = "exit"
            \/ lock # None /\ pc'[p] = "reading"
         /\ \A q \in Proc \ {p} : op'[q] = op[q] /\ pc'[q] = pc[q]
         /\ UNCHANGED <<holder, lock, journal, events, snapshot, topology, current, done,
                dispatches, mode, base, view, step, job>>
  BY DEF ReadLock, Go, target, stateDir, TypeInv, TypeOK

\* A resume keeps its copy of the stream, and enters the loop of an open operation only.
LEMMA ReadOperationEffect ==
  ASSUME TypeInv, NEW p \in Proc, ReadOperation(p)
  PROVE  /\ pc[p] = "reading" /\ view'[p] = events[op[p]] /\ step'[p] = 1
         /\ \/ journal[op[p]].status \notin {"absent", "failed", "succeeded"} /\ pc'[p] = "loop"
            \/ journal[op[p]].status \in {"absent", "succeeded"} /\ pc'[p] = "unlock"
            \/ pc'[p] = "exit"
         /\ \A q \in Proc \ {p} : pc'[q] = pc[q] /\ view'[q] = view[q] /\ step'[q] = step[q]
         /\ UNCHANGED <<holder, lock, journal, events, snapshot, topology, current, done,
                dispatches, mode, op, base, job>>
  BY DEF ReadOperation, Go, target, stateDir, TypeInv, TypeOK

\* The five ways out of a turn of the loop.
LEMMA DecideEffect ==
  ASSUME TypeInv, NEW p \in Proc, Decide(p)
  PROVE  /\ pc[p] = "loop"
         /\ \/ step[p] > NSteps /\ pc'[p] = "finishing" /\ step'[p] = step[p]
            \/ step[p] <= NSteps /\ DecideStepResumption(view[p], step[p]) = "skip"
               /\ pc'[p] = "loop" /\ step'[p] = step[p] + 1
            \/ step[p] <= NSteps /\ DecideStepResumption(view[p], step[p]) = "run"
               /\ pc'[p] = "starting" /\ step'[p] = step[p]
            \/ step[p] = Commit /\ DecideStepResumption(view[p], step[p]) = "blocked"
               /\ pc'[p] = "recover" /\ step'[p] = step[p]
            \/ pc'[p] = "exit" /\ step'[p] = step[p]
         /\ \A q \in Proc \ {p} : pc'[q] = pc[q] /\ step'[q] = step[q]
         /\ UNCHANGED <<holder, lock, journal, events, snapshot, topology, current, done,
                dispatches, mode, op, base, view, job>>
<1>1. /\ pc \in [Proc -> PC] /\ step \in [Proc -> 0..(NSteps + 1)]
      /\ step[p] \in Nat /\ NSteps \in Nat
  BY ApplyAssumption DEF TypeInv, TypeOK
<1>2. CASE step[p] > NSteps
  BY <1>1, <1>2 DEF Decide, Go, target, stateDir
<1>3. CASE step[p] <= NSteps
  <2> DEFINE outcome == DecideStepResumption(view[p], step[p])
  <2> HIDE DEF outcome
  <2>1. /\ pc[p] = "loop"
        /\ \/ UNCHANGED step /\ pc' = [pc EXCEPT ![p] = "exit"]
           \/ outcome = "skip" /\ step' = [step EXCEPT ![p] = @ + 1] /\ UNCHANGED pc
           \/ outcome = "run" /\ pc' = [pc EXCEPT ![p] = "starting"] /\ UNCHANGED step
           \/ /\ outcome = "blocked" /\ step[p] = Commit
              /\ pc' = [pc EXCEPT ![p] = "recover"] /\ UNCHANGED step
        /\ UNCHANGED <<holder, target, stateDir, dispatches, mode, op, base, view, job>>
    BY <1>1, <1>3 DEF Decide, Go, outcome
  <2> QED
    BY <1>1, <1>3, <2>1 DEF outcome, target, stateDir
<1> QED
  BY <1>1, <1>2, <1>3

\* The started event is there, under the lease, or the run is over.
LEMMA AppendStartedEffect ==
  ASSUME TypeInv, NEW p \in Proc, AppendStarted(p)
  PROVE  /\ pc[p] = "starting"
         /\ \/ holder = p /\ AppendEvent(op[p], step[p], "started") /\ pc'[p] = "dispatch"
            \/ UNCHANGED <<events, job, dispatches>> /\ pc'[p] = "exit"
         /\ \A q \in Proc \ {p} : pc'[q] = pc[q]
         /\ UNCHANGED <<holder, lock, journal, snapshot, topology, current, done, dispatches,
                mode, op, base, view, step, job>>
  BY DEF AppendStarted, Go, stateDir, procVars, MayWrite, TypeInv, TypeOK

\* The role of the step is started, or the run is over.
LEMMA DispatchEffect ==
  ASSUME TypeInv, NEW p \in Proc, Dispatch(p)
  PROVE  /\ pc[p] = "dispatch"
         /\ \/ DispatchOperation(p, step[p]) /\ pc'[p] = "waiting"
            \/ UNCHANGED <<events, job, dispatches>> /\ pc'[p] = "exit"
         /\ \A q \in Proc \ {p} : job'[q] = job[q] /\ pc'[q] = pc[q]
         /\ UNCHANGED <<holder, lock, journal, events, snapshot, topology, current, done, mode,
                op, base, view, step>>
  BY DEF Dispatch, Go, DispatchOperation, target, stateDir, procVars, TypeInv, TypeOK

\* What an invocation makes of the end of its role.
LEMMA DispatchEndsEffect ==
  ASSUME TypeInv, NEW p \in Proc, DispatchEnds(p)
  PROVE  /\ ~JobRunning(p) /\ job'[p] = NoJob
         /\ \/ pc[p] = "waiting" /\ job[p].at = "ok" /\ pc'[p] = "succeeding"
            \/ pc[p] = "waiting" /\ job[p].at = "failed" /\ pc'[p] = "failing"
            \/ pc[p] = "rewaiting" /\ job[p].at = "ok" /\ pc'[p] = "reverify"
            \/ pc[p] \in {"waiting", "rewaiting"} /\ pc'[p] = "exit"
         /\ \A q \in Proc \ {p} : job'[q] = job[q] /\ pc'[q] = pc[q]
         /\ UNCHANGED <<holder, lock, journal, events, snapshot, topology, current, done,
                dispatches, mode, op, base, view, step>>
  BY DEF DispatchEnds, Go, target, stateDir, procVars, TypeInv, TypeOK

\* The success is on record, under the lease, and the loop goes on, or the run is over.
LEMMA AppendSucceededEffect ==
  ASSUME TypeInv, NEW p \in Proc, AppendSucceeded(p)
  PROVE  /\ pc[p] = "succeeding"
         /\ \/ holder = p /\ AppendEvent(op[p], step[p], "succeeded") /\ pc'[p] = "loop"
               /\ step'[p] = step[p] + 1
            \/ UNCHANGED <<events, job, dispatches>> /\ pc'[p] = "exit" /\ step'[p] = step[p]
         /\ \A q \in Proc \ {p} : step'[q] = step[q] /\ pc'[q] = pc[q]
         /\ UNCHANGED <<holder, lock, journal, snapshot, topology, current, done, dispatches,
                mode, op, base, view, job>>
  BY DEF AppendSucceeded, Go, stateDir, MayWrite, TypeInv, TypeOK

\* The failure is on record, under the lease, or the run is over.
LEMMA AppendFailedEffect ==
  ASSUME TypeInv, NEW p \in Proc, AppendFailed(p)
  PROVE  /\ pc[p] = "failing"
         /\ \/ holder = p /\ AppendEvent(op[p], step[p], "failed") /\ pc'[p] = "failed"
            \/ UNCHANGED <<events, job, dispatches>> /\ pc'[p] = "exit"
         /\ \A q \in Proc \ {p} : pc'[q] = pc[q]
         /\ UNCHANGED <<holder, lock, journal, snapshot, topology, current, done, dispatches,
                mode, op, base, view, step, job>>
  BY DEF AppendFailed, Go, stateDir, procVars, MayWrite, TypeInv, TypeOK

\* The journal turns failed, under the lease, and keeps its generation.
LEMMA WriteJournalFailedEffect ==
  ASSUME TypeInv, NEW p \in Proc, WriteJournalFailed(p)
  PROVE  /\ pc[p] = "failed"
         /\ \/ holder = p /\ pc'[p] = "unlock" /\ journal'[op[p]].status = "failed"
               /\ journal'[op[p]].generation = journal[op[p]].generation
            \/ pc'[p] = "exit" /\ UNCHANGED journal
         /\ \A q \in Proc \ {p} : pc'[q] = pc[q]
         /\ \A o \in Proc \ {op[p]} : journal'[o] = journal[o]
         /\ UNCHANGED <<holder, lock, events, snapshot, topology, current, done, dispatches,
                mode, op, base, view, step, job>>
<1>1. op[p] \in Proc /\ journal \in [Proc -> [status : Status, generation : 0..MaxGeneration]]
  BY DEF WriteJournalFailed, TypeInv, TypeOK, ControlInv
<1>2. pc \in [Proc -> PC]
  BY DEF TypeInv, TypeOK
<1> QED
  BY <1>1, <1>2 DEF WriteJournalFailed, Go, stateDir, procVars

\* Recovery goes on if the snapshot is this operation's own.
LEMMA ReadSnapshotEffect ==
  ASSUME TypeInv, NEW p \in Proc, ReadSnapshot(p)
  PROVE  /\ pc[p] = "recover"
         /\ \/ pc'[p] = "pointers" /\ snapshot[GenerationOf(op[p])] = op[p]
            \/ pc'[p] = "exit"
         /\ \A q \in Proc \ {p} : pc'[q] = pc[q]
         /\ UNCHANGED <<holder, lock, journal, events, snapshot, topology, current, done,
                dispatches, mode, op, base, view, step, job>>
  BY DEF ReadSnapshot, Go, target, stateDir, procVars, TypeInv, TypeOK

\* Recovery is over when both pointer files are this operation's own.
LEMMA ReadPointersEffect ==
  ASSUME TypeInv, NEW p \in Proc, ReadPointers(p)
  PROVE  /\ pc[p] = "pointers"
         /\ \/ pc'[p] = "succeeding" /\ current = op[p] /\ topology = op[p]
            \/ pc'[p] = "redispatch"
         /\ \A q \in Proc \ {p} : pc'[q] = pc[q]
         /\ UNCHANGED <<holder, lock, journal, events, snapshot, topology, current, done,
                dispatches, mode, op, base, view, step, job>>
  BY DEF ReadPointers, Go, target, stateDir, procVars, TypeInv, TypeOK

\* The state role is started again, or the run is over.
LEMMA RedispatchEffect ==
  ASSUME TypeInv, NEW p \in Proc, Redispatch(p)
  PROVE  /\ pc[p] = "redispatch"
         /\ \/ DispatchOperation(p, Commit) /\ pc'[p] = "rewaiting"
            \/ UNCHANGED <<events, job, dispatches>> /\ pc'[p] = "exit"
         /\ \A q \in Proc \ {p} : job'[q] = job[q] /\ pc'[q] = pc[q]
         /\ UNCHANGED <<holder, lock, journal, events, snapshot, topology, current, done, mode,
                op, base, view, step>>
  BY DEF Redispatch, Go, DispatchOperation, target, stateDir, procVars, TypeInv, TypeOK

\* Recovery is over when all three files are this operation's own.
LEMMA ReverifyEffect ==
  ASSUME TypeInv, NEW p \in Proc, Reverify(p)
  PROVE  /\ pc[p] = "reverify"
         /\ \/ pc'[p] = "succeeding" /\ CommitComplete(op[p])
            \/ pc'[p] = "exit"
         /\ \A q \in Proc \ {p} : pc'[q] = pc[q]
         /\ UNCHANGED <<holder, lock, journal, events, snapshot, topology, current, done,
                dispatches, mode, op, base, view, step, job>>
  BY DEF Reverify, Go, target, stateDir, procVars, TypeInv, TypeOK

\* The journal turns succeeded, under the lease, and keeps its generation.
LEMMA WriteJournalSucceededEffect ==
  ASSUME TypeInv, NEW p \in Proc, WriteJournalSucceeded(p)
  PROVE  /\ pc[p] = "finishing"
         /\ \/ holder = p /\ pc'[p] = "unlock" /\ journal'[op[p]].status = "succeeded"
               /\ journal'[op[p]].generation = journal[op[p]].generation
            \/ pc'[p] = "exit" /\ UNCHANGED journal
         /\ \A q \in Proc \ {p} : pc'[q] = pc[q]
         /\ \A o \in Proc \ {op[p]} : journal'[o] = journal[o]
         /\ UNCHANGED <<holder, lock, events, snapshot, topology, current, done, dispatches,
                mode, op, base, view, step, job>>
<1>1. op[p] \in Proc /\ journal \in [Proc -> [status : Status, generation : 0..MaxGeneration]]
  BY DEF WriteJournalSucceeded, TypeInv, TypeOK, ControlInv
<1>2. pc \in [Proc -> PC]
  BY DEF TypeInv, TypeOK
<1> QED
  BY <1>1, <1>2 DEF WriteJournalSucceeded, Go, stateDir, procVars, MayWrite

\* The lock goes if it is this operation's own.
LEMMA ReleaseLockEffect ==
  ASSUME TypeInv, NEW p \in Proc, ReleaseLock(p)
  PROVE  /\ pc[p] = "unlock" /\ pc'[p] = "exit" /\ lock' = ReleasedLock(op[p])
         /\ \A q \in Proc \ {p} : pc'[q] = pc[q]
         /\ UNCHANGED <<holder, journal, events, snapshot, topology, current, done, dispatches,
                mode, op, base, view, step, job>>
  BY DEF ReleaseLock, Go, stateDir, procVars, TypeInv, TypeOK

\* The lease is given back, and the invocation forgets.
LEMMA ReleaseLeaseEffect ==
  ASSUME TypeInv, NEW p \in Proc, ReleaseLease(p)
  PROVE  /\ pc[p] = "exit" /\ holder' = (IF holder = p THEN None ELSE holder)
         /\ pc'[p] = "idle" /\ op'[p] = None /\ base'[p] = 0 /\ view'[p] = <<>> /\ step'[p] = 0
         /\ \A q \in Proc \ {p} : /\ pc'[q] = pc[q] /\ op'[q] = op[q] /\ base'[q] = base[q]
                                  /\ view'[q] = view[q] /\ step'[q] = step[q]
         /\ UNCHANGED <<lock, journal, events, snapshot, topology, current, done, dispatches,
                mode, job>>
  BY DEF ReleaseLease, Forget, target, stateDir, TypeInv, TypeOK

\* An error ends the run, not while it waits for its role.
LEMMA AbortEffect ==
  ASSUME TypeInv, NEW p \in Proc, Abort(p)
  PROVE  /\ pc[p] \notin {"idle", "leasing", "exit", "waiting", "rewaiting"} /\ pc'[p] = "exit"
         /\ \A q \in Proc \ {p} : pc'[q] = pc[q]
         /\ UNCHANGED <<holder, lock, journal, events, snapshot, topology, current, done,
                dispatches, mode, op, base, view, step, job>>
  BY DEF Abort, Go, target, stateDir, procVars, UnderLease, Fault, TypeInv, TypeOK

\* The invocation is gone, and its role with it unless roles outlive their clients.
LEMMA CrashEffect ==
  ASSUME TypeInv, NEW p \in Proc, Crash(p)
  PROVE  /\ pc[p] \notin {"idle", "leasing"}
         /\ pc'[p] = "idle" /\ op'[p] = None /\ base'[p] = 0 /\ view'[p] = <<>> /\ step'[p] = 0
         /\ job'[p] = (IF JobsOutlive THEN job[p] ELSE NoJob)
         /\ \A q \in Proc \ {p} : /\ pc'[q] = pc[q] /\ op'[q] = op[q] /\ base'[q] = base[q]
                                  /\ view'[q] = view[q] /\ step'[q] = step[q] /\ job'[q] = job[q]
         /\ UNCHANGED <<holder, lock, journal, events, snapshot, topology, current, done,
                dispatches, mode>>
  BY DEF Crash, Forget, target, stateDir, UnderLease, Fault, TypeInv, TypeOK

\* An ordinary role does its step.
LEMMA RunRoleEffect ==
  ASSUME TypeInv, NEW p \in Proc, RunRole(p)
  PROVE  /\ job[p].at = "run" /\ job'[p].at = "ok"
         /\ done' = [done EXCEPT ![job[p].op] = @ \cup {job[p].step}]
         /\ job'[p].op = job[p].op /\ job'[p].step = job[p].step
         /\ \A q \in Proc \ {p} : job'[q] = job[q]
         /\ UNCHANGED <<holder, lock, journal, events, snapshot, topology, current, dispatches,
                pc, mode, op, base, view, step>>
  BY DEF RunRole, JobAdvances, target, procVars, TypeInv, TypeOK

\* The state role looks at its generation directory.
LEMMA StatSnapshotEffect ==
  ASSUME TypeInv, NEW p \in Proc, StatSnapshot(p)
  PROVE  /\ job[p].at = "stat"
         /\ \/ snapshot[GenerationOf(job[p].op)] = None /\ job'[p].at = "publish"
            \/ snapshot[GenerationOf(job[p].op)] = job[p].op /\ job'[p].at = "topology"
            \/ job'[p].at = "failed"
         /\ job'[p].op = job[p].op /\ job'[p].step = job[p].step
         /\ \A q \in Proc \ {p} : job'[q] = job[q]
         /\ UNCHANGED <<holder, lock, journal, events, snapshot, topology, current, done,
                dispatches, pc, mode, op, base, view, step>>
  BY DEF StatSnapshot, JobAdvances, target, stateDir, procVars, TypeInv, TypeOK

\* The state role publishes where nothing is.
LEMMA PublishSnapshotEffect ==
  ASSUME TypeInv, NEW p \in Proc, PublishSnapshot(p)
  PROVE  /\ job[p].at = "publish" /\ job'[p].at = "topology"
         /\ snapshot' = [snapshot EXCEPT ![GenerationOf(job[p].op)] =
                          IF @ = None THEN job[p].op ELSE @]
         /\ job'[p].op = job[p].op /\ job'[p].step = job[p].step
         /\ \A q \in Proc \ {p} : job'[q] = job[q]
         /\ UNCHANGED <<holder, lock, journal, events, topology, current, done, dispatches, pc,
                mode, op, base, view, step>>
  BY DEF PublishSnapshot, JobAdvances, target, procVars, TypeInv, TypeOK

\* The state role replaces topology.json.
LEMMA WriteTopologyEffect ==
  ASSUME TypeInv, NEW p \in Proc, WriteTopology(p)
  PROVE  /\ job[p].at = "topology" /\ job'[p].at = "current" /\ topology' = job[p].op
         /\ job'[p].op = job[p].op /\ job'[p].step = job[p].step
         /\ \A q \in Proc \ {p} : job'[q] = job[q]
         /\ UNCHANGED <<holder, lock, journal, events, snapshot, current, done, dispatches, pc,
                mode, op, base, view, step>>
  BY DEF WriteTopology, JobAdvances, target, procVars, TypeInv, TypeOK

\* The state role replaces current.json, and with that it is done.
LEMMA WriteCurrentEffect ==
  ASSUME TypeInv, NEW p \in Proc, WriteCurrent(p)
  PROVE  /\ job[p].at = "current" /\ job'[p].at = "ok" /\ current' = job[p].op
         /\ done' = [done EXCEPT ![job[p].op] = @ \cup {Commit}]
         /\ job'[p].op = job[p].op /\ job'[p].step = job[p].step
         /\ \A q \in Proc \ {p} : job'[q] = job[q]
         /\ UNCHANGED <<holder, lock, journal, events, snapshot, topology, dispatches, pc, mode,
                op, base, view, step>>
  BY DEF WriteCurrent, JobAdvances, target, procVars, TypeInv, TypeOK

\* A role fails and leaves the state directory as it was.
LEMMA FailRoleEffect ==
  ASSUME TypeInv, NEW p \in Proc, FailRole(p)
  PROVE  /\ JobRunning(p) /\ job'[p].at = "failed"
         /\ job'[p].op = job[p].op /\ job'[p].step = job[p].step
         /\ \A q \in Proc \ {p} : job'[q] = job[q]
         /\ UNCHANGED <<holder, lock, journal, events, snapshot, topology, current, done,
                dispatches, pc, mode, op, base, view, step>>
  BY DEF FailRole, JobAdvances, target, procVars, Fault, TypeInv, TypeOK
=============================================================================
