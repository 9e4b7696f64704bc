----------------------- MODULE ApplyExclusiveProofs -----------------------
(***************************************************************************)
(* Proofs about Apply when no client outstays its lease and no role        *)
(* outlives its client, for any number of invocations, steps, generations, *)
(* crashes and errors: lock.json covers every running role, and the state  *)
(* directory moves one generation at a time, its pointers always backed.   *)
(***************************************************************************)
EXTENDS ApplyStreamProofs

\* The generation of every operation, of Genesis and of no operation at all.
Gen == [o \in Op \cup {None} |-> GenerationOf(o)]

\* The operations whose commit is there and has become the current one.
Committed ==
  {o \in Proc : /\ Commit \in done[o]
                /\ Gen[o] \in Generation /\ snapshot[Gen[o]] = o
                /\ Gen[o] <= Gen[current]}

\* The operations with every step on record as a success.
Resolved ==
  {o \in Proc : Len(events[o]) >= 2 * Commit /\ events[o][2 * Commit].phase = "succeeded"}

\* The points of a run at which lock.json names its operation.
Locked == {"locked", "reading", "loop", "starting", "dispatch", "waiting", "succeeding",
           "failing", "failed", "recover", "pointers", "redispatch", "rewaiting", "reverify",
           "finishing", "unlock"}

\* Whoever runs under the lease holds it, waits for its own role, and works on
\* the operation that lock.json names.
OwnerInv(p) ==
  /\ UnderLease(p) => holder = p
  /\ JobRunning(p) => pc[p] \in {"waiting", "rewaiting"}
  /\ pc[p] \in Locked => lock = op[p]

\* A run past its recheck that has not come to the state role yet.
OnBaseline(p) ==
  \/ pc[p] \in {"loop", "starting", "dispatch"} /\ step[p] <= Commit
  \/ pc[p] \in {"waiting", "succeeding"} /\ step[p] < Commit

\* What an invocation knows of the generations.
GenerationInv(p) ==
  /\ mode[p] = "fresh" /\ pc[p] \in {"leasing", "leased"} => base[p] <= Gen[current]
  /\ pc[p] = "locked" => Gen[p] = base[p] + 1
  /\ pc[p] = "reading" => mode[p] = "resume"
  /\ mode[p] = "fresh" /\ OnBaseline(p) => Gen[op[p]] = Gen[current] + 1
  /\ pc[p] = "succeeding" /\ step[p] = Commit => op[p] \in Committed
  /\ pc[p] = "finishing" => op[p] \in Resolved

\* What the state role relies on between its tasks.
StateRoleInv(p) ==
  /\ job[p].at = "publish" => snapshot[Gen[job[p].op]] = None
  /\ job[p].at \in {"topology", "current"} => snapshot[Gen[job[p].op]] = job[p].op
  /\ job[p].at = "ok" /\ job[p].step = Commit => job[p].op \in Committed

ProcInv(p) == OwnerInv(p) /\ GenerationInv(p) /\ StateRoleInv(p)

\* The state directory: generations without a gap up to the current one, both
\* pointers backed, no operation more than one generation ahead, and the locked
\* one never behind once it published its snapshot.
StateDirInv ==
  /\ \A g \in 1..Gen[current] : snapshot[g] # None
  /\ topology # None => snapshot[Gen[topology]] = topology
  /\ current # None => snapshot[Gen[current]] = current
  /\ current \in Proc => Commit \in done[current]
  /\ \A o \in Proc : journal[o].status # "absent" => Gen[o] >= 1 /\ Gen[o] <= Gen[current] + 1
  /\ lock # None /\ snapshot[Gen[lock]] = lock => Gen[current] <= Gen[lock]
  /\ Resolved \subseteq Committed
  /\ \A o \in Proc : journal[o].status = "succeeded" => o \in Resolved

ExclusiveInv == (\A p \in Proc : ProcInv(p)) /\ StateDirInv
-----------------------------------------------------------------------------
(* Generations.                                                            *)

LEMMA GenTypes ==
  ASSUME TypeInv
  PROVE  /\ Gen \in [Op \cup {None} -> 0..MaxGeneration]
         /\ Gen[None] = 0 /\ Gen[Genesis] = 1
         /\ \A o \in Op \cup {None} : Gen[o] = GenerationOf(o) /\ Gen[o] \in Nat
         /\ \A o \in Proc : Gen[o] = journal[o].generation
<1>1. Gen \in [Op \cup {None} -> 0..MaxGeneration]
  BY GenerationOfType DEF Gen, TypeInv
<1>2. \A o \in Op \cup {None} : Gen[o] = GenerationOf(o) /\ Gen[o] \in Nat
  BY <1>1, ApplyAssumption DEF Gen
<1>3. GenerationOf(None) = 0 /\ GenerationOf(Genesis) = 1
  BY ApplyAssumption DEF GenerationOf
<1>4. \A o \in Proc : GenerationOf(o) = journal[o].generation
  BY ApplyAssumption DEF GenerationOf
<1> QED
  BY <1>1, <1>2, <1>3, <1>4 DEF Op

\* What these proofs use of the types.
LEMMA StateTypes ==
  ASSUME TypeInv
  PROVE  /\ NSteps \in Nat \ {0} /\ Step = 1..NSteps /\ Commit = NSteps
         /\ None \notin Proc /\ Genesis \notin Proc /\ None # Genesis
         /\ MaxGeneration \in Nat /\ Generation = 1..MaxGeneration /\ Op = Proc \cup {Genesis}
         /\ holder \in Proc \cup {None} /\ lock \in Proc \cup {None}
         /\ topology \in Op \cup {None} /\ current \in Op \cup {None}
         /\ snapshot \in [Generation -> Op \cup {None}]
         /\ base \in [Proc -> 0..(MaxGeneration - 1)]
         /\ step \in [Proc -> 0..(NSteps + 1)]
         /\ done \in [Proc -> SUBSET Step]
BY ApplyAssumption DEF TypeInv, TypeOK, Step, Commit, Generation, Op

\* The same after a step.
LEMMA GenNext == TypeInv' => (Gen[current] \in Nat)'
<1>1. TypeInv => Gen[current] \in Nat
  BY GenTypes, StateTypes
<1> QED
  BY <1>1, PTL

\* Only the creation of a journal gives a generation to an operation.
LEMMA GenStays ==
  ASSUME TypeInv, \A o \in Proc : journal'[o].generation = journal[o].generation
  PROVE  Gen' = Gen
<1>1. \A o \in Op \cup {None} : GenerationOf(o)' = GenerationOf(o)
  BY ApplyAssumption DEF GenerationOf, Op
<1> QED
  BY <1>1 DEF Gen

\* It gives one to that operation alone.
LEMMA GenOthers ==
  ASSUME TypeInv, NEW p \in Proc, \A o \in Proc \ {p} : journal'[o] = journal[o]
  PROVE  /\ \A o \in (Op \cup {None}) \ {p} : Gen'[o] = Gen[o]
         /\ Gen'[p] = journal'[p].generation
<1>1. \A o \in (Op \cup {None}) \ {p} : GenerationOf(o)' = GenerationOf(o)
  BY ApplyAssumption DEF GenerationOf, Op
<1>2. GenerationOf(p)' = journal'[p].generation
  BY ApplyAssumption DEF GenerationOf
<1> QED
  BY <1>1, <1>2 DEF Gen, Op

\* A step that leaves the shared files alone.
LEMMA SharedSame ==
  ASSUME TypeInv, UNCHANGED <<lock, journal, events, snapshot, topology, current, done>>
  PROVE  /\ Gen' = Gen /\ Committed' = Committed /\ Resolved' = Resolved
         /\ StateDirInv => StateDirInv'
<1>1. Gen' = Gen
  BY GenStays
<1>2. Committed' = Committed /\ Resolved' = Resolved
  BY <1>1 DEF Committed, Resolved
<1>3. StateDirInv => StateDirInv'
  BY <1>1, <1>2 DEF StateDirInv
<1> QED
  BY <1>1, <1>2, <1>3

\* An operation without a journal has left nothing anywhere.
LEMMA NoTrace ==
  ASSUME TypeInv, StreamInv, NEW o \in Proc, journal[o].status = "absent"
  PROVE  /\ topology # o /\ current # o /\ o \notin Resolved
         /\ \A g \in Generation : snapshot[g] # o
<1>1. Len(events[o]) = 0
  BY DEF StreamInv, FilesInv
<1>2. ~Opened(o, Commit) /\ o \notin Resolved
  BY <1>1, StateTypes DEF Opened, Resolved
<1> QED
  BY <1>2 DEF StreamInv, FilesInv

\* So every operation that the state directory names has a generation.
LEMMA NamedGeneration ==
  ASSUME TypeInv, StreamInv, StateDirInv,
         NEW o \in Op, topology = o \/ current = o \/ \E g \in Generation : snapshot[g] = o
  PROVE  Gen[o] \in Generation
<1>1. CASE o = Genesis
  BY <1>1, GenTypes, StateTypes, ApplyAssumption
<1>2. CASE o \in Proc
  <2>1. journal[o].status # "absent"
    BY <1>2, NoTrace
  <2> QED
    BY <1>2, <2>1, GenTypes, StateTypes DEF StateDirInv
<1> QED
  BY <1>1, <1>2 DEF Op

\* An operation never has more than two events for a step.
LEMMA StreamBound ==
  ASSUME TypeInv, FilesInv, NEW o \in Proc
  PROVE  Len(events[o]) \in Nat /\ Len(events[o]) <= 2 * Commit
<1>1. events[o] \in Seq(Event)
  BY DEF TypeInv, TypeOK
<1>2. events[o] \in Stream /\ Dispatched(events[o])
  BY StreamTypes DEF FilesInv
<1>3. Len(events[o]) \in Nat /\ DOMAIN events[o] = 1..Len(events[o])
  BY <1>2, StreamFacts
<1>4. \A i \in DOMAIN events[o] : events[o][i] \in Event
  BY <1>1, SeqPositions
<1>5. ASSUME Len(events[o]) > 2 * Commit PROVE FALSE
  <2> DEFINE i == 2 * Commit + 1
  <2>1. i \in DOMAIN events[o] /\ Commit \in Nat
    BY <1>3, <1>5, StateTypes
  <2>2. events[o][i].step \in 1..Commit
    BY <1>4, <2>1, StateTypes DEF Event
  <2>3. i = 2 * events[o][i].step - 1 \/ i = 2 * events[o][i].step
    BY <1>2, <2>1, PlaceOfEvent
  <2> HIDE DEF i
  <2>4. i = 2 * Commit + 1
    BY DEF i
  <2> QED
    BY <2>1, <2>2, <2>3, <2>4
<1> QED
  BY <1>3, <1>5, StateTypes

\* Every step of a resolved operation is on record as a success.
LEMMA ResolvedSteps ==
  ASSUME TypeInv, FilesInv, NEW o \in Resolved, NEW s \in Step
  PROVE  Len(events[o]) >= 2 * s /\ events[o][2 * s].phase = "succeeded"
<1>1. /\ o \in Proc /\ Len(events[o]) \in Nat /\ Len(events[o]) >= 2 * Commit
      /\ events[o][2 * Commit].phase = "succeeded"
  BY StreamBound DEF Resolved
<1>2. s \in Nat \ {0} /\ s <= Commit /\ Commit \in Nat
  BY StateTypes
<1>3. CASE s = Commit
  BY <1>1, <1>3
<1>4. CASE s # Commit
  <2>1. events[o] \in Stream /\ Dispatched(events[o])
    BY <1>1, StreamTypes DEF FilesInv
  <2>2. DOMAIN events[o] = 1..Len(events[o])
    BY <2>1, StreamFacts
  <2>3. 2 * s < Len(events[o]) /\ 2 * s \in DOMAIN events[o]
    BY <1>1, <1>2, <1>4, <2>2
  <2>4. /\ events[o][2 * s].step \in Nat
        /\ \/ 2 * s = 2 * events[o][2 * s].step - 1
           \/ events[o][2 * s].phase = "succeeded"
           \/ 2 * s = Len(events[o])
    BY <2>1, <2>3, PlaceOfEvent
  <2> QED
    BY <1>1, <1>2, <2>3, <2>4
<1> QED
  BY <1>3, <1>4

\* An event resolves its operation if it is the last one of a successful run.
LEMMA ResolvedAppend ==
  ASSUME TypeInv, NEW o \in Proc, NEW s \in Step, NEW ph \in Phase, AppendEvent(o, s, ph),
         Len(events[o]) < 2 * Commit
  PROVE  Resolved' = IF Len(events[o]) + 1 = 2 * Commit /\ ph = "succeeded"
                     THEN Resolved \cup {o} ELSE Resolved
<1>1. /\ Len(events'[o]) = Len(events[o]) + 1
      /\ events'[o][Len(events[o]) + 1].phase = ph
      /\ \A q \in Proc \ {o} : events'[q] = events[q]
  BY AppendGrows
<1>2. Len(events[o]) \in Nat /\ Commit \in Nat
  BY StreamTypes
<1>3. o \notin Resolved
  BY <1>2 DEF Resolved
<1>4. \A q \in Proc \ {o} : q \in Resolved' <=> q \in Resolved
  BY <1>1 DEF Resolved
<1>5. o \in Resolved' <=> Len(events[o]) + 1 = 2 * Commit /\ ph = "succeeded"
  BY <1>1, <1>2 DEF Resolved
<1>6. Resolved \subseteq Proc /\ Resolved' \subseteq Proc
  BY DEF Resolved
<1>7. CASE Len(events[o]) + 1 = 2 * Commit /\ ph = "succeeded"
  <2>1. Resolved' = Resolved \cup {o}
    BY <1>4, <1>5, <1>6, <1>7
  <2> QED
    BY <1>7, <2>1
<1>8. CASE ~(Len(events[o]) + 1 = 2 * Commit /\ ph = "succeeded")
  <2>0. \A q \in Proc : q \in Resolved' <=> q \in Resolved
    BY <1>3, <1>4, <1>5, <1>8
  <2>1. Resolved' = Resolved
    BY <1>6, <2>0
  <2> QED
    BY <1>8, <2>1
<1> QED
  BY <1>7, <1>8

\* The operation that current.json names is committed.
LEMMA CurrentCommitted ==
  ASSUME TypeInv, StreamInv, StateDirInv, current \in Proc
  PROVE  current \in Committed
<1>1. Gen[current] \in Generation
  BY NamedGeneration DEF Op
<1>2. Gen[current] \in Nat /\ current # None
  BY GenTypes, StateTypes
<1> QED
  BY <1>1, <1>2 DEF StateDirInv, Committed

\* A commit is never undone: what can happen to the files it is made of.
LEMMA CommittedStays ==
  ASSUME TypeInv, TypeInv', \A o \in Committed : Gen'[o] = Gen[o],
         \A g \in Generation : snapshot[g] # None => snapshot'[g] = snapshot[g],
         \A o \in Proc : done[o] \subseteq done'[o], Gen[current] <= Gen'[current']
  PROVE  Committed \subseteq Committed'
<1> SUFFICES ASSUME NEW o \in Committed PROVE o \in Committed'
  OBVIOUS
<1>1. /\ o \in Proc /\ Commit \in done[o] /\ Gen[o] \in Generation
      /\ snapshot[Gen[o]] = o /\ Gen[o] <= Gen[current]
  BY DEF Committed
<1>2. Gen'[o] = Gen[o] /\ snapshot'[Gen[o]] = o /\ Commit \in done'[o]
  BY <1>1, StateTypes
<1>3. Gen[o] \in Nat /\ Gen[current] \in Nat /\ Gen'[current'] \in Nat
  BY <1>1, GenTypes, GenNext, StateTypes
<1> QED
  BY <1>1, <1>2, <1>3 DEF Committed

-----------------------------------------------------------------------------
(* Invocations that take no part in a step.                                *)

\* What q remembers is its own.
Local(q) ==
  /\ mode'[q] = mode[q] /\ pc'[q] = pc[q] /\ op'[q] = op[q] /\ base'[q] = base[q]
  /\ step'[q] = step[q] /\ job'[q] = job[q]

\* Nothing shared changes: what anybody knows stays true.
LEMMA Unmoved ==
  ASSUME TypeInv, NEW q \in Proc, ProcInv(q), Local(q), UnderLease(q) => holder' = q,
         UNCHANGED <<lock, journal, events, snapshot, topology, current, done>>
  PROVE  ProcInv(q)'
<1>1. Gen' = Gen /\ Committed' = Committed /\ Resolved' = Resolved
  BY SharedSame
<1>2. (UnderLease(q)' <=> UnderLease(q)) /\ (JobRunning(q)' <=> JobRunning(q))
      /\ (OnBaseline(q)' <=> OnBaseline(q))
  BY DEF Local, UnderLease, JobRunning, OnBaseline
<1>3. OwnerInv(q)'
  BY <1>2 DEF ProcInv, OwnerInv, Local
<1>4. GenerationInv(q)'
  BY <1>1, <1>2 DEF ProcInv, GenerationInv, Local
<1>5. StateRoleInv(q)'
  BY <1>1 DEF ProcInv, StateRoleInv, Local
<1> QED
  BY <1>3, <1>4, <1>5 DEF ProcInv

\* Somebody else holds the lease: q is not under way, and commits only grow.
LEMMA Bystander ==
  ASSUME TypeInv, TypeInv', NEW q \in Proc, ProcInv(q), ~UnderLease(q), Local(q),
         Gen[current] <= Gen'[current'], Committed \subseteq Committed'
  PROVE  ProcInv(q)'
<1>1. pc[q] \in {"idle", "leasing"} /\ pc'[q] \in {"idle", "leasing"} /\ ~JobRunning(q)
      /\ job[q].at \notin {"publish", "topology", "current"}
  BY DEF ProcInv, OwnerInv, UnderLease, Local, JobRunning
<1>2. OwnerInv(q)'
  BY <1>1 DEF OwnerInv, UnderLease, Local, JobRunning, Locked
<1>3. GenerationInv(q)'
  <2>1. base[q] \in Nat /\ Gen[current] \in Nat /\ Gen'[current'] \in Nat
    BY GenTypes, GenNext, StateTypes
  <2> QED
    BY <1>1, <2>1 DEF ProcInv, GenerationInv, Local, OnBaseline
<1>4. StateRoleInv(q)'
  BY <1>1 DEF ProcInv, StateRoleInv, Local
<1> QED
  BY <1>2, <1>3, <1>4 DEF ProcInv

\* The first installation, or none: nothing runs yet.
LEMMA InitExclusive == Init => ExclusiveInv
<1> SUFFICES ASSUME Init PROVE ExclusiveInv
  OBVIOUS
<1>0. TypeInv
  BY InitTypeInv
<1>1. \A p \in Proc : /\ pc[p] = "idle" /\ job[p].at = "none" /\ events[p] = <<>>
                      /\ journal[p].status = "absent"
  BY DEF Init, NoJob, NoJournal
<1>2. \A p \in Proc : ProcInv(p)
  BY <1>1
  DEF ProcInv, OwnerInv, GenerationInv, StateRoleInv, UnderLease, JobRunning, Locked, OnBaseline
<1>3. Resolved = {}
  <2>1. \A o \in Proc : Len(events[o]) = 0
    BY <1>1
  <2> QED
    BY <1>0, <2>1, StateTypes DEF Resolved
<1>4. StateDirInv
  <2>1. lock = None /\ Gen[None] = 0 /\ Gen[Genesis] = 1 /\ 1 \in Generation
    BY <1>0, GenTypes, StateTypes, ApplyAssumption DEF Init
  <2>2. CASE topology = None /\ current = None
    BY <1>1, <1>3, <2>1, <2>2, StateTypes, <1>0 DEF StateDirInv
  <2>3. CASE topology = Genesis /\ current = Genesis /\ snapshot[1] = Genesis
    BY <1>1, <1>3, <2>1, <2>3, StateTypes, <1>0 DEF StateDirInv
  <2> QED
    BY <2>1, <2>2, <2>3 DEF Init
<1> QED
  BY <1>2, <1>4 DEF ExclusiveInv

-----------------------------------------------------------------------------
\* Every action keeps it, as long as no lease expires under a live client and no
\* role survives its client.
LEMMA ExclusiveStep ==
  ASSUME ~CanStall, ~JobsOutlive
  PROVE  TypeInv /\ StreamInv /\ ExclusiveInv /\ [Next]_vars => ExclusiveInv'
<1> SUFFICES ASSUME TypeInv, StreamInv, ExclusiveInv, [Next]_vars PROVE ExclusiveInv'
  OBVIOUS
<1>ty. TypeInv'
  BY TypeStep
<1>inv. (\A q \in Proc : ProcInv(q)) /\ StateDirInv
  BY DEF ExclusiveInv
<1>run. /\ \A q \in Proc : RunInv(q) /\ LeaseInv(q) /\ JobInv(q)
        /\ FilesInv
  BY DEF StreamInv
<1>none. /\ None \notin Proc /\ holder \in Proc \cup {None} /\ lock \in Proc \cup {None}
         /\ Proc \subseteq Op /\ current \in Op \cup {None} /\ topology \in Op \cup {None}
  BY StateTypes
<1>gen. \A o \in Op \cup {None} : Gen[o] = GenerationOf(o) /\ Gen[o] \in Nat
  BY GenTypes
<1>sets. /\ NSteps \in Nat \ {0} /\ Step = 1..NSteps /\ Commit = NSteps
         /\ \A q \in Proc : step[q] \in Nat /\ base[q] \in Nat
  BY StateTypes
<1>op. \A q \in Proc :
         /\ pc[q] \notin {"idle", "leasing", "leased", "exit"} => op[q] \in Proc
         /\ pc[q] \in InStep \/ pc[q] = "starting" => step[q] \in Step
  BY DEF TypeInv, ControlInv, InStep
<1>0. CASE ExpireLease
  <2>1. /\ UNCHANGED <<lock, journal, events, snapshot, topology, current, done>>
        /\ \A q \in Proc : Local(q)
    BY <1>0 DEF ExpireLease, target, stateDir, procVars, Local
  <2>2. \A q \in Proc : UnderLease(q) => holder' = q
    BY <1>0, <1>inv DEF ExpireLease, ProcInv, OwnerInv, UnderLease
  <2> QED
    BY <1>inv, <2>1, <2>2, Unmoved, SharedSame DEF ExclusiveInv
<1>1. ASSUME NEW p \in Proc, StartFresh(p) PROVE ExclusiveInv'
  <2>1. /\ UNCHANGED <<lock, journal, events, snapshot, topology, current, done>>
        /\ \A q \in Proc \ {p} : Local(q)
    BY <1>1, StartFreshEffect DEF Local
  <2>2. \A q \in Proc \ {p} : UnderLease(q) => holder' = q
    BY <1>1, <1>inv, StartFreshEffect DEF ProcInv, OwnerInv
  <2>3. Gen' = Gen /\ Committed' = Committed /\ Resolved' = Resolved /\ StateDirInv'
    BY <1>inv, <2>1, SharedSame
  <2>4. OwnerInv(p)'
    BY <1>1, <1>inv, StartFreshEffect DEF ProcInv, OwnerInv, UnderLease, JobRunning, Locked
  <2>5. GenerationInv(p)'
    <3>1. base'[p] = Gen[current] /\ Gen[current] \in Nat
      BY <1>1, <1>none, <1>gen, StartFreshEffect
    <3> QED
      BY <1>1, <2>1, <2>3, <3>1, StartFreshEffect DEF GenerationInv, OnBaseline
  <2>6. StateRoleInv(p)'
    BY <1>1, <1>inv, <2>3, StartFreshEffect DEF ProcInv, StateRoleInv
  <2> QED
    BY <1>inv, <2>1, <2>2, <2>3, <2>4, <2>5, <2>6, Unmoved DEF ExclusiveInv, ProcInv
<1>2. ASSUME NEW p \in Proc, StartResume(p) PROVE ExclusiveInv'
  <2>1. /\ UNCHANGED <<lock, journal, events, snapshot, topology, current, done>>
        /\ \A q \in Proc \ {p} : Local(q)
    BY <1>2, StartResumeEffect DEF Local
  <2>2. \A q \in Proc \ {p} : UnderLease(q) => holder' = q
    BY <1>2, <1>inv, StartResumeEffect DEF ProcInv, OwnerInv
  <2>3. Gen' = Gen /\ Committed' = Committed /\ Resolved' = Resolved /\ StateDirInv'
    BY <1>inv, <2>1, SharedSame
  <2>4. OwnerInv(p)'
    BY <1>2, <1>inv, StartResumeEffect DEF ProcInv, OwnerInv, UnderLease, JobRunning, Locked
  <2>5. GenerationInv(p)'
    BY <1>2, <1>inv, <2>3, StartResumeEffect DEF ProcInv, GenerationInv, OnBaseline
  <2>6. StateRoleInv(p)'
    BY <1>2, <1>inv, <2>3, StartResumeEffect DEF ProcInv, StateRoleInv
  <2> QED
    BY <1>inv, <2>1, <2>2, <2>3, <2>4, <2>5, <2>6, Unmoved DEF ExclusiveInv, ProcInv
<1>3. ASSUME NEW p \in Proc, AcquireLease(p) PROVE ExclusiveInv'
  <2>1. /\ UNCHANGED <<lock, journal, events, snapshot, topology, current, done>>
        /\ \A q \in Proc \ {p} : Local(q)
    BY <1>3, AcquireLeaseEffect DEF Local
  <2>2. \A q \in Proc \ {p} : UnderLease(q) => holder' = q
    BY <1>3, <1>inv, <1>none, AcquireLeaseEffect DEF ProcInv, OwnerInv
  <2>3. Gen' = Gen /\ Committed' = Committed /\ Resolved' = Resolved /\ StateDirInv'
    BY <1>inv, <2>1, SharedSame
  <2>4. OwnerInv(p)'
    BY <1>3, <1>inv, AcquireLeaseEffect DEF ProcInv, OwnerInv, UnderLease, JobRunning, Locked
  <2>5. GenerationInv(p)'
    BY <1>3, <1>inv, <2>3, AcquireLeaseEffect DEF ProcInv, GenerationInv, OnBaseline
  <2>6. StateRoleInv(p)'
    BY <1>3, <1>inv, <2>3, AcquireLeaseEffect DEF ProcInv, StateRoleInv
  <2> QED
    BY <1>inv, <2>1, <2>2, <2>3, <2>4, <2>5, <2>6, Unmoved DEF ExclusiveInv, ProcInv
<1>4. ASSUME NEW p \in Proc, LeaseBusy(p) PROVE ExclusiveInv'
  <2>1. /\ UNCHANGED <<lock, journal, events, snapshot, topology, current, done>>
        /\ \A q \in Proc \ {p} : Local(q)
    BY <1>4, LeaseBusyEffect DEF Local
  <2>2. \A q \in Proc \ {p} : UnderLease(q) => holder' = q
    BY <1>4, <1>inv, LeaseBusyEffect DEF ProcInv, OwnerInv
  <2>3. Gen' = Gen /\ Committed' = Committed /\ Resolved' = Resolved /\ StateDirInv'
    BY <1>inv, <2>1, SharedSame
  <2>4. OwnerInv(p)'
    BY <1>4, <1>inv, LeaseBusyEffect DEF ProcInv, OwnerInv, UnderLease, JobRunning, Locked
  <2>5. GenerationInv(p)'
    BY <1>4, <1>inv, <2>3, LeaseBusyEffect DEF ProcInv, GenerationInv, OnBaseline
  <2>6. StateRoleInv(p)'
    BY <1>4, <1>inv, <2>3, LeaseBusyEffect DEF ProcInv, StateRoleInv
  <2> QED
    BY <1>inv, <2>1, <2>2, <2>3, <2>4, <2>5, <2>6, Unmoved DEF ExclusiveInv, ProcInv
<1>5. ASSUME NEW p \in Proc, NoticeLoss(p) PROVE ExclusiveInv'
  <2>1. /\ UNCHANGED <<lock, journal, events, snapshot, topology, current, done>>
        /\ \A q \in Proc \ {p} : Local(q)
    BY <1>5, NoticeLossEffect DEF Local
  <2>2. \A q \in Proc \ {p} : UnderLease(q) => holder' = q
    BY <1>5, <1>inv, NoticeLossEffect DEF ProcInv, OwnerInv
  <2>3. Gen' = Gen /\ Committed' = Committed /\ Resolved' = Resolved /\ StateDirInv'
    BY <1>inv, <2>1, SharedSame
  <2>4. OwnerInv(p)'
    BY <1>5, <1>inv, NoticeLossEffect DEF ProcInv, OwnerInv, UnderLease, JobRunning, Locked
  <2>5. GenerationInv(p)'
    BY <1>5, <1>inv, <2>3, NoticeLossEffect DEF ProcInv, GenerationInv, OnBaseline
  <2>6. StateRoleInv(p)'
    BY <1>5, <1>inv, <2>3, NoticeLossEffect DEF ProcInv, StateRoleInv
  <2> QED
    BY <1>inv, <2>1, <2>2, <2>3, <2>4, <2>5, <2>6, Unmoved DEF ExclusiveInv, ProcInv
<1>6. ASSUME NEW p \in Proc, CreateLockAndJournal(p) PROVE ExclusiveInv'
  <2>1. holder = p /\ \A q \in Proc \ {p} : ~UnderLease(q) /\ Local(q)
    BY <1>6, <1>inv, CreateLockAndJournalEffect DEF ProcInv, OwnerInv, UnderLease, Local
  <2>2. /\ topology # p /\ current # p /\ p \notin Resolved
        /\ \A g \in Generation : snapshot[g] # p
        /\ journal[p].status = "absent"
    BY <1>6, <1>run, CreateLockAndJournalEffect, NoTrace DEF RunInv
  <2>0. /\ \A o \in (Op \cup {None}) \ {p} : Gen'[o] = Gen[o]
        /\ Gen'[p] = journal'[p].generation /\ Gen[p] = journal[p].generation
    BY <1>6, CreateLockAndJournalEffect, GenOthers, GenTypes
  <2>3. /\ Gen'[current'] = Gen[current] /\ Gen[current] <= Gen'[current']
        /\ Committed' = Committed /\ Committed \subseteq Committed'
        /\ Resolved' = Resolved
    <3>1. UNCHANGED <<events, snapshot, topology, current, done>>
      BY <1>6, CreateLockAndJournalEffect
    <3>2. Gen'[current'] = Gen[current] /\ Gen[current] <= Gen'[current']
      BY <1>none, <1>gen, <2>0, <2>2, <3>1
    <3>3. p \notin Committed /\ p \notin Committed'
      BY <2>2, <3>1 DEF Committed
    <3>4. \A o \in Proc \ {p} : o \in Committed' <=> o \in Committed
      BY <1>none, <2>0, <3>1, <3>2 DEF Committed
    <3>5. Committed \subseteq Proc /\ Committed' \subseteq Proc
      BY DEF Committed
    <3> QED
      BY <3>1, <3>2, <3>3, <3>4, <3>5 DEF Resolved
  <2>4. \A q \in Proc \ {p} : ProcInv(q)'
    BY <1>ty, <1>inv, <2>1, <2>3, Bystander
  <2>5. base[p] <= Gen[current] /\ base[p] + 1 \in Generation
    <3>1. /\ base[p] \in 0..(MaxGeneration - 1) /\ Generation = 1..MaxGeneration
          /\ MaxGeneration \in Nat
      BY StateTypes
    <3>2. base[p] <= Gen[current]
      BY <1>6, <1>inv, CreateLockAndJournalEffect DEF ProcInv, GenerationInv
    <3> QED
      BY <3>1, <3>2
  <2>6. StateDirInv'
    <3>1. UNCHANGED <<events, snapshot, topology, current, done>>
      BY <1>6, CreateLockAndJournalEffect
    <3>2. /\ \A g \in 1..Gen'[current'] : snapshot'[g] # None
          /\ topology' # None => snapshot'[Gen'[topology']] = topology'
          /\ current' # None => snapshot'[Gen'[current']] = current'
          /\ current' \in Proc => Commit \in done'[current']
      BY <1>inv, <1>none, <2>0, <2>2, <2>3, <3>1 DEF StateDirInv
    <3>3. \A o \in Proc : journal'[o].status # "absent" =>
            Gen'[o] >= 1 /\ Gen'[o] <= Gen'[current'] + 1
      <4>1. ASSUME NEW o \in Proc \ {p} 
            PROVE  journal'[o].status # "absent" =>
                     Gen'[o] >= 1 /\ Gen'[o] <= Gen'[current'] + 1
        BY <1>6, <1>inv, <1>none, <2>0, <2>3, CreateLockAndJournalEffect DEF StateDirInv
      <4>2. journal'[p].status # "absent" => Gen'[p] = base[p] + 1
        BY <1>6, <2>0, <2>2, CreateLockAndJournalEffect
      <4>3. journal'[p].status # "absent" =>
              Gen'[p] >= 1 /\ Gen'[p] <= Gen'[current'] + 1
        BY <1>none, <1>gen, <1>sets, <2>3, <2>5, <4>2
      <4> QED
        BY <4>1, <4>3
    <3>4. lock' # None /\ snapshot'[Gen'[lock']] = lock' => Gen'[current'] <= Gen'[lock']
      <4>1. CASE lock' = p
          <5>1. (journal'[p] = journal[p] /\ lock' = lock) \/ Gen'[p] = base[p] + 1
          BY <1>6, <2>0, CreateLockAndJournalEffect
        <5> QED
          BY <1>inv, <2>0, <2>2, <2>3, <2>5, <3>1, <4>1, <5>1 DEF StateDirInv
      <4>2. CASE lock' # p
        BY <1>6, <1>inv, <1>none, <2>0, <2>3, <3>1, <4>2, CreateLockAndJournalEffect
        DEF StateDirInv
      <4> QED
        BY <4>1, <4>2
    <3>5. \A o \in Proc : journal'[o].status = "succeeded" => o \in Resolved'
      BY <1>6, <1>inv, <2>2, <2>3, CreateLockAndJournalEffect DEF StateDirInv
    <3> QED
      BY <1>inv, <2>3, <3>2, <3>3, <3>4, <3>5 DEF StateDirInv
  <2>7. OwnerInv(p)'
    BY <1>6, <1>inv, <2>1, CreateLockAndJournalEffect
    DEF ProcInv, OwnerInv, UnderLease, JobRunning, Locked
  <2>8. GenerationInv(p)'
    BY <1>6, <2>0, CreateLockAndJournalEffect DEF GenerationInv, OnBaseline
  <2>9. StateRoleInv(p)'
    <3>1. job[p].at \notin {"publish", "topology", "current"} /\ job' = job
      BY <1>6, <1>inv, CreateLockAndJournalEffect DEF ProcInv, OwnerInv, JobRunning
    <3> QED
      BY <1>inv, <2>3, <3>1 DEF ProcInv, StateRoleInv
  <2> QED
    BY <2>4, <2>6, <2>7, <2>8, <2>9 DEF ExclusiveInv, ProcInv
<1>7. ASSUME NEW p \in Proc, Recheck(p) PROVE ExclusiveInv'
  <2>1. /\ UNCHANGED <<lock, journal, events, snapshot, topology, current, done>>
        /\ \A q \in Proc \ {p} : Local(q)
    BY <1>7, RecheckEffect DEF Local
  <2>2. \A q \in Proc \ {p} : UnderLease(q) => holder' = q
    BY <1>7, <1>inv, RecheckEffect DEF ProcInv, OwnerInv
  <2>3. Gen' = Gen /\ Committed' = Committed /\ Resolved' = Resolved /\ StateDirInv'
    BY <1>inv, <2>1, SharedSame
  <2>4. OwnerInv(p)'
    BY <1>7, <1>inv, RecheckEffect DEF ProcInv, OwnerInv, UnderLease, JobRunning, Locked
  <2>5. GenerationInv(p)'
    <3>1. op[p] = p /\ Gen[p] = base[p] + 1
      BY <1>7, <1>inv, <1>run, RecheckEffect DEF ProcInv, GenerationInv, RunInv
    <3>2. LivePlanMatches(p) => Gen[current] = base[p]
      BY <1>none, <1>gen DEF LivePlanMatches
    <3> QED
      BY <1>7, <2>1, <2>3, <3>1, <3>2, RecheckEffect DEF GenerationInv, OnBaseline
  <2>6. StateRoleInv(p)'
    BY <1>7, <1>inv, <2>3, RecheckEffect DEF ProcInv, StateRoleInv
  <2> QED
    BY <1>inv, <2>1, <2>2, <2>3, <2>4, <2>5, <2>6, Unmoved DEF ExclusiveInv, ProcInv
<1>8. ASSUME NEW p \in Proc, ReadLock(p) PROVE ExclusiveInv'
  <2>1. /\ UNCHANGED <<lock, journal, events, snapshot, topology, current, done>>
        /\ \A q \in Proc \ {p} : Local(q)
    BY <1>8, ReadLockEffect DEF Local
  <2>2. \A q \in Proc \ {p} : UnderLease(q) => holder' = q
    BY <1>8, <1>inv, ReadLockEffect DEF ProcInv, OwnerInv
  <2>3. Gen' = Gen /\ Committed' = Committed /\ Resolved' = Resolved /\ StateDirInv'
    BY <1>inv, <2>1, SharedSame
  <2>4. OwnerInv(p)'
    BY <1>8, <1>inv, ReadLockEffect DEF ProcInv, OwnerInv, UnderLease, JobRunning, Locked
  <2>5. GenerationInv(p)'
    BY <1>8, <1>inv, <2>3, ReadLockEffect DEF ProcInv, GenerationInv, OnBaseline
  <2>6. StateRoleInv(p)'
    BY <1>8, <1>inv, <2>3, ReadLockEffect DEF ProcInv, StateRoleInv
  <2> QED
    BY <1>inv, <2>1, <2>2, <2>3, <2>4, <2>5, <2>6, Unmoved DEF ExclusiveInv, ProcInv
<1>9. ASSUME NEW p \in Proc, ReadOperation(p) PROVE ExclusiveInv'
  <2>1. /\ UNCHANGED <<lock, journal, events, snapshot, topology, current, done>>
        /\ \A q \in Proc \ {p} : Local(q)
    BY <1>9, ReadOperationEffect DEF Local
  <2>2. \A q \in Proc \ {p} : UnderLease(q) => holder' = q
    BY <1>9, <1>inv, ReadOperationEffect DEF ProcInv, OwnerInv
  <2>3. Gen' = Gen /\ Committed' = Committed /\ Resolved' = Resolved /\ StateDirInv'
    BY <1>inv, <2>1, SharedSame
  <2>4. OwnerInv(p)'
    BY <1>9, <1>inv, ReadOperationEffect DEF ProcInv, OwnerInv, UnderLease, JobRunning, Locked
  <2>5. GenerationInv(p)'
    BY <1>9, <1>inv, <2>3, ReadOperationEffect DEF ProcInv, GenerationInv, OnBaseline
  <2>6. StateRoleInv(p)'
    BY <1>9, <1>inv, <2>3, ReadOperationEffect DEF ProcInv, StateRoleInv
  <2> QED
    BY <1>inv, <2>1, <2>2, <2>3, <2>4, <2>5, <2>6, Unmoved DEF ExclusiveInv, ProcInv
<1>10. ASSUME NEW p \in Proc, Decide(p) PROVE ExclusiveInv'
  <2>1. /\ UNCHANGED <<lock, journal, events, snapshot, topology, current, done>>
        /\ \A q \in Proc \ {p} : Local(q)
    BY <1>10, DecideEffect DEF Local
  <2>2. \A q \in Proc \ {p} : UnderLease(q) => holder' = q
    BY <1>10, <1>inv, DecideEffect DEF ProcInv, OwnerInv
  <2>3. Gen' = Gen /\ Committed' = Committed /\ Resolved' = Resolved /\ StateDirInv'
    BY <1>inv, <2>1, SharedSame
  <2>4. OwnerInv(p)'
    BY <1>10, <1>inv, DecideEffect DEF ProcInv, OwnerInv, UnderLease, JobRunning, Locked
  <2>5. GenerationInv(p)'
    <3>1. ASSUME step[p] > NSteps PROVE op[p] \in Resolved
      <4>1. /\ pc[p] = "loop" /\ holder = p /\ op[p] \in Proc
        BY <1>10, <1>inv, <1>op, DecideEffect DEF ProcInv, OwnerInv, UnderLease
      <4>2. step[p] = Commit + 1
        BY <1>sets, <3>1, StateTypes
      <4>3. Len(events[op[p]]) \in Nat /\ Len(events[op[p]]) <= 2 * Commit
        BY <1>run, <4>1, StreamBound
      <4>4. ~(Len(view[p]) >= 2 * step[p] - 1 /\ events[op[p]] = view[p])
        BY <1>sets, <4>2, <4>3
      <4>5. ReachedStep(op[p], step[p])
        BY <1>run, <4>1, <4>4 DEF LeaseInv
      <4>6. 2 * step[p] - 2 = 2 * Commit /\ step[p] > 1
        BY <1>sets, <4>2
      <4> QED
        BY <4>1, <4>3, <4>5, <4>6 DEF ReachedStep, Resolved
    <3>2. OnBaseline(p)' => OnBaseline(p)
      BY <1>10, <1>sets, DecideEffect DEF OnBaseline
    <3> QED
      BY <1>10, <1>inv, <2>1, <2>3, <3>1, <3>2, DecideEffect DEF ProcInv, GenerationInv
  <2>6. StateRoleInv(p)'
    BY <1>10, <1>inv, <2>3, DecideEffect DEF ProcInv, StateRoleInv
  <2> QED
    BY <1>inv, <2>1, <2>2, <2>3, <2>4, <2>5, <2>6, Unmoved DEF ExclusiveInv, ProcInv
<1>11. ASSUME NEW p \in Proc, AppendStarted(p) PROVE ExclusiveInv'
  <2>1. holder = p /\ \A q \in Proc \ {p} : ~UnderLease(q) /\ Local(q)
    BY <1>11, <1>inv, AppendStartedEffect DEF ProcInv, OwnerInv, UnderLease, JobRunning, Local
  <2>2. UNCHANGED <<lock, journal, snapshot, topology, current, done>>
    BY <1>11, AppendStartedEffect
  <2>3. /\ Gen' = Gen /\ Gen[current] <= Gen'[current']
        /\ Committed' = Committed /\ Committed \subseteq Committed'
    <3>1. Gen' = Gen
      BY <2>2, GenStays
    <3> QED
      BY <1>none, <1>gen, <2>2, <3>1 DEF Committed
  <2>4. \A q \in Proc \ {p} : ProcInv(q)'
    BY <1>ty, <1>inv, <2>1, <2>3, Bystander
  <2>5. Resolved' = Resolved
    <3>1. CASE UNCHANGED events
      BY <3>1 DEF Resolved
    <3>2. CASE AppendEvent(op[p], step[p], "started")
      <4>1. op[p] \in Proc /\ step[p] \in Step
        BY <1>11, <1>op, AppendStartedEffect DEF InStep
      <4>2. Len(events[op[p]]) = 2 * step[p] - 2
        BY <1>11, <1>run, <2>1, AppendStartedEffect DEF LeaseInv, InStep, ReachedStep
      <4>3. Len(events[op[p]]) < 2 * Commit
        BY <1>sets, <4>1, <4>2
      <4>4. Resolved' = IF Len(events[op[p]]) + 1 = 2 * Commit /\ "started" = "succeeded"
                        THEN Resolved \cup {op[p]} ELSE Resolved
        BY <3>2, <4>1, <4>3, ResolvedAppend DEF Phase
      <4> QED
        BY <4>4
    <3> QED
      BY <1>11, <3>1, <3>2, AppendStartedEffect
  <2>6. StateDirInv'
    BY <1>inv, <2>2, <2>3, <2>5 DEF StateDirInv
  <2>7. OwnerInv(p)'
    BY <1>11, <1>inv, <2>1, AppendStartedEffect
    DEF ProcInv, OwnerInv, UnderLease, JobRunning, Locked
  <2>8. GenerationInv(p)'
    <3>1. OnBaseline(p)' => OnBaseline(p)
      BY <1>11, <1>sets, AppendStartedEffect DEF OnBaseline
    <3> QED
      BY <1>11, <1>inv, <2>2, <2>3, <3>1, AppendStartedEffect DEF ProcInv, GenerationInv
  <2>9. StateRoleInv(p)'
    BY <1>11, <1>inv, <2>2, <2>3, AppendStartedEffect DEF ProcInv, StateRoleInv
  <2> QED
    BY <2>4, <2>6, <2>7, <2>8, <2>9 DEF ExclusiveInv, ProcInv
<1>12. ASSUME NEW p \in Proc, Dispatch(p) PROVE ExclusiveInv'
  <2>1. /\ UNCHANGED <<lock, journal, events, snapshot, topology, current, done>>
        /\ \A q \in Proc \ {p} : Local(q)
    BY <1>12, DispatchEffect DEF Local
  <2>2. \A q \in Proc \ {p} : UnderLease(q) => holder' = q
    BY <1>12, <1>inv, DispatchEffect DEF ProcInv, OwnerInv
  <2>3. Gen' = Gen /\ Committed' = Committed /\ Resolved' = Resolved /\ StateDirInv'
    BY <1>inv, <2>1, SharedSame
  <2>4. OwnerInv(p)'
    <3>1. CASE UNCHANGED <<events, job, dispatches>> /\ pc'[p] = "exit"
      BY <1>12, <1>inv, <2>3, <3>1, DispatchEffect
      DEF ProcInv, OwnerInv, UnderLease, JobRunning, Locked
    <3>2. CASE DispatchOperation(p, step[p]) /\ pc'[p] = "waiting"
      <4>1. job'[p].op = op[p] /\ job'[p].at \in {"stat", "run"}
        BY <3>2, StreamTypes DEF DispatchOperation
      <4> QED
        BY <1>12, <1>inv, <2>3, <3>2, <4>1, DispatchEffect
        DEF ProcInv, OwnerInv, UnderLease, JobRunning, Locked
    <3> QED
      BY <1>12, <3>1, <3>2, DispatchEffect
  <2>5. GenerationInv(p)'
    <3>1. step[p] \in Step /\ UNCHANGED <<step, op, mode, current>>
      BY <1>12, <1>op, DispatchEffect DEF InStep
    <3>2. OnBaseline(p)' => OnBaseline(p)
      BY <1>12, <1>sets, <3>1, DispatchEffect DEF OnBaseline
    <3> QED
      BY <1>12, <1>inv, <2>3, <3>1, <3>2, DispatchEffect DEF ProcInv, GenerationInv
  <2>6. StateRoleInv(p)'
    <3>1. CASE UNCHANGED <<events, job, dispatches>> /\ pc'[p] = "exit"
      BY <1>12, <1>inv, <2>3, <3>1, DispatchEffect DEF ProcInv, StateRoleInv
    <3>2. CASE DispatchOperation(p, step[p]) /\ pc'[p] = "waiting"
      <4>1. job'[p].op = op[p] /\ job'[p].at \in {"stat", "run"}
        BY <3>2, StreamTypes DEF DispatchOperation
      <4> QED
        BY <1>12, <1>inv, <2>3, <3>2, <4>1, DispatchEffect DEF ProcInv, StateRoleInv
    <3> QED
      BY <1>12, <3>1, <3>2, DispatchEffect
  <2> QED
    BY <1>inv, <2>1, <2>2, <2>3, <2>4, <2>5, <2>6, Unmoved DEF ExclusiveInv, ProcInv
<1>13. ASSUME NEW p \in Proc, DispatchEnds(p) PROVE ExclusiveInv'
  <2>1. /\ UNCHANGED <<lock, journal, events, snapshot, topology, current, done>>
        /\ \A q \in Proc \ {p} : Local(q)
    BY <1>13, DispatchEndsEffect DEF Local
  <2>2. \A q \in Proc \ {p} : UnderLease(q) => holder' = q
    BY <1>13, <1>inv, DispatchEndsEffect DEF ProcInv, OwnerInv
  <2>3. Gen' = Gen /\ Committed' = Committed /\ Resolved' = Resolved /\ StateDirInv'
    BY <1>inv, <2>1, SharedSame
  <2>4. OwnerInv(p)'
    <3>1. job'[p].at = "none"
      BY <1>13, DispatchEndsEffect DEF NoJob
    <3> QED
      BY <1>13, <1>inv, <3>1, DispatchEndsEffect
      DEF ProcInv, OwnerInv, UnderLease, JobRunning, Locked
  <2>5. GenerationInv(p)'
    <3>1. pc[p] = "waiting" => job[p].op = op[p] /\ job[p].step = step[p]
      BY <1>run DEF RunInv
    <3>2. pc'[p] = "succeeding" /\ step[p] = Commit => op[p] \in Committed
      BY <1>13, <1>inv, <3>1, DispatchEndsEffect DEF ProcInv, StateRoleInv
    <3>3. OnBaseline(p)' => OnBaseline(p)
      BY <1>13, DispatchEndsEffect DEF OnBaseline
    <3> QED
      BY <1>13, <1>inv, <2>3, <3>2, <3>3, DispatchEndsEffect DEF ProcInv, GenerationInv
  <2>6. StateRoleInv(p)'
    <3>1. job'[p].at = "none"
      BY <1>13, DispatchEndsEffect DEF NoJob
    <3> QED
      BY <3>1 DEF StateRoleInv
  <2> QED
    BY <1>inv, <2>1, <2>2, <2>3, <2>4, <2>5, <2>6, Unmoved DEF ExclusiveInv, ProcInv
<1>14. ASSUME NEW p \in Proc, AppendSucceeded(p) PROVE ExclusiveInv'
  <2>1. holder = p /\ \A q \in Proc \ {p} : ~UnderLease(q) /\ Local(q)
    BY <1>14, <1>inv, AppendSucceededEffect DEF ProcInv, OwnerInv, UnderLease, JobRunning, Local
  <2>2. UNCHANGED <<lock, journal, snapshot, topology, current, done>>
    BY <1>14, AppendSucceededEffect
  <2>3. /\ Gen' = Gen /\ Gen[current] <= Gen'[current']
        /\ Committed' = Committed /\ Committed \subseteq Committed'
    <3>1. Gen' = Gen
      BY <2>2, GenStays
    <3> QED
      BY <1>none, <1>gen, <2>2, <3>1 DEF Committed
  <2>4. \A q \in Proc \ {p} : ProcInv(q)'
    BY <1>ty, <1>inv, <2>1, <2>3, Bystander
  <2>5. Resolved' \subseteq Resolved \cup Committed /\ Resolved \subseteq Resolved'
    <3>1. CASE UNCHANGED events
      BY <3>1 DEF Resolved
    <3>2. CASE AppendEvent(op[p], step[p], "succeeded")
      <4>1. op[p] \in Proc /\ step[p] \in Step
        BY <1>14, <1>op, AppendSucceededEffect DEF InStep
      <4>2. Len(events[op[p]]) = 2 * step[p] - 1
        BY <1>14, <1>run, <2>1, AppendSucceededEffect DEF LeaseInv, InStep, ReachedStep
      <4>3. Len(events[op[p]]) < 2 * Commit
        BY <1>sets, <4>1, <4>2
      <4>4. Resolved' = IF Len(events[op[p]]) + 1 = 2 * Commit /\ "succeeded" = "succeeded"
                        THEN Resolved \cup {op[p]} ELSE Resolved
        BY <3>2, <4>1, <4>3, ResolvedAppend DEF Phase
      <4>5. Len(events[op[p]]) + 1 = 2 * Commit => step[p] = Commit
        BY <1>sets, <4>1, <4>2
      <4>6. step[p] = Commit => op[p] \in Committed
        BY <1>14, <1>inv, AppendSucceededEffect DEF ProcInv, GenerationInv
      <4> QED
        BY <4>4, <4>5, <4>6
    <3> QED
      BY <1>14, <3>1, <3>2, AppendSucceededEffect
  <2>6. StateDirInv'
    BY <1>inv, <2>2, <2>3, <2>5 DEF StateDirInv
  <2>7. OwnerInv(p)'
    BY <1>14, <1>inv, <2>1, AppendSucceededEffect
    DEF ProcInv, OwnerInv, UnderLease, JobRunning, Locked
  <2>8. GenerationInv(p)'
    <3>1. OnBaseline(p)' => OnBaseline(p)
      BY <1>14, <1>sets, AppendSucceededEffect DEF OnBaseline
    <3> QED
      BY <1>14, <1>inv, <2>2, <2>3, <3>1, AppendSucceededEffect DEF ProcInv, GenerationInv
  <2>9. StateRoleInv(p)'
    BY <1>14, <1>inv, <2>2, <2>3, AppendSucceededEffect DEF ProcInv, StateRoleInv
  <2> QED
    BY <2>4, <2>6, <2>7, <2>8, <2>9 DEF ExclusiveInv, ProcInv
<1>15. ASSUME NEW p \in Proc, AppendFailed(p) PROVE ExclusiveInv'
  <2>1. holder = p /\ \A q \in Proc \ {p} : ~UnderLease(q) /\ Local(q)
    BY <1>15, <1>inv, AppendFailedEffect DEF ProcInv, OwnerInv, UnderLease, JobRunning, Local
  <2>2. UNCHANGED <<lock, journal, snapshot, topology, current, done>>
    BY <1>15, AppendFailedEffect
  <2>3. /\ Gen' = Gen /\ Gen[current] <= Gen'[current']
        /\ Committed' = Committed /\ Committed \subseteq Committed'
    <3>1. Gen' = Gen
      BY <2>2, GenStays
    <3> QED
      BY <1>none, <1>gen, <2>2, <3>1 DEF Committed
  <2>4. \A q \in Proc \ {p} : ProcInv(q)'
    BY <1>ty, <1>inv, <2>1, <2>3, Bystander
  <2>5. Resolved' = Resolved
    <3>1. CASE UNCHANGED events
      BY <3>1 DEF Resolved
    <3>2. CASE AppendEvent(op[p], step[p], "failed")
      <4>1. op[p] \in Proc /\ step[p] \in Step
        BY <1>15, <1>op, AppendFailedEffect DEF InStep
      <4>2. Len(events[op[p]]) = 2 * step[p] - 1
        BY <1>15, <1>run, <2>1, AppendFailedEffect DEF LeaseInv, InStep, ReachedStep
      <4>3. Len(events[op[p]]) < 2 * Commit
        BY <1>sets, <4>1, <4>2
      <4>4. Resolved' = IF Len(events[op[p]]) + 1 = 2 * Commit /\ "failed" = "succeeded"
                        THEN Resolved \cup {op[p]} ELSE Resolved
        BY <3>2, <4>1, <4>3, ResolvedAppend DEF Phase
      <4> QED
        BY <4>4
    <3> QED
      BY <1>15, <3>1, <3>2, AppendFailedEffect
  <2>6. StateDirInv'
    BY <1>inv, <2>2, <2>3, <2>5 DEF StateDirInv
  <2>7. OwnerInv(p)'
    BY <1>15, <1>inv, <2>1, AppendFailedEffect
    DEF ProcInv, OwnerInv, UnderLease, JobRunning, Locked
  <2>8. GenerationInv(p)'
    <3>1. OnBaseline(p)' => OnBaseline(p)
      BY <1>15, <1>sets, AppendFailedEffect DEF OnBaseline
    <3> QED
      BY <1>15, <1>inv, <2>2, <2>3, <3>1, AppendFailedEffect DEF ProcInv, GenerationInv
  <2>9. StateRoleInv(p)'
    BY <1>15, <1>inv, <2>2, <2>3, AppendFailedEffect DEF ProcInv, StateRoleInv
  <2> QED
    BY <2>4, <2>6, <2>7, <2>8, <2>9 DEF ExclusiveInv, ProcInv
<1>16. ASSUME NEW p \in Proc, WriteJournalFailed(p) PROVE ExclusiveInv'
  <2>1. holder = p /\ \A q \in Proc \ {p} : ~UnderLease(q) /\ Local(q)
    BY <1>16, <1>inv, WriteJournalFailedEffect
    DEF ProcInv, OwnerInv, UnderLease, JobRunning, Local
  <2>2. UNCHANGED <<lock, events, snapshot, topology, current, done>>
    BY <1>16, WriteJournalFailedEffect
  <2>3. /\ Gen' = Gen /\ Gen[current] <= Gen'[current']
        /\ Committed' = Committed /\ Committed \subseteq Committed'
        /\ Resolved' = Resolved
    <3>1. Gen' = Gen
      BY <1>16, WriteJournalFailedEffect, GenStays
    <3> QED
      BY <1>none, <1>gen, <2>2, <3>1 DEF Committed, Resolved
  <2>4. \A q \in Proc \ {p} : ProcInv(q)'
    BY <1>ty, <1>inv, <2>1, <2>3, Bystander
  <2>5. op[p] \in Proc /\ journal[op[p]].status # "absent"
    BY <1>16, <1>op, <1>run, <1>inv, WriteJournalFailedEffect DEF RunInv
  <2>6. StateDirInv'
    <3>1. \A o \in Proc : /\ journal'[o].status # "absent" => journal[o].status # "absent"
                          /\ journal'[o].status = "succeeded" => o \in Resolved
      BY <1>16, <1>inv, <2>5, WriteJournalFailedEffect DEF StateDirInv
    <3> QED
      BY <1>inv, <2>2, <2>3, <3>1 DEF StateDirInv
  <2>7. OwnerInv(p)'
    BY <1>16, <1>inv, <2>1, WriteJournalFailedEffect
    DEF ProcInv, OwnerInv, UnderLease, JobRunning, Locked
  <2>8. GenerationInv(p)'
    BY <1>16, WriteJournalFailedEffect DEF GenerationInv, OnBaseline
  <2>9. StateRoleInv(p)'
    BY <1>16, <1>inv, <2>2, <2>3, WriteJournalFailedEffect DEF ProcInv, StateRoleInv
  <2> QED
    BY <2>4, <2>6, <2>7, <2>8, <2>9 DEF ExclusiveInv, ProcInv
<1>17. ASSUME NEW p \in Proc, ReadSnapshot(p) PROVE ExclusiveInv'
  <2>1. /\ UNCHANGED <<lock, journal, events, snapshot, topology, current, done>>
        /\ \A q \in Proc \ {p} : Local(q)
    BY <1>17, ReadSnapshotEffect DEF Local
  <2>2. \A q \in Proc \ {p} : UnderLease(q) => holder' = q
    BY <1>17, <1>inv, ReadSnapshotEffect DEF ProcInv, OwnerInv
  <2>3. Gen' = Gen /\ Committed' = Committed /\ Resolved' = Resolved /\ StateDirInv'
    BY <1>inv, <2>1, SharedSame
  <2>4. OwnerInv(p)'
    BY <1>17, <1>inv, ReadSnapshotEffect DEF ProcInv, OwnerInv, UnderLease, JobRunning, Locked
  <2>5. GenerationInv(p)'
    BY <1>17, <1>inv, <2>3, ReadSnapshotEffect DEF ProcInv, GenerationInv, OnBaseline
  <2>6. StateRoleInv(p)'
    BY <1>17, <1>inv, <2>3, ReadSnapshotEffect DEF ProcInv, StateRoleInv
  <2> QED
    BY <1>inv, <2>1, <2>2, <2>3, <2>4, <2>5, <2>6, Unmoved DEF ExclusiveInv, ProcInv
<1>18. ASSUME NEW p \in Proc, ReadPointers(p) PROVE ExclusiveInv'
  <2>1. /\ UNCHANGED <<lock, journal, events, snapshot, topology, current, done>>
        /\ \A q \in Proc \ {p} : Local(q)
    BY <1>18, ReadPointersEffect DEF Local
  <2>2. \A q \in Proc \ {p} : UnderLease(q) => holder' = q
    BY <1>18, <1>inv, ReadPointersEffect DEF ProcInv, OwnerInv
  <2>3. Gen' = Gen /\ Committed' = Committed /\ Resolved' = Resolved /\ StateDirInv'
    BY <1>inv, <2>1, SharedSame
  <2>4. OwnerInv(p)'
    BY <1>18, <1>inv, ReadPointersEffect DEF ProcInv, OwnerInv, UnderLease, JobRunning, Locked
  <2>5. GenerationInv(p)'
    <3>1. op[p] \in Proc /\ step[p] = Commit
      BY <1>18, <1>op, <1>run, ReadPointersEffect DEF RunInv, InRecovery
    <3>2. pc'[p] = "succeeding" => op[p] \in Committed
      BY <1>18, <1>inv, <3>1, ReadPointersEffect, CurrentCommitted DEF CommitComplete
    <3> QED
      BY <1>18, <1>sets, <2>3, <3>1, <3>2, ReadPointersEffect DEF GenerationInv, OnBaseline
  <2>6. StateRoleInv(p)'
    BY <1>18, <1>inv, <2>3, ReadPointersEffect DEF ProcInv, StateRoleInv
  <2> QED
    BY <1>inv, <2>1, <2>2, <2>3, <2>4, <2>5, <2>6, Unmoved DEF ExclusiveInv, ProcInv
<1>19. ASSUME NEW p \in Proc, Redispatch(p) PROVE ExclusiveInv'
  <2>1. /\ UNCHANGED <<lock, journal, events, snapshot, topology, current, done>>
        /\ \A q \in Proc \ {p} : Local(q)
    BY <1>19, RedispatchEffect DEF Local
  <2>2. \A q \in Proc \ {p} : UnderLease(q) => holder' = q
    BY <1>19, <1>inv, RedispatchEffect DEF ProcInv, OwnerInv
  <2>3. Gen' = Gen /\ Committed' = Committed /\ Resolved' = Resolved /\ StateDirInv'
    BY <1>inv, <2>1, SharedSame
  <2>4. OwnerInv(p)'
    <3>1. CASE UNCHANGED <<events, job, dispatches>> /\ pc'[p] = "exit"
      BY <1>19, <1>inv, <2>3, <3>1, RedispatchEffect
      DEF ProcInv, OwnerInv, UnderLease, JobRunning, Locked
    <3>2. CASE DispatchOperation(p, Commit) /\ pc'[p] = "rewaiting"
      <4>1. job'[p].op = op[p] /\ job'[p].at \in {"stat", "run"}
        BY <3>2, StreamTypes DEF DispatchOperation
      <4> QED
        BY <1>19, <1>inv, <2>3, <3>2, <4>1, RedispatchEffect
        DEF ProcInv, OwnerInv, UnderLease, JobRunning, Locked
    <3> QED
      BY <1>19, <3>1, <3>2, RedispatchEffect
  <2>5. GenerationInv(p)'
    BY <1>19, <1>inv, <2>3, RedispatchEffect DEF ProcInv, GenerationInv, OnBaseline
  <2>6. StateRoleInv(p)'
    <3>1. CASE UNCHANGED <<events, job, dispatches>> /\ pc'[p] = "exit"
      BY <1>19, <1>inv, <2>3, <3>1, RedispatchEffect DEF ProcInv, StateRoleInv
    <3>2. CASE DispatchOperation(p, Commit) /\ pc'[p] = "rewaiting"
      <4>1. job'[p].op = op[p] /\ job'[p].at \in {"stat", "run"}
        BY <3>2, StreamTypes DEF DispatchOperation
      <4> QED
        BY <1>19, <1>inv, <2>3, <3>2, <4>1, RedispatchEffect DEF ProcInv, StateRoleInv
    <3> QED
      BY <1>19, <3>1, <3>2, RedispatchEffect
  <2> QED
    BY <1>inv, <2>1, <2>2, <2>3, <2>4, <2>5, <2>6, Unmoved DEF ExclusiveInv, ProcInv
<1>20. ASSUME NEW p \in Proc, Reverify(p) PROVE ExclusiveInv'
  <2>1. /\ UNCHANGED <<lock, journal, events, snapshot, topology, current, done>>
        /\ \A q \in Proc \ {p} : Local(q)
    BY <1>20, ReverifyEffect DEF Local
  <2>2. \A q \in Proc \ {p} : UnderLease(q) => holder' = q
    BY <1>20, <1>inv, ReverifyEffect DEF ProcInv, OwnerInv
  <2>3. Gen' = Gen /\ Committed' = Committed /\ Resolved' = Resolved /\ StateDirInv'
    BY <1>inv, <2>1, SharedSame
  <2>4. OwnerInv(p)'
    BY <1>20, <1>inv, ReverifyEffect DEF ProcInv, OwnerInv, UnderLease, JobRunning, Locked
  <2>5. GenerationInv(p)'
    <3>1. op[p] \in Proc /\ step[p] = Commit
      BY <1>20, <1>op, <1>run, ReverifyEffect DEF RunInv, InRecovery
    <3>2. pc'[p] = "succeeding" => op[p] \in Committed
      BY <1>20, <1>inv, <3>1, ReverifyEffect, CurrentCommitted DEF CommitComplete
    <3> QED
      BY <1>20, <1>sets, <2>3, <3>1, <3>2, ReverifyEffect DEF GenerationInv, OnBaseline
  <2>6. StateRoleInv(p)'
    BY <1>20, <1>inv, <2>3, ReverifyEffect DEF ProcInv, StateRoleInv
  <2> QED
    BY <1>inv, <2>1, <2>2, <2>3, <2>4, <2>5, <2>6, Unmoved DEF ExclusiveInv, ProcInv
<1>21. ASSUME NEW p \in Proc, WriteJournalSucceeded(p) PROVE ExclusiveInv'
  <2>1. holder = p /\ \A q \in Proc \ {p} : ~UnderLease(q) /\ Local(q)
    BY <1>21, <1>inv, WriteJournalSucceededEffect
    DEF ProcInv, OwnerInv, UnderLease, JobRunning, Local
  <2>2. UNCHANGED <<lock, events, snapshot, topology, current, done>>
    BY <1>21, WriteJournalSucceededEffect
  <2>3. /\ Gen' = Gen /\ Gen[current] <= Gen'[current']
        /\ Committed' = Committed /\ Committed \subseteq Committed'
        /\ Resolved' = Resolved
    <3>1. Gen' = Gen
      BY <1>21, WriteJournalSucceededEffect, GenStays
    <3> QED
      BY <1>none, <1>gen, <2>2, <3>1 DEF Committed, Resolved
  <2>4. \A q \in Proc \ {p} : ProcInv(q)'
    BY <1>ty, <1>inv, <2>1, <2>3, Bystander
  <2>5. op[p] \in Proc /\ journal[op[p]].status # "absent" /\ op[p] \in Resolved
    BY <1>21, <1>op, <1>run, <1>inv, WriteJournalSucceededEffect
    DEF RunInv, ProcInv, GenerationInv
  <2>6. StateDirInv'
    <3>1. \A o \in Proc : /\ journal'[o].status # "absent" => journal[o].status # "absent"
                          /\ journal'[o].status = "succeeded" => o \in Resolved
      BY <1>21, <1>inv, <2>5, WriteJournalSucceededEffect DEF StateDirInv
    <3> QED
      BY <1>inv, <2>2, <2>3, <3>1 DEF StateDirInv
  <2>7. OwnerInv(p)'
    BY <1>21, <1>inv, <2>1, WriteJournalSucceededEffect
    DEF ProcInv, OwnerInv, UnderLease, JobRunning, Locked
  <2>8. GenerationInv(p)'
    BY <1>21, WriteJournalSucceededEffect DEF GenerationInv, OnBaseline
  <2>9. StateRoleInv(p)'
    BY <1>21, <1>inv, <2>2, <2>3, WriteJournalSucceededEffect DEF ProcInv, StateRoleInv
  <2> QED
    BY <2>4, <2>6, <2>7, <2>8, <2>9 DEF ExclusiveInv, ProcInv
<1>22. ASSUME NEW p \in Proc, ReleaseLock(p) PROVE ExclusiveInv'
  <2>1. holder = p /\ \A q \in Proc \ {p} : ~UnderLease(q) /\ Local(q)
    BY <1>22, <1>inv, ReleaseLockEffect DEF ProcInv, OwnerInv, UnderLease, JobRunning, Local
  <2>2. UNCHANGED <<journal, events, snapshot, topology, current, done>>
    BY <1>22, ReleaseLockEffect
  <2>3. /\ Gen' = Gen /\ Gen[current] <= Gen'[current']
        /\ Committed' = Committed /\ Committed \subseteq Committed'
        /\ Resolved' = Resolved
    <3>1. Gen' = Gen
      BY <2>2, GenStays
    <3> QED
      BY <1>none, <1>gen, <2>2, <3>1 DEF Committed, Resolved
  <2>4. \A q \in Proc \ {p} : ProcInv(q)'
    BY <1>ty, <1>inv, <2>1, <2>3, Bystander
  <2>5. lock' = None
    BY <1>22, <1>inv, ReleaseLockEffect DEF ProcInv, OwnerInv, Locked, ReleasedLock
  <2>6. StateDirInv'
    BY <1>inv, <2>2, <2>3, <2>5 DEF StateDirInv
  <2>7. OwnerInv(p)'
    BY <1>22, <1>inv, <2>1, ReleaseLockEffect
    DEF ProcInv, OwnerInv, UnderLease, JobRunning, Locked
  <2>8. GenerationInv(p)'
    BY <1>22, ReleaseLockEffect DEF GenerationInv, OnBaseline
  <2>9. StateRoleInv(p)'
    BY <1>22, <1>inv, <2>2, <2>3, ReleaseLockEffect DEF ProcInv, StateRoleInv
  <2> QED
    BY <2>4, <2>6, <2>7, <2>8, <2>9 DEF ExclusiveInv, ProcInv
<1>23. ASSUME NEW p \in Proc, ReleaseLease(p) PROVE ExclusiveInv'
  <2>1. /\ UNCHANGED <<lock, journal, events, snapshot, topology, current, done>>
        /\ \A q \in Proc \ {p} : Local(q)
    BY <1>23, ReleaseLeaseEffect DEF Local
  <2>2. \A q \in Proc \ {p} : UnderLease(q) => holder' = q
    BY <1>23, <1>inv, ReleaseLeaseEffect DEF ProcInv, OwnerInv
  <2>3. Gen' = Gen /\ Committed' = Committed /\ Resolved' = Resolved /\ StateDirInv'
    BY <1>inv, <2>1, SharedSame
  <2>4. OwnerInv(p)'
    BY <1>23, <1>inv, ReleaseLeaseEffect DEF ProcInv, OwnerInv, UnderLease, JobRunning, Locked
  <2>5. GenerationInv(p)'
    BY <1>23, <1>inv, <2>3, ReleaseLeaseEffect DEF ProcInv, GenerationInv, OnBaseline
  <2>6. StateRoleInv(p)'
    BY <1>23, <1>inv, <2>3, ReleaseLeaseEffect DEF ProcInv, StateRoleInv
  <2> QED
    BY <1>inv, <2>1, <2>2, <2>3, <2>4, <2>5, <2>6, Unmoved DEF ExclusiveInv, ProcInv
<1>24. ASSUME NEW p \in Proc, Abort(p) PROVE ExclusiveInv'
  <2>1. /\ UNCHANGED <<lock, journal, events, snapshot, topology, current, done>>
        /\ \A q \in Proc \ {p} : Local(q)
    BY <1>24, AbortEffect DEF Local
  <2>2. \A q \in Proc \ {p} : UnderLease(q) => holder' = q
    BY <1>24, <1>inv, AbortEffect DEF ProcInv, OwnerInv
  <2>3. Gen' = Gen /\ Committed' = Committed /\ Resolved' = Resolved /\ StateDirInv'
    BY <1>inv, <2>1, SharedSame
  <2>4. OwnerInv(p)'
    BY <1>24, <1>inv, AbortEffect DEF ProcInv, OwnerInv, UnderLease, JobRunning, Locked
  <2>5. GenerationInv(p)'
    BY <1>24, <1>inv, <2>3, AbortEffect DEF ProcInv, GenerationInv, OnBaseline
  <2>6. StateRoleInv(p)'
    BY <1>24, <1>inv, <2>3, AbortEffect DEF ProcInv, StateRoleInv
  <2> QED
    BY <1>inv, <2>1, <2>2, <2>3, <2>4, <2>5, <2>6, Unmoved DEF ExclusiveInv, ProcInv
<1>25. ASSUME NEW p \in Proc, Crash(p) PROVE ExclusiveInv'
  <2>1. /\ UNCHANGED <<lock, journal, events, snapshot, topology, current, done>>
        /\ \A q \in Proc \ {p} : Local(q)
    BY <1>25, CrashEffect DEF Local
  <2>2. \A q \in Proc \ {p} : UnderLease(q) => holder' = q
    BY <1>25, <1>inv, CrashEffect DEF ProcInv, OwnerInv
  <2>3. Gen' = Gen /\ Committed' = Committed /\ Resolved' = Resolved /\ StateDirInv'
    BY <1>inv, <2>1, SharedSame
  <2>4. OwnerInv(p)'
    <3>1. job'[p].at = "none"
      BY <1>25, CrashEffect DEF NoJob
    <3> QED
      BY <1>25, <3>1, CrashEffect DEF OwnerInv, UnderLease, JobRunning, Locked
  <2>5. GenerationInv(p)'
    BY <1>25, <1>inv, <2>3, CrashEffect DEF ProcInv, GenerationInv, OnBaseline
  <2>6. StateRoleInv(p)'
    <3>1. job'[p].at = "none"
      BY <1>25, CrashEffect DEF NoJob
    <3> QED
      BY <1>25, <3>1, CrashEffect DEF StateRoleInv
  <2> QED
    BY <1>inv, <2>1, <2>2, <2>3, <2>4, <2>5, <2>6, Unmoved DEF ExclusiveInv, ProcInv
<1>26. ASSUME NEW p \in Proc, RunRole(p) PROVE ExclusiveInv'
  <2>0. /\ pc[p] \in {"waiting", "rewaiting"} /\ UNCHANGED <<pc, mode, op, base, step, holder>>
        /\ job[p].op \in Proc /\ job[p].op = op[p] /\ job[p].step = step[p] /\ lock = job[p].op
    <3>1. pc[p] \in {"waiting", "rewaiting"} /\ job[p].op \in Proc
      BY <1>26, <1>inv, <1>run, RunRoleEffect DEF ProcInv, OwnerInv, JobRunning, JobInv
    <3>2. job[p].op = op[p] /\ job[p].step = step[p] /\ lock = op[p]
      BY <1>inv, <1>run, <3>1 DEF ProcInv, OwnerInv, RunInv, Locked
    <3> QED
      BY <1>26, <3>1, <3>2, RunRoleEffect
  <2>1. holder = p /\ \A q \in Proc \ {p} : ~UnderLease(q) /\ Local(q)
    BY <1>26, <1>inv, <2>0, RunRoleEffect DEF ProcInv, OwnerInv, UnderLease, Local
  <2>2. UNCHANGED <<lock, journal, events, snapshot, topology, current>>
    BY <1>26, RunRoleEffect
  <2>3. /\ Gen' = Gen /\ Gen[current] <= Gen'[current'] /\ Committed \subseteq Committed'
        /\ Resolved' = Resolved
    <3>1. Gen' = Gen /\ Gen[current] \in Nat
      BY <1>none, <1>gen, <2>2, GenStays
    <3>2. /\ \A o \in Proc : done[o] \subseteq done'[o]
          /\ Gen[current] <= Gen'[current']
      BY <1>26, <2>0, <2>2, <3>1, RunRoleEffect, StateTypes
    <3>3. Committed \subseteq Committed'
      BY <1>ty, <2>2, <3>1, <3>2, CommittedStays
    <3> QED
      BY <2>2, <3>1, <3>2, <3>3 DEF Resolved
  <2>4. \A q \in Proc \ {p} : ProcInv(q)'
    BY <1>ty, <1>inv, <2>1, <2>3, Bystander
  <2>5. \A o \in Proc : Commit \in done[o] => Commit \in done'[o]
    <3>1. done \in [Proc -> SUBSET Step]
      BY StateTypes
    <3> QED
      BY <1>26, <2>0, <3>1, RunRoleEffect
  <2>6. StateDirInv'
    BY <1>inv, <2>2, <2>3, <2>5 DEF StateDirInv
  <2>7. OwnerInv(p)'
    BY <1>26, <1>inv, <2>0, RunRoleEffect DEF ProcInv, OwnerInv, UnderLease, JobRunning, Locked
  <2>8. GenerationInv(p)'
    <3>1. OnBaseline(p)' => OnBaseline(p)
      BY <2>0 DEF OnBaseline
    <3> QED
      BY <1>inv, <2>0, <2>2, <2>3, <3>1 DEF ProcInv, GenerationInv
  <2>9. StateRoleInv(p)'
    <3>1. job'[p].at = "ok" /\ job'[p].step # Commit
      BY <1>26, <1>run, RunRoleEffect DEF JobInv
    <3> QED
      BY <3>1 DEF StateRoleInv
  <2> QED
    BY <2>4, <2>6, <2>7, <2>8, <2>9 DEF ExclusiveInv, ProcInv
<1>27. ASSUME NEW p \in Proc, StatSnapshot(p) PROVE ExclusiveInv'
  <2>1. /\ UNCHANGED <<lock, journal, events, snapshot, topology, current, done>>
        /\ \A q \in Proc \ {p} : Local(q)
    BY <1>27, StatSnapshotEffect DEF Local
  <2>2. \A q \in Proc \ {p} : UnderLease(q) => holder' = q
    BY <1>27, <1>inv, StatSnapshotEffect DEF ProcInv, OwnerInv
  <2>3. Gen' = Gen /\ Committed' = Committed /\ Resolved' = Resolved /\ StateDirInv'
    BY <1>inv, <2>1, SharedSame
  <2>4. OwnerInv(p)'
    BY <1>27, <1>inv, StatSnapshotEffect DEF ProcInv, OwnerInv, UnderLease, JobRunning, Locked
  <2>5. GenerationInv(p)'
    BY <1>27, <1>inv, <2>3, StatSnapshotEffect DEF ProcInv, GenerationInv, OnBaseline
  <2>6. StateRoleInv(p)'
    <3>1. GenerationOf(job[p].op) = Gen[job[p].op]
      BY <1>27, <1>run, <1>none, <1>gen, StatSnapshotEffect DEF JobInv
    <3> QED
      BY <1>27, <2>1, <2>3, <3>1, StatSnapshotEffect DEF StateRoleInv
  <2> QED
    BY <1>inv, <2>1, <2>2, <2>3, <2>4, <2>5, <2>6, Unmoved DEF ExclusiveInv, ProcInv
<1>28. ASSUME NEW p \in Proc, PublishSnapshot(p) PROVE ExclusiveInv'
  <2>0. /\ pc[p] \in {"waiting", "rewaiting"} /\ UNCHANGED <<pc, mode, op, base, step, holder>>
        /\ job[p].op \in Proc /\ job[p].op = op[p] /\ job[p].step = step[p] /\ lock = job[p].op
    <3>1. pc[p] \in {"waiting", "rewaiting"} /\ job[p].op \in Proc
      BY <1>28, <1>inv, <1>run, PublishSnapshotEffect DEF ProcInv, OwnerInv, JobRunning, JobInv
    <3>2. job[p].op = op[p] /\ job[p].step = step[p] /\ lock = op[p]
      BY <1>inv, <1>run, <3>1 DEF ProcInv, OwnerInv, RunInv, Locked
    <3> QED
      BY <1>28, <3>1, <3>2, PublishSnapshotEffect
  <2>1. holder = p /\ \A q \in Proc \ {p} : ~UnderLease(q) /\ Local(q)
    BY <1>28, <1>inv, <2>0, PublishSnapshotEffect DEF ProcInv, OwnerInv, UnderLease, Local
  <2>2. UNCHANGED <<lock, journal, events, topology, current, done>>
    BY <1>28, PublishSnapshotEffect
  <2>5. /\ Gen[job[p].op] \in Generation /\ Gen[job[p].op] \in Nat /\ Gen[current] \in Nat
        /\ Gen[job[p].op] <= Gen[current] + 1 /\ Gen[job[p].op] >= 1
    <3>1. journal[job[p].op].status # "absent"
      BY <1>run, <2>0 DEF RunInv, Working
    <3>2. Gen[job[p].op] \in 0..MaxGeneration
      BY <1>none, <2>0, GenTypes
    <3>3. Gen[job[p].op] <= Gen[current] + 1 /\ Gen[job[p].op] >= 1
      BY <1>inv, <2>0, <3>1 DEF StateDirInv
    <3> QED
      BY <1>none, <1>gen, <2>0, <3>2, <3>3, StateTypes
  <2>6. /\ snapshot[Gen[job[p].op]] = None /\ snapshot'[Gen[job[p].op]] = job[p].op
        /\ \A g \in Generation \ {Gen[job[p].op]} : snapshot'[g] = snapshot[g]
    <3>1. snapshot[Gen[job[p].op]] = None /\ GenerationOf(job[p].op) = Gen[job[p].op]
      BY <1>28, <1>inv, <1>none, <1>gen, <2>0, PublishSnapshotEffect DEF ProcInv, StateRoleInv
    <3>2. snapshot \in [Generation -> Op \cup {None}]
      BY StateTypes
    <3> QED
      BY <1>28, <2>5, <3>1, <3>2, PublishSnapshotEffect
  <2>3. /\ Gen' = Gen /\ Gen[current] <= Gen'[current'] /\ Committed \subseteq Committed'
        /\ Resolved' = Resolved
    <3>1. Gen' = Gen /\ Gen[current] \in Nat
      BY <1>none, <1>gen, <2>2, GenStays
    <3>2. /\ \A g \in Generation : snapshot[g] # None => snapshot'[g] = snapshot[g]
          /\ Gen[current] <= Gen'[current']
      BY <2>2, <2>6, <3>1
    <3>3. Committed \subseteq Committed'
      BY <1>ty, <2>2, <3>1, <3>2, CommittedStays
    <3> QED
      BY <2>2, <3>1, <3>2, <3>3 DEF Resolved
  <2>4. \A q \in Proc \ {p} : ProcInv(q)'
    BY <1>ty, <1>inv, <2>1, <2>3, Bystander
  <2>7. StateDirInv'
    <3>1. \A g \in Generation : snapshot[g] # None => snapshot'[g] = snapshot[g]
      BY <2>6
    <3>2. Gen[job[p].op] > Gen[current]
      BY <1>inv, <2>5, <2>6 DEF StateDirInv
    <3>3. /\ topology # None => Gen[topology] \in Generation
          /\ current # None => Gen[current] \in Generation
      BY <1>inv, <1>none, NamedGeneration
    <3>4. \A g \in 1..Gen[current] : snapshot'[g] # None
      <4>1. 1..Gen[current] \subseteq Generation
        BY <1>none, GenTypes, StateTypes
      <4> QED
        BY <1>inv, <3>1, <4>1 DEF StateDirInv
    <3>5. /\ topology # None => snapshot'[Gen[topology]] = topology
          /\ current # None => snapshot'[Gen[current]] = current
      BY <1>inv, <3>1, <3>3 DEF StateDirInv
    <3>6. Gen[current] <= Gen[lock]
      BY <2>0, <2>5, <3>2
    <3> QED
      BY <1>inv, <2>2, <2>3, <3>4, <3>5, <3>6 DEF StateDirInv
  <2>8. OwnerInv(p)'
    BY <1>28, <1>inv, <2>0, PublishSnapshotEffect
    DEF ProcInv, OwnerInv, UnderLease, JobRunning, Locked
  <2>9. GenerationInv(p)'
    <3>1. OnBaseline(p)' => OnBaseline(p)
      BY <2>0 DEF OnBaseline
    <3> QED
      BY <1>inv, <2>0, <2>2, <2>3, <3>1 DEF ProcInv, GenerationInv
  <2>10. StateRoleInv(p)'
    BY <1>28, <2>3, <2>6, PublishSnapshotEffect DEF StateRoleInv
  <2> QED
    BY <2>4, <2>7, <2>8, <2>9, <2>10 DEF ExclusiveInv, ProcInv
<1>29. ASSUME NEW p \in Proc, WriteTopology(p) PROVE ExclusiveInv'
  <2>0. /\ pc[p] \in {"waiting", "rewaiting"} /\ UNCHANGED <<pc, mode, op, base, step, holder>>
        /\ job[p].op \in Proc /\ job[p].op = op[p] /\ job[p].step = step[p] /\ lock = job[p].op
    <3>1. pc[p] \in {"waiting", "rewaiting"} /\ job[p].op \in Proc
      BY <1>29, <1>inv, <1>run, WriteTopologyEffect DEF ProcInv, OwnerInv, JobRunning, JobInv
    <3>2. job[p].op = op[p] /\ job[p].step = step[p] /\ lock = op[p]
      BY <1>inv, <1>run, <3>1 DEF ProcInv, OwnerInv, RunInv, Locked
    <3> QED
      BY <1>29, <3>1, <3>2, WriteTopologyEffect
  <2>1. holder = p /\ \A q \in Proc \ {p} : ~UnderLease(q) /\ Local(q)
    BY <1>29, <1>inv, <2>0, WriteTopologyEffect DEF ProcInv, OwnerInv, UnderLease, Local
  <2>2. UNCHANGED <<lock, journal, events, snapshot, current, done>>
    BY <1>29, WriteTopologyEffect
  <2>3. /\ Gen' = Gen /\ Gen[current] <= Gen'[current'] /\ Committed \subseteq Committed'
        /\ Resolved' = Resolved
    <3>1. Gen' = Gen /\ Gen[current] \in Nat
      BY <1>none, <1>gen, <2>2, GenStays
    <3>2. Gen[current] <= Gen'[current']
      BY <2>2, <3>1
    <3>3. Committed \subseteq Committed'
      BY <1>ty, <2>2, <3>1, <3>2, CommittedStays
    <3> QED
      BY <2>2, <3>1, <3>2, <3>3 DEF Resolved
  <2>4. \A q \in Proc \ {p} : ProcInv(q)'
    BY <1>ty, <1>inv, <2>1, <2>3, Bystander
  <2>5. snapshot[Gen[job[p].op]] = job[p].op
    BY <1>29, <1>inv, WriteTopologyEffect DEF ProcInv, StateRoleInv
  <2>6. StateDirInv'
    BY <1>29, <1>inv, <2>2, <2>3, <2>5, WriteTopologyEffect DEF StateDirInv
  <2>7. OwnerInv(p)'
    BY <1>29, <1>inv, <2>0, WriteTopologyEffect
    DEF ProcInv, OwnerInv, UnderLease, JobRunning, Locked
  <2>8. GenerationInv(p)'
    <3>1. OnBaseline(p)' => OnBaseline(p)
      BY <2>0 DEF OnBaseline
    <3> QED
      BY <1>inv, <2>0, <2>2, <2>3, <3>1 DEF ProcInv, GenerationInv
  <2>9. StateRoleInv(p)'
    BY <1>29, <2>2, <2>3, <2>5, WriteTopologyEffect DEF StateRoleInv
  <2> QED
    BY <2>4, <2>6, <2>7, <2>8, <2>9 DEF ExclusiveInv, ProcInv
<1>30. ASSUME NEW p \in Proc, WriteCurrent(p) PROVE ExclusiveInv'
  <2>0. /\ pc[p] \in {"waiting", "rewaiting"} /\ UNCHANGED <<pc, mode, op, base, step, holder>>
        /\ job[p].op \in Proc /\ job[p].op = op[p] /\ job[p].step = step[p] /\ lock = job[p].op
    <3>1. pc[p] \in {"waiting", "rewaiting"} /\ job[p].op \in Proc
      BY <1>30, <1>inv, <1>run, WriteCurrentEffect DEF ProcInv, OwnerInv, JobRunning, JobInv
    <3>2. job[p].op = op[p] /\ job[p].step = step[p] /\ lock = op[p]
      BY <1>inv, <1>run, <3>1 DEF ProcInv, OwnerInv, RunInv, Locked
    <3> QED
      BY <1>30, <3>1, <3>2, WriteCurrentEffect
  <2>1. holder = p /\ \A q \in Proc \ {p} : ~UnderLease(q) /\ Local(q)
    BY <1>30, <1>inv, <2>0, WriteCurrentEffect DEF ProcInv, OwnerInv, UnderLease, Local
  <2>2. UNCHANGED <<lock, journal, events, snapshot, topology>>
    BY <1>30, WriteCurrentEffect
  <2>5. /\ Gen[job[p].op] \in Generation /\ Gen[job[p].op] \in Nat /\ Gen[current] \in Nat
        /\ Gen[job[p].op] <= Gen[current] + 1 /\ Gen[job[p].op] >= 1
    <3>1. journal[job[p].op].status # "absent"
      BY <1>run, <2>0 DEF RunInv, Working
    <3>2. Gen[job[p].op] \in 0..MaxGeneration
      BY <1>none, <2>0, GenTypes
    <3>3. Gen[job[p].op] <= Gen[current] + 1 /\ Gen[job[p].op] >= 1
      BY <1>inv, <2>0, <3>1 DEF StateDirInv
    <3> QED
      BY <1>none, <1>gen, <2>0, <3>2, <3>3, StateTypes
  <2>6. /\ snapshot[Gen[job[p].op]] = job[p].op /\ Gen[current] <= Gen[job[p].op]
        /\ current' = job[p].op /\ Commit \in done'[job[p].op]
        /\ \A o \in Proc : done[o] \subseteq done'[o]
    <3>1. snapshot[Gen[job[p].op]] = job[p].op
      BY <1>30, <1>inv, WriteCurrentEffect DEF ProcInv, StateRoleInv
    <3>2. Gen[current] <= Gen[job[p].op]
      BY <1>inv, <1>none, <2>0, <3>1 DEF StateDirInv
    <3>3. done \in [Proc -> SUBSET Step]
      BY StateTypes
    <3> QED
      BY <1>30, <2>0, <3>1, <3>2, <3>3, WriteCurrentEffect
  <2>3. /\ Gen' = Gen /\ Gen[current] <= Gen'[current'] /\ Committed \subseteq Committed'
        /\ Resolved' = Resolved
    <3>1. Gen' = Gen
      BY <2>2, GenStays
    <3>2. Gen[current] <= Gen'[current']
      BY <2>6, <3>1
    <3>3. Committed \subseteq Committed'
      BY <1>ty, <2>2, <2>6, <3>1, <3>2, CommittedStays
    <3> QED
      BY <2>2, <3>1, <3>2, <3>3 DEF Resolved
  <2>4. \A q \in Proc \ {p} : ProcInv(q)'
    BY <1>ty, <1>inv, <2>1, <2>3, Bystander
  <2>7. job[p].op \in Committed'
    BY <2>0, <2>2, <2>3, <2>5, <2>6 DEF Committed
  <2>8. StateDirInv'
    <3>1. \A g \in 1..Gen[job[p].op] : snapshot[g] # None
      <4>1. \A g \in 1..Gen[current] : snapshot[g] # None
        BY <1>inv DEF StateDirInv
      <4>2. job[p].op # None
        BY <1>none, <2>0
      <4> QED
        BY <2>5, <2>6, <4>1, <4>2
    <3>2. \A o \in Proc : journal[o].status # "absent" =>
            Gen[o] >= 1 /\ Gen[o] <= Gen[job[p].op] + 1
      <4>1. \A o \in Proc : Gen[o] \in Nat
        BY <1>none, <1>gen
      <4> QED
        BY <1>inv, <2>5, <2>6, <4>1 DEF StateDirInv
    <3> QED
      BY <1>inv, <2>0, <2>2, <2>3, <2>5, <2>6, <3>1, <3>2 DEF StateDirInv
  <2>9. OwnerInv(p)'
    BY <1>30, <1>inv, <2>0, WriteCurrentEffect
    DEF ProcInv, OwnerInv, UnderLease, JobRunning, Locked
  <2>10. GenerationInv(p)'
    <3>1. step[p] = Commit
      BY <1>30, <1>run, <2>0, WriteCurrentEffect DEF JobInv
    <3> QED
      BY <1>sets, <2>0, <3>1 DEF GenerationInv, OnBaseline
  <2>11. StateRoleInv(p)'
    BY <1>30, <2>7, WriteCurrentEffect DEF StateRoleInv
  <2> QED
    BY <2>4, <2>8, <2>9, <2>10, <2>11 DEF ExclusiveInv, ProcInv
<1>31. ASSUME NEW p \in Proc, FailRole(p) PROVE ExclusiveInv'
  <2>1. /\ UNCHANGED <<lock, journal, events, snapshot, topology, current, done>>
        /\ \A q \in Proc \ {p} : Local(q)
    BY <1>31, FailRoleEffect DEF Local
  <2>2. \A q \in Proc \ {p} : UnderLease(q) => holder' = q
    BY <1>31, <1>inv, FailRoleEffect DEF ProcInv, OwnerInv
  <2>3. Gen' = Gen /\ Committed' = Committed /\ Resolved' = Resolved /\ StateDirInv'
    BY <1>inv, <2>1, SharedSame
  <2>4. OwnerInv(p)'
    BY <1>31, <1>inv, FailRoleEffect DEF ProcInv, OwnerInv, UnderLease, JobRunning, Locked
  <2>5. GenerationInv(p)'
    BY <1>31, <1>inv, <2>3, FailRoleEffect DEF ProcInv, GenerationInv, OnBaseline
  <2>6. StateRoleInv(p)'
    BY <1>31, <1>inv, <2>3, FailRoleEffect DEF ProcInv, StateRoleInv
  <2> QED
    BY <1>inv, <2>1, <2>2, <2>3, <2>4, <2>5, <2>6, Unmoved DEF ExclusiveInv, ProcInv
<1>32. CASE UNCHANGED vars
  <2>1. /\ UNCHANGED <<lock, journal, events, snapshot, topology, current, done, holder>>
        /\ \A q \in Proc : Local(q)
    BY <1>32 DEF vars, Local
  <2>2. \A q \in Proc : UnderLease(q) => holder' = q
    BY <1>inv, <2>1 DEF ProcInv, OwnerInv
  <2> QED
    BY <1>inv, <2>1, <2>2, Unmoved, SharedSame DEF ExclusiveInv
<1> QED
  BY <1>0, <1>1, <1>2, <1>3, <1>4, <1>5, <1>6, <1>7, <1>8, <1>9, <1>10, <1>11, <1>12, <1>13,
      <1>14, <1>15, <1>16, <1>17, <1>18, <1>19, <1>20, <1>21, <1>22, <1>23, <1>24, <1>25, <1>26,
      <1>27, <1>28, <1>29, <1>30, <1>31, <1>32
  DEF Next, RunUnderLease, FreshRun, ResumeRun, DispatchLoop, RecoverCommit, EndRun, Role

-----------------------------------------------------------------------------
(* What the invariant gives.                                               *)

\* The three invariants together hold throughout.
LEMMA ExclusiveInvHolds ==
  ASSUME ~CanStall, ~JobsOutlive
  PROVE  Spec => [](TypeInv /\ StreamInv /\ ExclusiveInv)
<1>1. TypeInv /\ StreamInv /\ ExclusiveInv /\ [Next]_vars => ExclusiveInv'
  BY ExclusiveStep
<1> QED
  BY <1>1, InitTypeInv, TypeStep, InitStreamInv, StreamStep, InitExclusive, PTL DEF Spec

\* lock.json, without late clients and orphaned roles: whatever crashes, errors and
\* resumes come between, a role only runs while the lock names its operation.
THEOREM RunningRoleHoldsLockHolds ==
  ASSUME ~CanStall, ~JobsOutlive
  PROVE  Spec => []RunningRoleHoldsLock
<1>1. StreamInv /\ ExclusiveInv => RunningRoleHoldsLock
  <2> SUFFICES ASSUME StreamInv, ExclusiveInv, NEW p \in Proc, JobRunning(p)
               PROVE  lock = job[p].op
    BY DEF RunningRoleHoldsLock
  <2>1. pc[p] \in {"waiting", "rewaiting"} /\ lock = op[p]
    BY DEF ExclusiveInv, ProcInv, OwnerInv, Locked
  <2> QED
    BY <2>1 DEF StreamInv, RunInv
<1> QED
  BY <1>1, ExclusiveInvHolds, PTL

\* roles/state, without late clients and orphaned roles: topology.json and
\* current.json only ever name an operation whose own snapshot is published.
THEOREM PointersBackedBySnapshotHolds ==
  ASSUME ~CanStall, ~JobsOutlive
  PROVE  Spec => []PointersBackedBySnapshot
<1>1. TypeInv /\ StreamInv /\ ExclusiveInv => PointersBackedBySnapshot
  <2> SUFFICES ASSUME TypeInv, StateDirInv, NEW o \in {topology, current} \ {None}
               PROVE  snapshot[GenerationOf(o)] = o
    BY DEF ExclusiveInv, PointersBackedBySnapshot
  <2>1. GenerationOf(o) = Gen[o]
    BY GenTypes, StateTypes
  <2> QED
    BY <2>1 DEF StateDirInv
<1> QED
  BY <1>1, ExclusiveInvHolds, PTL

\* updateJournalStatus("succeeded"), without late clients and orphaned roles: every
\* step of such an operation succeeded and ran, and its commit is part of the
\* installation's history.
THEOREM SucceededMeansCommittedHolds ==
  ASSUME ~CanStall, ~JobsOutlive
  PROVE  Spec => []SucceededMeansCommitted
<1>1. TypeInv /\ StreamInv /\ ExclusiveInv => SucceededMeansCommitted
  <2> SUFFICES ASSUME TypeInv, StreamInv, ExclusiveInv, NEW o \in Proc,
                      journal[o].status = "succeeded"
               PROVE  /\ AllStepsSkip(events[o]) /\ done[o] = Step
                      /\ snapshot[GenerationOf(o)] = o /\ GenerationOf(current) >= GenerationOf(o)
    BY DEF SucceededMeansCommitted
  <2>1. o \in Resolved /\ o \in Committed /\ FilesInv
    BY DEF StreamInv, ExclusiveInv, StateDirInv
  <2>2. \A s \in Step : Len(events[o]) >= 2 * s /\ events[o][2 * s].phase = "succeeded"
    BY <2>1, ResolvedSteps
  <2>3. Step \subseteq Nat \ {0} /\ Commit \in Step /\ done[o] \subseteq Step
    BY StateTypes
  <2>4. AllStepsSkip(events[o])
    <3>1. events[o] \in Stream /\ Dispatched(events[o])
      BY <2>1, StreamTypes DEF FilesInv
    <3>2. ASSUME NEW s \in Step PROVE DecideStepResumption(events[o], s) = "skip"
      BY <2>2, <2>3, <3>1, DecisionOfDispatched
    <3> QED
      BY <3>2 DEF AllStepsSkip
  <2>5. done[o] = Step
    <3>1. Commit \in done[o]
      BY <2>1 DEF Committed
    <3>2. \A s \in Step \ {Commit} : s \in done[o]
      BY <2>1, <2>2 DEF FilesInv
    <3> QED
      BY <2>3, <3>1, <3>2
  <2>6. /\ snapshot[Gen[o]] = o /\ Gen[o] <= Gen[current]
        /\ Gen[o] \in Nat /\ Gen[current] \in Nat
        /\ GenerationOf(o) = Gen[o] /\ GenerationOf(current) = Gen[current]
    BY <2>1, GenTypes, StateTypes DEF Committed
  <2> QED
    BY <2>4, <2>5, <2>6
<1> QED
  BY <1>1, ExclusiveInvHolds, PTL

\* The recheck under the lock, without late clients and orphaned roles: a fresh
\* apply's roles change the very installation its plan was computed for.
THEOREM FreshRolesMatchBaselineHolds ==
  ASSUME ~CanStall, ~JobsOutlive
  PROVE  Spec => []FreshRolesMatchBaseline
<1>1. TypeInv /\ StreamInv /\ ExclusiveInv => FreshRolesMatchBaseline
  <2> SUFFICES ASSUME TypeInv, StreamInv, ExclusiveInv, NEW p \in Proc,
                      mode[p] = "fresh", job[p].at = "run"
               PROVE  GenerationOf(job[p].op) = GenerationOf(current) + 1
    BY DEF FreshRolesMatchBaseline
  <2>1. pc[p] \in {"waiting", "rewaiting"}
    BY DEF ExclusiveInv, ProcInv, OwnerInv, JobRunning
  <2>2. job[p].op = op[p] /\ job[p].step = step[p] /\ step[p] # Commit /\ op[p] \in Proc
    BY <2>1 DEF StreamInv, RunInv, JobInv
  <2>3. pc[p] = "waiting" /\ step[p] \in Step
    BY <2>1, <2>2 DEF StreamInv, RunInv, InRecovery, TypeInv, ControlInv
  <2>4. OnBaseline(p)
    BY <2>2, <2>3, StateTypes DEF OnBaseline
  <2>5. Gen[op[p]] = Gen[current] + 1
    BY <2>4 DEF ExclusiveInv, ProcInv, GenerationInv
  <2>6. GenerationOf(op[p]) = Gen[op[p]] /\ GenerationOf(current) = Gen[current]
    BY <2>2, GenTypes, StateTypes
  <2> QED
    BY <2>2, <2>5, <2>6
<1> QED
  BY <1>1, ExclusiveInvHolds, PTL

\* current.json changes hands in one task of the state role, and in no other step.
LEMMA WhoWritesCurrent ==
  TypeInv /\ [Next]_vars => UNCHANGED current \/ \E p \in Proc : WriteCurrent(p)
<1> SUFFICES ASSUME TypeInv, [Next]_vars
             PROVE  UNCHANGED current \/ \E p \in Proc : WriteCurrent(p)
  OBVIOUS
<1>1. CASE ExpireLease \/ UNCHANGED vars
  BY <1>1 DEF ExpireLease, stateDir, vars
<1>2. ASSUME NEW p \in Proc,
           StartFresh(p) \/ StartResume(p) \/ AcquireLease(p) \/ LeaseBusy(p) \/ NoticeLoss(p)
     PROVE  UNCHANGED current
  BY <1>2, StartFreshEffect, StartResumeEffect, AcquireLeaseEffect, LeaseBusyEffect,
      NoticeLossEffect
<1>3. ASSUME NEW p \in Proc,
           CreateLockAndJournal(p) \/ Recheck(p) \/ ReadLock(p) \/ ReadOperation(p) \/ Decide(p)
     PROVE  UNCHANGED current
  BY <1>3, CreateLockAndJournalEffect, RecheckEffect, ReadLockEffect, ReadOperationEffect,
      DecideEffect
<1>4. ASSUME NEW p \in Proc,
           \/ AppendStarted(p) \/ Dispatch(p) \/ DispatchEnds(p)
           \/ AppendSucceeded(p) \/ AppendFailed(p)
     PROVE  UNCHANGED current
  BY <1>4, AppendStartedEffect, DispatchEffect, DispatchEndsEffect, AppendSucceededEffect,
      AppendFailedEffect
<1>5. ASSUME NEW p \in Proc,
           \/ WriteJournalFailed(p) \/ ReadSnapshot(p) \/ ReadPointers(p)
           \/ Redispatch(p) \/ Reverify(p)
     PROVE  UNCHANGED current
  BY <1>5, WriteJournalFailedEffect, ReadSnapshotEffect, ReadPointersEffect, RedispatchEffect,
      ReverifyEffect
<1>6. ASSUME NEW p \in Proc,
           WriteJournalSucceeded(p) \/ ReleaseLock(p) \/ ReleaseLease(p) \/ Abort(p) \/ Crash(p)
     PROVE  UNCHANGED current
  BY <1>6, WriteJournalSucceededEffect, ReleaseLockEffect, ReleaseLeaseEffect, AbortEffect,
      CrashEffect
<1>7. ASSUME NEW p \in Proc,
           RunRole(p) \/ StatSnapshot(p) \/ PublishSnapshot(p) \/ WriteTopology(p) \/ FailRole(p)
     PROVE  UNCHANGED current
  BY <1>7, RunRoleEffect, StatSnapshotEffect, PublishSnapshotEffect, WriteTopologyEffect,
      FailRoleEffect
<1> QED
  BY <1>1, <1>2, <1>3, <1>4, <1>5, <1>6, <1>7
  DEF Next, RunUnderLease, FreshRun, ResumeRun, DispatchLoop, RecoverCommit, EndRun, Role

\* commitGenerationFor() and the recheck, without late clients and orphaned roles:
\* an installation goes from one generation to the next, and never back.
THEOREM GenerationsAdvanceByOneHolds ==
  ASSUME ~CanStall, ~JobsOutlive
  PROVE  Spec => GenerationsAdvanceByOne
<1>1. TypeInv /\ StreamInv /\ ExclusiveInv /\ [Next]_vars =>
        [current' # current => GenerationOf(current') = GenerationOf(current) + 1]_vars
  <2> SUFFICES ASSUME TypeInv, StreamInv, ExclusiveInv, NEW p \in Proc, WriteCurrent(p),
                      current' # current
               PROVE  GenerationOf(current') = GenerationOf(current) + 1
    BY WhoWritesCurrent
  <2> DEFINE o == job[p].op
  <2>1. /\ job[p].at = "current" /\ current' = o
    BY WriteCurrentEffect
  <2>2. o \in Proc /\ lock = o /\ journal[o].status # "absent"
    <3>1. pc[p] \in {"waiting", "rewaiting"} /\ lock = op[p]
      BY <2>1 DEF ExclusiveInv, ProcInv, OwnerInv, JobRunning, Locked
    <3>2. o = op[p] /\ o \in Proc /\ journal[op[p]].status # "absent"
      BY <2>1, <3>1 DEF StreamInv, RunInv, JobInv, Working
    <3> QED
      BY <3>1, <3>2
  <2>3. snapshot[Gen[o]] = o
    BY <2>1 DEF ExclusiveInv, ProcInv, StateRoleInv
  <2>4. /\ Gen[o] >= 1 /\ Gen[o] <= Gen[current] + 1 /\ Gen[current] <= Gen[o]
        /\ current # None => snapshot[Gen[current]] = current
    BY <2>2, <2>3, StateTypes DEF ExclusiveInv, StateDirInv
  <2>5. /\ Gen[o] \in Nat /\ Gen[current] \in Nat /\ Gen[None] = 0
        /\ GenerationOf(o) = Gen[o] /\ GenerationOf(current) = Gen[current]
    BY <2>2, GenTypes, StateTypes
  <2> HIDE DEF o
  <2>6. Gen[o] # Gen[current]
    BY <2>1, <2>3, <2>4, <2>5
  <2> QED
    BY <2>1, <2>4, <2>5, <2>6
<1> QED
  BY <1>1, ExclusiveInvHolds, PTL DEF Spec, GenerationsAdvanceByOne
=============================================================================
