------------------------- MODULE ApplyStreamProofs -------------------------
(***************************************************************************)
(* Proofs about the event streams of Apply, for any number of invocations, *)
(* steps, generations and faults, with late clients and orphaned roles: no *)
(* role but state runs twice in an operation, every stream stays readable, *)
(* and nothing is committed before all other steps ran.                    *)
(***************************************************************************)
EXTENDS ApplyProofs

-----------------------------------------------------------------------------
(* The readers of StepResumption on the streams that the dispatch loop     *)
(* writes, of any length: each step has its start at an odd position and   *)
(* its resolution right after it.                                          *)

StreamEvent == [step : Nat, attempt : {1}, phase : Phase]
Stream == Seq(StreamEvent)

\* One attempt per step, steps in plan order, nothing after a failure.
Dispatched(stream) ==
  \A i \in DOMAIN stream :
    LET e == stream[i]
    IN  \/ i = 2 * e.step - 1 /\ e.phase = "started"
        \/ i = 2 * e.step /\ e.phase = "succeeded"
        \/ i = 2 * e.step /\ e.phase = "failed" /\ i = Len(stream)

\* Sequences as functions of their positions, whatever they hold.
LEMMA SeqPositions ==
  ASSUME NEW S, NEW x \in Seq(S)
  PROVE  /\ Len(x) \in Nat /\ DOMAIN x = 1..Len(x)
         /\ \A i \in DOMAIN x : x[i] \in S
OBVIOUS

LEMMA SeqPrefix ==
  ASSUME NEW S, NEW x \in Seq(S), NEW n \in 0..Len(x)
  PROVE  /\ SubSeq(x, 1, n) \in Seq(S)
         /\ Len(SubSeq(x, 1, n)) = n
         /\ \A i \in 1..n : SubSeq(x, 1, n)[i] = x[i]
OBVIOUS

\* Streams as functions of their positions.
LEMMA StreamFacts ==
  ASSUME NEW stream \in Stream
  PROVE  /\ Len(stream) \in Nat /\ DOMAIN stream = 1..Len(stream)
         /\ \A i \in DOMAIN stream :
              stream[i].step \in Nat /\ stream[i].attempt = 1 /\ stream[i].phase \in Phase
<1>1. Len(stream) \in Nat /\ DOMAIN stream = 1..Len(stream)
  BY DEF Stream
<1>2. \A i \in DOMAIN stream : stream[i] \in StreamEvent
  BY SeqPositions DEF Stream
<1> QED
  BY <1>1, <1>2 DEF StreamEvent

\* What an event's place says about it.
LEMMA PlaceOfEvent ==
  ASSUME NEW stream \in Stream, Dispatched(stream), NEW i \in DOMAIN stream
  PROVE  /\ stream[i].step \in Nat /\ i \in Nat
         /\ \/ i = 2 * stream[i].step - 1 /\ stream[i].phase = "started"
            \/ i = 2 * stream[i].step /\ stream[i].phase = "succeeded"
            \/ i = 2 * stream[i].step /\ stream[i].phase = "failed" /\ i = Len(stream)
<1>1. i \in Nat /\ stream[i].step \in Nat
  BY StreamFacts
<1> QED
  BY <1>1 DEF Dispatched

\* Where the events of a step are in such a stream.
LEMMA PositionsOfStep ==
  ASSUME NEW stream \in Stream, Dispatched(stream), NEW s \in Nat \ {0}
  PROVE  /\ Len(stream) < 2 * s - 1 => EventsOf(stream, s) = {}
         /\ Len(stream) = 2 * s - 1 =>
              EventsOf(stream, s) = {2 * s - 1} /\ stream[2 * s - 1].phase = "started"
         /\ Len(stream) >= 2 * s =>
              /\ EventsOf(stream, s) = {2 * s - 1, 2 * s}
              /\ stream[2 * s - 1].phase = "started"
              /\ stream[2 * s].phase \in {"succeeded", "failed"}
<1>1. \A i \in DOMAIN stream : stream[i].step = s => i = 2 * s - 1 \/ i = 2 * s
  BY PlaceOfEvent
<1>2. 2 * s - 1 \in DOMAIN stream =>
        stream[2 * s - 1].step = s /\ stream[2 * s - 1].phase = "started"
  BY PlaceOfEvent
<1>3. 2 * s \in DOMAIN stream =>
        stream[2 * s].step = s /\ stream[2 * s].phase \in {"succeeded", "failed"}
  BY PlaceOfEvent
<1>4. DOMAIN stream = 1..Len(stream) /\ Len(stream) \in Nat
  BY DEF Stream
<1> QED
  BY <1>1, <1>2, <1>3, <1>4 DEF EventsOf

\* decideStepResumption() on such a stream: by how many events it has.
LEMMA DecisionOfDispatched ==
  ASSUME NEW stream \in Stream, Dispatched(stream), NEW s \in Nat \ {0}
  PROVE  /\ Len(stream) < 2 * s - 1 => DecideStepResumption(stream, s) = "run"
         /\ Len(stream) = 2 * s - 1 => DecideStepResumption(stream, s) = "blocked"
         /\ Len(stream) >= 2 * s /\ stream[2 * s].phase = "succeeded" =>
              DecideStepResumption(stream, s) = "skip"
         /\ Len(stream) >= 2 * s /\ stream[2 * s].phase = "failed" =>
              DecideStepResumption(stream, s) = "failed"
<1> DEFINE at == EventsOf(stream, s)
<1>0. Len(stream) \in Nat /\ DOMAIN stream = 1..Len(stream)
  BY DEF Stream
<1>1. \A i \in at : i \in DOMAIN stream /\ stream[i].attempt = 1
  BY StreamFacts DEF EventsOf
<1>2. at # {} => Attempts(stream, at) = {1}
  BY <1>1 DEF Attempts
<1>3. at # {} => AttemptsInOrder(stream, at)
  BY <1>1, <1>2 DEF AttemptsInOrder
<1>4. {i \in at : stream[i].attempt = 1} = at
  BY <1>1
<1>5. CASE Len(stream) < 2 * s - 1
  BY <1>5, PositionsOfStep, <1>0 DEF DecideStepResumption
<1>6. CASE Len(stream) = 2 * s - 1
  <2>1. at = {2 * s - 1} /\ stream[2 * s - 1].phase = "started"
    BY <1>6, PositionsOfStep
  <2>2. AttemptWellFormed(stream, at, 1)
    <3> HIDE DEF at
    <3>1. 2 * s - 1 \in at /\ 1 + 1 \notin Attempts(stream, at)
      BY <1>2, <2>1
    <3> QED
      BY <1>4, <2>1, <3>1 DEF AttemptWellFormed
  <2>3. ~EndsIn(stream, at, "succeeded") /\ ~EndsIn(stream, at, "failed")
    BY <2>1 DEF EndsIn
  <2> HIDE DEF at
  <2>4. DecideStepResumption(stream, s) = "blocked"
    BY <1>2, <1>3, <2>1, <2>2, <2>3 DEF DecideStepResumption, at
  <2> QED
    BY <1>6, <2>4, <1>0
<1>7. CASE Len(stream) >= 2 * s
  <2>1. /\ at = {2 * s - 1, 2 * s}
        /\ stream[2 * s - 1].phase = "started"
        /\ stream[2 * s].phase \in {"succeeded", "failed"}
    BY <1>7, PositionsOfStep
  <2>2. AttemptWellFormed(stream, at, 1)
    <3> HIDE DEF at
    <3>1. /\ 2 * s - 1 \in at /\ 2 * s \in at /\ 2 * s - 1 < 2 * s
          /\ 1 + 1 \notin Attempts(stream, at)
      BY <1>2, <2>1
    <3> QED
      BY <1>4, <2>1, <3>1 DEF AttemptWellFormed
  <2>3. \A ph \in {"succeeded", "failed"} : EndsIn(stream, at, ph) <=> stream[2 * s].phase = ph
    BY <2>1 DEF EndsIn
  <2> HIDE DEF at
  <2>4. DecideStepResumption(stream, s) =
          IF stream[2 * s].phase = "succeeded" THEN "skip" ELSE "failed"
    BY <1>2, <1>3, <2>1, <2>2, <2>3 DEF DecideStepResumption, at
  <2> QED
    BY <1>7, <2>1, <2>4, <1>0
<1> QED
  BY <1>5, <1>6, <1>7, <1>0

\* The other way round: what each outcome says of the stream.
LEMMA DispatchedDecisions ==
  ASSUME NEW stream \in Stream, Dispatched(stream), NEW s \in Nat \ {0}
  PROVE  LET outcome == DecideStepResumption(stream, s)
         IN  /\ outcome = "run" => Len(stream) < 2 * s - 1
             /\ outcome = "blocked" => Len(stream) = 2 * s - 1
             /\ outcome = "skip" => Len(stream) >= 2 * s /\ stream[2 * s].phase = "succeeded"
             /\ outcome = "failed" => Len(stream) >= 2 * s /\ stream[2 * s].phase = "failed"
             /\ outcome # "corrupted"
<1> DEFINE outcome == DecideStepResumption(stream, s)
<1> HIDE DEF outcome
<1>1. Len(stream) \in Nat
  BY StreamFacts
<1>2. Len(stream) >= 2 * s => stream[2 * s].phase \in {"succeeded", "failed"}
  BY PositionsOfStep
<1>3. /\ Len(stream) < 2 * s - 1 => outcome = "run"
      /\ Len(stream) = 2 * s - 1 => outcome = "blocked"
      /\ Len(stream) >= 2 * s /\ stream[2 * s].phase = "succeeded" => outcome = "skip"
      /\ Len(stream) >= 2 * s /\ stream[2 * s].phase = "failed" => outcome = "failed"
  BY DecisionOfDispatched DEF outcome
<1>4. /\ outcome = "run" => Len(stream) < 2 * s - 1
      /\ outcome = "blocked" => Len(stream) = 2 * s - 1
      /\ outcome = "skip" => Len(stream) >= 2 * s /\ stream[2 * s].phase = "succeeded"
      /\ outcome = "failed" => Len(stream) >= 2 * s /\ stream[2 * s].phase = "failed"
      /\ outcome # "corrupted"
  BY <1>1, <1>2, <1>3
<1> QED
  BY <1>4 DEF outcome

\* Every prefix of such a stream is such a stream.
LEMMA DispatchedPrefix ==
  ASSUME NEW stream \in Stream, Dispatched(stream), NEW n \in 0..Len(stream)
  PROVE  /\ SubSeq(stream, 1, n) \in Stream
         /\ Len(SubSeq(stream, 1, n)) = n
         /\ \A i \in 1..n : SubSeq(stream, 1, n)[i] = stream[i]
         /\ Dispatched(SubSeq(stream, 1, n))
<1>1. Len(stream) \in Nat /\ DOMAIN stream = 1..Len(stream) /\ n \in Nat /\ n <= Len(stream)
  BY DEF Stream
<1>2. SubSeq(stream, 1, n) \in Stream
  BY SeqPrefix DEF Stream
<1>3. Len(SubSeq(stream, 1, n)) = n /\ DOMAIN SubSeq(stream, 1, n) = 1..n
  BY <1>1, SeqPrefix DEF Stream
<1>4. \A i \in 1..n : SubSeq(stream, 1, n)[i] = stream[i]
  BY SeqPrefix DEF Stream
<1>5. Dispatched(SubSeq(stream, 1, n))
  BY <1>1, <1>3, <1>4 DEF Dispatched, Stream
<1> QED
  BY <1>2, <1>3, <1>4, <1>5

\* readAndValidateEvents() accepts it, and no step of it looks corrupted.
LEMMA DispatchedIsReadable ==
  ASSUME NEW stream \in Stream, Dispatched(stream)
  PROVE  /\ ReadAndValidateEvents(stream)
         /\ \A s \in Nat \ {0} : DecideStepResumption(stream, s) # "corrupted"
<1>0. Len(stream) \in Nat /\ DOMAIN stream = 1..Len(stream)
  BY DEF Stream
<1>1. ASSUME NEW s \in Nat \ {0} PROVE DecideStepResumption(stream, s) # "corrupted"
  BY DispatchedDecisions
<1>2. ASSUME NEW i \in DOMAIN stream
      PROVE  LET open == IF i = 1 THEN 0 ELSE stream[i - 1].step
             IN  \/ i > 1 /\ stream[i].step = open
                 \/ /\ stream[i].step = open + 1
                    /\ open >= 1 => DecideStepResumption(SubSeq(stream, 1, i - 1), open) = "skip"
  <2>1. stream[i].step \in Nat /\ (i = 2 * stream[i].step - 1 \/ i = 2 * stream[i].step)
    BY PlaceOfEvent
  <2>2. CASE i = 1
    BY <2>1, <2>2
  <2>3. CASE i > 1
    <3> DEFINE open == stream[i - 1].step
    <3>1. /\ i - 1 \in DOMAIN stream /\ open \in Nat
          /\ \/ i - 1 = 2 * open - 1 /\ stream[i - 1].phase = "started"
             \/ i - 1 = 2 * open /\ stream[i - 1].phase = "succeeded"
      <4>1. i - 1 \in DOMAIN stream /\ i - 1 # Len(stream)
        BY <2>3, <1>0
      <4> QED
        BY <4>1, PlaceOfEvent
    <3>2. CASE i - 1 = 2 * open - 1
      BY <2>1, <2>3, <3>1, <3>2
    <3>3. CASE i - 1 = 2 * open /\ stream[i - 1].phase = "succeeded"
      <4>1. stream[i].step = open + 1 /\ open \in Nat \ {0}
        BY <2>1, <2>3, <3>1, <3>3, <1>0
      <4>2. i - 1 \in 0..Len(stream)
        BY <2>3, <1>0
      <4>3. /\ SubSeq(stream, 1, i - 1) \in Stream /\ Dispatched(SubSeq(stream, 1, i - 1))
            /\ Len(SubSeq(stream, 1, i - 1)) = 2 * open
            /\ SubSeq(stream, 1, i - 1)[2 * open].phase = "succeeded"
        BY <2>3, <3>3, <4>1, <4>2, <1>0, DispatchedPrefix
      <4>4. DecideStepResumption(SubSeq(stream, 1, i - 1), open) = "skip"
        <5> DEFINE prefix == SubSeq(stream, 1, i - 1)
        <5> HIDE DEF prefix
        <5>1. prefix \in Stream /\ Dispatched(prefix) /\ Len(prefix) = 2 * open
              /\ prefix[2 * open].phase = "succeeded"
          BY <4>3 DEF prefix
        <5>2. DecideStepResumption(prefix, open) = "skip"
          BY <4>1, <5>1, DecisionOfDispatched
        <5> QED
          BY <5>2 DEF prefix
      <4> QED
        BY <2>3, <4>1, <4>4
    <3> QED
      BY <3>1, <3>2, <3>3
  <2> QED
    BY <2>2, <2>3, <1>0
<1> QED
  BY <1>1, <1>2 DEF ReadAndValidateEvents

\* The next step starts after a success, or as the first one.
LEMMA DispatchedStarts ==
  ASSUME NEW stream \in Stream, Dispatched(stream), NEW s \in Nat \ {0},
         Len(stream) = 2 * s - 2, s > 1 => stream[2 * s - 2].phase = "succeeded"
  PROVE  Dispatched(Append(stream, BuildEvent(s, 1, "started")))
<1> DEFINE longer == Append(stream, BuildEvent(s, 1, "started"))
<1>1. /\ Len(longer) = Len(stream) + 1 /\ DOMAIN longer = 1..(Len(stream) + 1)
      /\ \A i \in 1..Len(stream) : longer[i] = stream[i]
      /\ longer[Len(stream) + 1] = BuildEvent(s, 1, "started")
  BY DEF Stream, BuildEvent, Phase
<1>2. Len(stream) \in Nat /\ DOMAIN stream = 1..Len(stream)
  BY DEF Stream
<1>3. ASSUME NEW i \in 1..Len(stream)
      PROVE  \/ i = 2 * stream[i].step - 1 /\ stream[i].phase = "started"
             \/ i = 2 * stream[i].step /\ stream[i].phase = "succeeded"
  <2>1. i \in DOMAIN stream
    BY <1>2
  <2> QED
    BY <2>1, PlaceOfEvent
<1> QED
  BY <1>1, <1>2, <1>3 DEF Dispatched, BuildEvent

\* The open step is resolved.
LEMMA DispatchedResolves ==
  ASSUME NEW stream \in Stream, Dispatched(stream), NEW s \in Nat \ {0},
         Len(stream) = 2 * s - 1, NEW ph \in {"succeeded", "failed"}
  PROVE  Dispatched(Append(stream, BuildEvent(s, 1, ph)))
<1> DEFINE longer == Append(stream, BuildEvent(s, 1, ph))
<1>1. /\ Len(longer) = Len(stream) + 1 /\ DOMAIN longer = 1..(Len(stream) + 1)
      /\ \A i \in 1..Len(stream) : longer[i] = stream[i]
      /\ longer[Len(stream) + 1] = BuildEvent(s, 1, ph)
  BY DEF Stream, BuildEvent, Phase
<1>2. Len(stream) \in Nat /\ DOMAIN stream = 1..Len(stream)
  BY DEF Stream
<1>3. ASSUME NEW i \in 1..Len(stream)
      PROVE  \/ i = 2 * stream[i].step - 1 /\ stream[i].phase = "started"
             \/ i = 2 * stream[i].step /\ stream[i].phase = "succeeded"
  <2>1. i \in DOMAIN stream
    BY <1>2
  <2> QED
    BY <2>1, PlaceOfEvent
<1> QED
  BY <1>1, <1>2, <1>3 DEF Dispatched, BuildEvent

-----------------------------------------------------------------------------
(* The streams of Apply.                                                   *)

Working == {"loop", "starting", "dispatch", "waiting", "succeeding", "failing", "recover",
            "pointers", "redispatch", "rewaiting", "reverify"}
InStep == {"dispatch", "waiting", "succeeding", "failing", "recover", "pointers", "redispatch",
           "rewaiting", "reverify"}
InRecovery == {"recover", "pointers", "redispatch", "rewaiting", "reverify"}

\* The events up to step s - 1 are there, all of them successes, and no more.
ReachedStep(o, s) ==
  /\ Len(events[o]) = 2 * s - 2
  /\ s > 1 => events[o][2 * s - 2].phase = "succeeded"

\* Step s has its started event.
Opened(o, s) == Len(events[o]) >= 2 * s - 1

\* What an invocation knows at each point, its lease lost or not: its operation
\* has a journal, its copy of the events is an earlier state of the stream, the
\* step it is in was opened, and a role it saw succeed ran to its end.
RunInv(p) ==
  /\ mode[p] = "fresh" /\ pc[p] \in {"leasing", "leased"} => journal[p].status = "absent"
  /\ pc[p] = "locked" => op[p] = p /\ journal[p].status # "absent"
  /\ pc[p] \in Working \/ pc[p] \in {"failed", "finishing"} => journal[op[p]].status # "absent"
  /\ pc[p] \in {"idle", "leasing", "leased", "locked", "reading"} => view[p] = <<>>
  /\ pc[p] \in Working => Len(view[p]) <= Len(events[op[p]])
  /\ pc[p] \in InStep => Opened(op[p], step[p])
  /\ pc[p] \in InRecovery => step[p] = Commit
  /\ pc[p] \in {"waiting", "rewaiting"} => job[p].op = op[p] /\ job[p].step = step[p]
  /\ pc[p] = "succeeding" /\ step[p] # Commit => step[p] \in done[op[p]]
  /\ Dispatched(view[p])

\* What the invocation that holds the lease knows beyond that: where exactly the
\* stream that it alone extends ends.
LeaseInv(p) ==
  holder = p =>
    /\ pc[p] # "leasing"
    /\ pc[p] = "locked" => events[p] = <<>>
    /\ pc[p] = "loop" =>
         \/ Len(view[p]) >= 2 * step[p] - 1 /\ events[op[p]] = view[p]
         \/ Len(view[p]) < 2 * step[p] - 1 /\ ReachedStep(op[p], step[p])
    /\ pc[p] = "starting" => ReachedStep(op[p], step[p])
    /\ pc[p] \in InStep => Len(events[op[p]]) = 2 * step[p] - 1

\* What holds of a role, its invocation alive or not.
JobInv(p) ==
  /\ job[p].at # "none" => job[p].op \in Proc
  /\ job[p].at = "run" => job[p].step # Commit
  /\ job[p].at = "ok" /\ job[p].step # Commit => job[p].step \in done[job[p].op]
  /\ job[p].at \in {"stat", "publish", "topology", "current"} =>
       job[p].step = Commit /\ Opened(job[p].op, Commit)

\* What holds of the target's files.
FilesInv ==
  /\ \A o \in Proc :
       /\ Dispatched(events[o])
       /\ journal[o].status = "absent" => events[o] = <<>>
       /\ \A s \in Step \ {Commit} :
            Len(events[o]) >= 2 * s /\ events[o][2 * s].phase = "succeeded" => s \in done[o]
       /\ topology = o \/ current = o => Opened(o, Commit)
  /\ \A g \in Generation : snapshot[g] \in Proc => Opened(snapshot[g], Commit)

\* A dispatch follows the started event of its step, which only one invocation
\* ever wrote and acts on.
DispatchInv ==
  /\ \A o \in Proc : \A s \in Step :
       /\ ~Opened(o, s) => dispatches[o][s] = 0
       /\ s # Commit => dispatches[o][s] <= 1
  /\ \A p \in Proc : pc[p] = "dispatch" =>
       /\ step[p] # Commit => dispatches[op[p]][step[p]] = 0
       /\ \A q \in Proc : pc[q] = "dispatch" /\ op[q] = op[p] /\ step[q] = step[p] => q = p

StreamInv ==
  /\ \A p \in Proc : RunInv(p) /\ LeaseInv(p) /\ JobInv(p)
  /\ FilesInv /\ DispatchInv

\* The types these proofs use.
LEMMA StreamTypes ==
  ASSUME TypeInv
  PROVE  /\ NSteps \in Nat \ {0} /\ Step = 1..NSteps /\ Commit = NSteps /\ None \notin Proc
         /\ holder \in Proc \cup {None} /\ lock \in Proc \cup {None}
         /\ journal \in [Proc -> [status : Status, generation : 0..MaxGeneration]]
         /\ events \in [Proc -> Stream] /\ view \in [Proc -> Stream]
         /\ done \in [Proc -> SUBSET Step]
         /\ dispatches \in [Proc -> [Step -> Nat]]
         /\ pc \in [Proc -> PC]
         /\ mode \in [Proc -> {"none", "fresh", "resume"}]
         /\ op \in [Proc -> Proc \cup {None}]
         /\ step \in [Proc -> 0..(NSteps + 1)]
         /\ lost \in [Proc -> BOOLEAN]
         /\ job \in [Proc -> [op : Proc \cup {None}, step : 0..NSteps, at : JobAt]]
         /\ snapshot \in [Generation -> Op \cup {None}]
         /\ \A o \in Proc : Len(events[o]) \in Nat /\ Len(view[o]) \in Nat
<1>1. Seq(Event) \subseteq Stream
  <2>1. Event \subseteq StreamEvent
    BY DEF Event, StreamEvent, Step
  <2> HIDE DEF Event, StreamEvent
  <2> QED
    BY <2>1 DEF Stream
<1>2. \A o \in Proc : events[o] \in Stream /\ view[o] \in Stream
  BY <1>1 DEF TypeInv, TypeOK
<1>3. \A o \in Proc : Len(events[o]) \in Nat /\ Len(view[o]) \in Nat
  BY <1>2, StreamFacts
<1>4. events \in [Proc -> Stream] /\ view \in [Proc -> Stream]
  BY <1>1 DEF TypeInv, TypeOK
<1> QED
  BY <1>3, <1>4, ApplyAssumption DEF TypeInv, TypeOK, Step, Commit

\* Streams have lengths, before a step and after it.
LEMMA StreamLengths ==
  ASSUME TypeInv
  PROVE  \A o \in Proc : Len(events[o]) \in Nat /\ Len(view[o]) \in Nat
BY StreamTypes

\* A fresh target satisfies the invariant.
LEMMA InitStreamInv == Init => StreamInv
<1> SUFFICES ASSUME Init PROVE StreamInv
  OBVIOUS
<1>0. TypeInv
  BY InitTypeInv
<1>1. \A p \in Proc : /\ pc[p] = "idle" /\ mode[p] = "none" /\ job[p].at = "none"
                      /\ events[p] = <<>> /\ view[p] = <<>> /\ holder # p
                      /\ Len(events[p]) = 0
                      /\ \A s \in Step : dispatches[p][s] = 0
  BY ApplyAssumption DEF Init, NoJob
<1>2. \A p \in Proc : Dispatched(events[p]) /\ Dispatched(view[p])
  BY <1>1 DEF Dispatched
<1>3. \A p \in Proc : RunInv(p) /\ LeaseInv(p)
  BY <1>1, <1>2 DEF RunInv, LeaseInv, Working, InStep, InRecovery
<1>4. \A p \in Proc : JobInv(p)
  BY <1>1 DEF JobInv
<1>5. FilesInv
  <2>1. \A g \in Generation : snapshot[g] \notin Proc
    BY ApplyAssumption DEF Init
  <2>2. topology \notin Proc /\ current \notin Proc
    BY ApplyAssumption DEF Init
  <2>3. \A o \in Proc : \A s \in Step \ {Commit} : ~(Len(events[o]) >= 2 * s)
    BY <1>1, ApplyAssumption DEF Step, Commit
  <2> QED
    BY <1>1, <1>2, <2>1, <2>2, <2>3 DEF FilesInv
<1>6. DispatchInv
  BY <1>1 DEF DispatchInv
<1> QED
  BY <1>3, <1>4, <1>5, <1>6 DEF StreamInv

\* Appending to a stream: one event more, the others as they were.
LEMMA AppendGrows ==
  ASSUME TypeInv, NEW o \in Proc, NEW s \in Step, NEW ph \in Phase, AppendEvent(o, s, ph)
  PROVE  /\ Len(events'[o]) = Len(events[o]) + 1
         /\ \A i \in 1..Len(events[o]) : events'[o][i] = events[o][i]
         /\ events'[o][Len(events[o]) + 1].phase = ph
         /\ events'[o] = Append(events[o], BuildEvent(s, 1, ph))
         /\ \A q \in Proc \ {o} : events'[q] = events[q]
<1>1. /\ events \in [Proc -> Stream] /\ events[o] \in Stream /\ Len(events[o]) \in Nat
      /\ BuildEvent(s, 1, ph) \in StreamEvent
  BY StreamTypes, ApplyAssumption DEF BuildEvent, StreamEvent, Step
<1>2. events'[o] = Append(events[o], BuildEvent(s, 1, ph))
      /\ \A q \in Proc \ {o} : events'[q] = events[q]
  BY <1>1 DEF AppendEvent
<1>3. BuildEvent(s, 1, ph).phase = ph
  BY DEF BuildEvent
<1> DEFINE e == BuildEvent(s, 1, ph)
<1> HIDE DEF e, StreamEvent
<1>4. /\ Len(Append(events[o], e)) = Len(events[o]) + 1
      /\ \A i \in 1..Len(events[o]) : Append(events[o], e)[i] = events[o][i]
      /\ Append(events[o], e)[Len(events[o]) + 1] = e
  BY <1>1 DEF Stream, e
<1> QED
  BY <1>2, <1>3, <1>4 DEF e

-----------------------------------------------------------------------------
(* What an invocation relies on while others take steps.                   *)

\* No step takes back a journal, an event or the effect of a role.
Grows ==
  \A o \in Proc :
    /\ journal[o].status # "absent" => journal'[o].status # "absent"
    /\ Len(events[o]) <= Len(events'[o])
    /\ done[o] \subseteq done'[o]

\* A step of somebody else: what q remembers is its own, and while q holds the
\* lease the streams are its own too.
Rely(q) ==
  /\ mode'[q] = mode[q] /\ pc'[q] = pc[q] /\ op'[q] = op[q] /\ step'[q] = step[q]
  /\ view'[q] = view[q] /\ job'[q].op = job[q].op /\ job'[q].step = job[q].step
  /\ mode[q] = "fresh" /\ pc[q] \in {"leasing", "leased"} => journal'[q] = journal[q]
  /\ holder' = q => holder = q /\ events' = events

\* An invocation's knowledge survives the steps of the others.
LEMMA RunStable ==
  ASSUME TypeInv, TypeInv', Grows, NEW q \in Proc, RunInv(q), LeaseInv(q), Rely(q)
  PROVE  RunInv(q)' /\ LeaseInv(q)'
<1>1. /\ pc[q] \in Working \/ pc[q] \in {"failed", "finishing"} => op[q] \in Proc
      /\ step[q] \in Nat
  <2>1. pc[q] \in Working \/ pc[q] \in {"failed", "finishing"} => op[q] \in Proc
    BY DEF TypeInv, ControlInv, Working
  <2>2. step[q] \in 0..(NSteps + 1)
    BY StreamTypes
  <2> QED
    BY <2>1, <2>2
<1>2. \A o \in Proc : /\ Len(events[o]) \in Nat /\ Len(events'[o]) \in Nat
                      /\ Len(view[o]) \in Nat
  <2>1. \A o \in Proc : Len(events[o]) \in Nat /\ Len(view[o]) \in Nat
    BY StreamLengths
  <2>2. (\A o \in Proc : Len(events[o]) \in Nat /\ Len(view[o]) \in Nat)'
    BY StreamLengths
  <2> QED
    BY <2>1, <2>2
<1>3. pc[q] \in InStep => pc[q] \in Working
  BY DEF InStep, Working
<1>4. pc[q] = "succeeding" => pc[q] \in Working
  BY DEF Working
<1>5. RunInv(q)'
  BY <1>1, <1>2, <1>3, <1>4 DEF RunInv, Rely, Grows, Opened
<1>6. LeaseInv(q)'
  BY DEF LeaseInv, Rely, ReachedStep
<1> QED
  BY <1>5, <1>6

\* So does what is known of a role that does not move.
LEMMA JobStable ==
  ASSUME TypeInv, TypeInv', Grows, NEW q \in Proc, JobInv(q), job'[q] = job[q] \/ job'[q] = NoJob
  PROVE  JobInv(q)'
<1>1. CASE job'[q] = NoJob
  BY <1>1 DEF JobInv, NoJob
<1>2. CASE job'[q] = job[q]
  <2>1. \A o \in Proc : Len(events[o]) \in Nat /\ Len(events'[o]) \in Nat
    <3>1. \A o \in Proc : Len(events[o]) \in Nat
      BY StreamLengths
    <3>2. (\A o \in Proc : Len(events[o]) \in Nat /\ Len(view[o]) \in Nat)'
      BY StreamLengths
    <3> QED
      BY <3>1, <3>2
  <2>2. NSteps \in Nat /\ Commit = NSteps
    BY StreamTypes
  <2> QED
    BY <1>2, <2>1, <2>2 DEF JobInv, Opened, Grows
<1> QED
  BY <1>1, <1>2

\* The files of the target, as long as nobody appends an event or commits.
LEMMA FilesStable ==
  ASSUME TypeInv, Grows, FilesInv, UNCHANGED <<events, topology, current, snapshot>>
  PROVE  FilesInv'
BY DEF FilesInv, Grows, Opened

\* One event more in a stream: it keeps the shape, and a success is a role's end.
LEMMA FilesAppend ==
  ASSUME TypeInv, FilesInv, NEW o \in Proc, NEW s \in Step, NEW ph \in Phase,
         AppendEvent(o, s, ph), Dispatched(Append(events[o], BuildEvent(s, 1, ph))),
         journal[o].status # "absent", UNCHANGED <<journal, snapshot, topology, current, done>>,
         ph = "succeeded" =>
           Len(events[o]) = 2 * s - 1 /\ (s # Commit => s \in done[o])
  PROVE  FilesInv'
<1>1. /\ Len(events'[o]) = Len(events[o]) + 1
      /\ \A i \in 1..Len(events[o]) : events'[o][i] = events[o][i]
      /\ events'[o][Len(events[o]) + 1].phase = ph
      /\ events'[o] = Append(events[o], BuildEvent(s, 1, ph))
      /\ \A q \in Proc \ {o} : events'[q] = events[q]
  BY AppendGrows
<1>2. \A q \in Proc : Len(events[q]) \in Nat
  BY StreamTypes
<1>3. NSteps \in Nat \ {0} /\ Step = 1..NSteps /\ Commit = NSteps
  BY StreamTypes
<1>4. \A q \in Proc : /\ Dispatched(events'[q])
                      /\ journal'[q].status = "absent" => events'[q] = <<>>
  BY <1>1 DEF FilesInv
<1>5. \A q \in Proc : Opened(q, Commit) => Opened(q, Commit)'
  <2>1. Commit' = Commit /\ Commit \in Nat \ {0}
    BY <1>3 DEF Commit
  <2>2. \A q \in Proc : Len(events'[q]) = Len(events[q]) \/ Len(events'[q]) = Len(events[q]) + 1
    BY <1>1
  <2>3. \A q \in Proc : Len(events[q]) >= 2 * Commit - 1 => Len(events'[q]) >= 2 * Commit - 1
    BY <1>2, <2>1, <2>2
  <2> QED
    BY <2>1, <2>3 DEF Opened
<1>6. ASSUME NEW t \in Step \ {Commit}, Len(events'[o]) >= 2 * t,
             events'[o][2 * t].phase = "succeeded"
      PROVE  t \in done[o]
  <2>1. t \in Nat \ {0} /\ Len(events[o]) \in Nat /\ s \in Nat
    BY <1>2, <1>3
  <2>2. CASE 2 * t <= Len(events[o])
    BY <1>1, <1>6, <2>1, <2>2 DEF FilesInv
  <2>3. CASE 2 * t = Len(events[o]) + 1
    BY <1>1, <1>6, <2>1, <2>3
  <2>4. 2 * t <= Len(events[o]) \/ 2 * t = Len(events[o]) + 1
    <3>1. Len(events[o]) + 1 >= 2 * t
      BY <1>1, <1>6
    <3> QED
      BY <2>1, <3>1
  <2> QED
    BY <2>2, <2>3, <2>4
<1> QED
  BY <1>1, <1>4, <1>5, <1>6 DEF FilesInv

\* A step that was opened stays opened.
LEMMA OpenedStays ==
  ASSUME TypeInv, TypeInv', Grows
  PROVE  \A o \in Proc : \A s \in Step : ~Opened(o, s)' => ~Opened(o, s)
<1>1. \A o \in Proc : Len(events[o]) \in Nat /\ Len(events'[o]) \in Nat
  BY StreamTypes
<1>2. NSteps \in Nat \ {0} /\ Step = 1..NSteps
  BY StreamTypes
<1> QED
  BY <1>1, <1>2 DEF Opened, Grows

\* The dispatches, as long as nobody is about to start or dispatches a role.
LEMMA DispatchStable ==
  ASSUME TypeInv, TypeInv', Grows, DispatchInv, UNCHANGED dispatches,
         \A q \in Proc : pc'[q] = "dispatch" =>
           pc[q] = "dispatch" /\ op'[q] = op[q] /\ step'[q] = step[q]
  PROVE  DispatchInv'
BY OpenedStays DEF DispatchInv

\* A dispatch: the count of its step goes up, once for any step but the last.
LEMMA DispatchCounts ==
  ASSUME TypeInv, DispatchInv, NEW p \in Proc, op[p] \in Proc, NEW s \in Step,
         DispatchOperation(p, s), UNCHANGED <<events, op, step>>, Opened(op[p], s),
         \A q \in Proc \ {p} : pc'[q] = pc[q], pc'[p] # "dispatch",
         s = Commit \/ (pc[p] = "dispatch" /\ step[p] = s)
  PROVE  DispatchInv'
<1>1. dispatches \in [Proc -> [Step -> Nat]]
  BY StreamTypes
<1>2. /\ dispatches'[op[p]][s] = dispatches[op[p]][s] + 1
      /\ \A o \in Proc, t \in Step :
           o # op[p] \/ t # s => dispatches'[o][t] = dispatches[o][t]
  <2>1. dispatches' = [dispatches EXCEPT ![op[p]] = [dispatches[op[p]] EXCEPT ![s] = @ + 1]]
    BY <1>1 DEF DispatchOperation
  <2>2. dispatches[op[p]] \in [Step -> Nat]
    BY <1>1
  <2> QED
    BY <1>1, <2>1, <2>2
<1>3. \A o \in Proc, t \in Step : Opened(o, t)' <=> Opened(o, t)
  BY DEF Opened
<1>4. s # Commit => dispatches[op[p]][s] = 0
  BY DEF DispatchInv
<1>5. ASSUME NEW o \in Proc, NEW t \in Step
      PROVE  /\ ~Opened(o, t)' => dispatches'[o][t] = 0
             /\ t # Commit => dispatches'[o][t] <= 1
  <2>1. CASE o = op[p] /\ t = s
    BY <1>2, <1>3, <1>4, <2>1
  <2>2. CASE o # op[p] \/ t # s
    BY <1>2, <1>3, <2>2 DEF DispatchInv
  <2> QED
    BY <2>1, <2>2
<1>6. ASSUME NEW q \in Proc, pc'[q] = "dispatch"
      PROVE  /\ step'[q] # Commit => dispatches'[op'[q]][step'[q]] = 0
             /\ \A r \in Proc : pc'[r] = "dispatch" /\ op'[r] = op'[q] /\ step'[r] = step'[q] =>
                  r = q
  <2>1. q # p /\ pc[q] = "dispatch" /\ op[q] \in Proc /\ step[q] \in Step
    BY <1>6 DEF TypeInv, ControlInv
  <2>2. step[q] # Commit => op[q] # op[p] \/ step[q] # s
    BY <2>1 DEF DispatchInv
  <2> QED
    BY <1>2, <1>6, <2>1, <2>2 DEF DispatchInv
<1> QED
  BY <1>5, <1>6 DEF DispatchInv

-----------------------------------------------------------------------------
\* Every action of an invocation or a role keeps the invariant.
LEMMA StreamStep == TypeInv /\ StreamInv /\ [Next]_vars => StreamInv'
<1> SUFFICES ASSUME TypeInv, StreamInv, [Next]_vars PROVE StreamInv'
  OBVIOUS
<1>ty. TypeInv'
  BY TypeStep
<1>inv. /\ \A q \in Proc : RunInv(q) /\ LeaseInv(q) /\ JobInv(q)
        /\ FilesInv /\ DispatchInv
  BY DEF StreamInv
<1>len. \A o \in Proc : Len(events[o]) \in Nat /\ Len(view[o]) \in Nat
  BY StreamTypes
<1>empty. Dispatched(<<>>)
  BY DEF Dispatched
<1>sets. /\ NSteps \in Nat \ {0} /\ Step = 1..NSteps /\ Commit = NSteps /\ None \notin Proc
         /\ step \in [Proc -> 0..(NSteps + 1)]
  BY StreamTypes
<1>done. done \in [Proc -> SUBSET Step]
  BY StreamTypes
<1>op. \A q \in Proc :
         /\ pc[q] \notin {"idle", "leasing", "leased", "exit"} => op[q] \in Proc
         /\ pc[q] \in InStep \/ pc[q] = "starting" => step[q] \in Step
  BY DEF TypeInv, ControlInv, InStep
<1>0. CASE ExpireLease
  <2>1. Grows /\ (\A q \in Proc : Rely(q) /\ job'[q] = job[q])
    BY <1>0, ApplyAssumption, StreamTypes DEF ExpireLease, target, stateDir, procVars, Grows, Rely
  <2>2. FilesInv' /\ DispatchInv'
    BY <1>0, <1>ty, <1>inv, <2>1, FilesStable, DispatchStable
    DEF ExpireLease, target, stateDir, procVars
  <2> QED
    BY <1>ty, <1>inv, <2>1, <2>2, RunStable, JobStable DEF StreamInv
<1>1. ASSUME NEW p \in Proc, StartFresh(p) PROVE StreamInv'
  <2>1. Grows /\ \A q \in Proc \ {p} : Rely(q)
    BY <1>1, <1>len, StartFreshEffect DEF Grows, Rely
  <2>2. RunInv(p)' /\ LeaseInv(p)'
    BY <1>1, <1>inv, <1>op, StartFreshEffect DEF RunInv, LeaseInv, Working, InStep, InRecovery,
        Opened, ReachedStep
  <2>3. \A q \in Proc : job'[q] = job[q] \/ job'[q] = NoJob
    BY <1>1, StartFreshEffect
  <2>4. FilesInv' /\ DispatchInv'
    BY <1>1, <1>ty, <1>inv, <2>1, StartFreshEffect, FilesStable, DispatchStable
  <2> QED
    BY <1>ty, <1>inv, <2>1, <2>2, <2>3, <2>4, RunStable, JobStable DEF StreamInv
<1>2. ASSUME NEW p \in Proc, StartResume(p) PROVE StreamInv'
  <2>1. Grows /\ \A q \in Proc \ {p} : Rely(q)
    BY <1>2, <1>len, StartResumeEffect DEF Grows, Rely
  <2>2. RunInv(p)' /\ LeaseInv(p)'
    BY <1>2, <1>inv, <1>op, StartResumeEffect DEF RunInv, LeaseInv, Working, InStep, InRecovery,
        Opened, ReachedStep
  <2>3. \A q \in Proc : job'[q] = job[q] \/ job'[q] = NoJob
    BY <1>2, StartResumeEffect
  <2>4. FilesInv' /\ DispatchInv'
    BY <1>2, <1>ty, <1>inv, <2>1, StartResumeEffect, FilesStable, DispatchStable
  <2> QED
    BY <1>ty, <1>inv, <2>1, <2>2, <2>3, <2>4, RunStable, JobStable DEF StreamInv
<1>3. ASSUME NEW p \in Proc, AcquireLease(p) PROVE StreamInv'
  <2>1. Grows /\ \A q \in Proc \ {p} : Rely(q)
    BY <1>3, <1>len, AcquireLeaseEffect DEF Grows, Rely
  <2>2. RunInv(p)' /\ LeaseInv(p)'
    BY <1>3, <1>inv, <1>op, AcquireLeaseEffect DEF RunInv, LeaseInv, Working, InStep,
        InRecovery, Opened, ReachedStep
  <2>3. \A q \in Proc : job'[q] = job[q] \/ job'[q] = NoJob
    BY <1>3, AcquireLeaseEffect
  <2>4. FilesInv' /\ DispatchInv'
    BY <1>3, <1>ty, <1>inv, <2>1, AcquireLeaseEffect, FilesStable, DispatchStable
  <2> QED
    BY <1>ty, <1>inv, <2>1, <2>2, <2>3, <2>4, RunStable, JobStable DEF StreamInv
<1>4. ASSUME NEW p \in Proc, LeaseBusy(p) PROVE StreamInv'
  <2>1. Grows /\ \A q \in Proc \ {p} : Rely(q)
    BY <1>4, <1>len, LeaseBusyEffect DEF Grows, Rely
  <2>2. RunInv(p)' /\ LeaseInv(p)'
    BY <1>4, <1>inv, <1>op, LeaseBusyEffect DEF RunInv, LeaseInv, Working, InStep, InRecovery,
        Opened, ReachedStep
  <2>3. \A q \in Proc : job'[q] = job[q] \/ job'[q] = NoJob
    BY <1>4, LeaseBusyEffect
  <2>4. FilesInv' /\ DispatchInv'
    BY <1>4, <1>ty, <1>inv, <2>1, LeaseBusyEffect, FilesStable, DispatchStable
  <2> QED
    BY <1>ty, <1>inv, <2>1, <2>2, <2>3, <2>4, RunStable, JobStable DEF StreamInv
<1>5. ASSUME NEW p \in Proc, NoticeLoss(p) PROVE StreamInv'
  <2>1. Grows /\ \A q \in Proc \ {p} : Rely(q)
    BY <1>5, <1>len, NoticeLossEffect DEF Grows, Rely
  <2>2. RunInv(p)' /\ LeaseInv(p)'
    BY <1>5, <1>inv, <1>op, NoticeLossEffect DEF RunInv, LeaseInv, Working, InStep, InRecovery,
        Opened, ReachedStep
  <2>3. \A q \in Proc : job'[q] = job[q] \/ job'[q] = NoJob
    BY <1>5, NoticeLossEffect
  <2>4. FilesInv' /\ DispatchInv'
    BY <1>5, <1>ty, <1>inv, <2>1, NoticeLossEffect, FilesStable, DispatchStable
  <2> QED
    BY <1>ty, <1>inv, <2>1, <2>2, <2>3, <2>4, RunStable, JobStable DEF StreamInv
<1>6. ASSUME NEW p \in Proc, CreateLockAndJournal(p) PROVE StreamInv'
  <2>1. Grows /\ \A q \in Proc \ {p} : Rely(q)
    <3>1. \A o \in Proc : journal'[o] = journal[o] \/ (o = p /\ journal'[o].status # "absent")
      BY <1>6, CreateLockAndJournalEffect
    <3> QED
      BY <1>6, <1>len, <3>1, CreateLockAndJournalEffect DEF Grows, Rely
  <2>2. RunInv(p)' /\ LeaseInv(p)'
    <3>1. journal[p].status = "absent" /\ events[p] = <<>> /\ view[p] = <<>>
      BY <1>6, <1>inv, CreateLockAndJournalEffect DEF RunInv, FilesInv
    <3>2. pc'[p] = "locked" => op'[p] = p /\ journal'[p].status # "absent"
      BY <1>6, CreateLockAndJournalEffect
    <3>3. pc'[p] \in {"locked", "exit"} /\ UNCHANGED <<events, view>>
      BY <1>6, CreateLockAndJournalEffect
    <3> QED
      BY <1>empty, <3>1, <3>2, <3>3 DEF RunInv, LeaseInv, Working, InStep, InRecovery
  <2>3. \A q \in Proc : job'[q] = job[q] \/ job'[q] = NoJob
    BY <1>6, CreateLockAndJournalEffect
  <2>4. FilesInv' /\ DispatchInv'
    BY <1>6, <1>ty, <1>inv, <2>1, CreateLockAndJournalEffect, FilesStable, DispatchStable
  <2> QED
    BY <1>ty, <1>inv, <2>1, <2>2, <2>3, <2>4, RunStable, JobStable DEF StreamInv
<1>7. ASSUME NEW p \in Proc, Recheck(p) PROVE StreamInv'
  <2>1. Grows /\ \A q \in Proc \ {p} : Rely(q)
    BY <1>7, <1>len, RecheckEffect DEF Grows, Rely
  <2>2. RunInv(p)' /\ LeaseInv(p)'
    BY <1>7, <1>inv, <1>op, RecheckEffect DEF RunInv, LeaseInv, Working, InStep, InRecovery,
        Opened, ReachedStep
  <2>3. \A q \in Proc : job'[q] = job[q] \/ job'[q] = NoJob
    BY <1>7, RecheckEffect
  <2>4. FilesInv' /\ DispatchInv'
    BY <1>7, <1>ty, <1>inv, <2>1, RecheckEffect, FilesStable, DispatchStable
  <2> QED
    BY <1>ty, <1>inv, <2>1, <2>2, <2>3, <2>4, RunStable, JobStable DEF StreamInv
<1>8. ASSUME NEW p \in Proc, ReadLock(p) PROVE StreamInv'
  <2>1. Grows /\ \A q \in Proc \ {p} : Rely(q)
    BY <1>8, <1>len, ReadLockEffect DEF Grows, Rely
  <2>2. RunInv(p)' /\ LeaseInv(p)'
    BY <1>8, <1>inv, <1>op, ReadLockEffect DEF RunInv, LeaseInv, Working, InStep, InRecovery,
        Opened, ReachedStep
  <2>3. \A q \in Proc : job'[q] = job[q] \/ job'[q] = NoJob
    BY <1>8, ReadLockEffect
  <2>4. FilesInv' /\ DispatchInv'
    BY <1>8, <1>ty, <1>inv, <2>1, ReadLockEffect, FilesStable, DispatchStable
  <2> QED
    BY <1>ty, <1>inv, <2>1, <2>2, <2>3, <2>4, RunStable, JobStable DEF StreamInv
<1>9. ASSUME NEW p \in Proc, ReadOperation(p) PROVE StreamInv'
  <2>1. Grows /\ \A q \in Proc \ {p} : Rely(q)
    BY <1>9, <1>len, ReadOperationEffect DEF Grows, Rely
  <2>2. RunInv(p)' /\ LeaseInv(p)'
    <3>1. op[p] \in Proc /\ Dispatched(events[op[p]]) /\ Len(events[op[p]]) \in Nat
      BY <1>9, <1>op, <1>inv, <1>len, ReadOperationEffect DEF FilesInv
    <3>2. /\ pc'[p] \in {"loop", "unlock", "exit"} /\ UNCHANGED <<events, op, journal>>
          /\ view'[p] = events[op[p]] /\ step'[p] = 1
          /\ pc'[p] = "loop" => journal[op[p]].status # "absent"
      BY <1>9, ReadOperationEffect
    <3>3. RunInv(p)'
      BY <3>1, <3>2 DEF RunInv, Working, InStep, InRecovery
    <3>4. LeaseInv(p)'
      BY <3>1, <3>2 DEF LeaseInv, InStep, ReachedStep
    <3> QED
      BY <3>3, <3>4
  <2>3. \A q \in Proc : job'[q] = job[q] \/ job'[q] = NoJob
    BY <1>9, ReadOperationEffect
  <2>4. FilesInv' /\ DispatchInv'
    BY <1>9, <1>ty, <1>inv, <2>1, ReadOperationEffect, FilesStable, DispatchStable
  <2> QED
    BY <1>ty, <1>inv, <2>1, <2>2, <2>3, <2>4, RunStable, JobStable DEF StreamInv
<1>10. ASSUME NEW p \in Proc, Decide(p) PROVE StreamInv'
  <2>1. Grows /\ \A q \in Proc \ {p} : Rely(q)
    BY <1>10, <1>len, DecideEffect DEF Grows, Rely
  <2>2. RunInv(p)' /\ LeaseInv(p)'
    <3>1. /\ pc[p] = "loop" /\ op[p] \in Proc /\ view[p] \in Stream /\ Dispatched(view[p])
          /\ step[p] \in Nat \ {0} /\ UNCHANGED <<holder, events, view, op, journal>>
      <4>1. pc[p] = "loop" /\ UNCHANGED <<holder, events, view, op, journal>>
        BY <1>10, DecideEffect
      <4>2. step[p] \in 0..(NSteps + 1) /\ step[p] # 0 /\ view[p] \in Stream
        BY <4>1, StreamTypes DEF TypeInv, ControlInv
      <4> QED
        BY <1>op, <1>inv, <4>1, <4>2 DEF RunInv
    <3>2. /\ journal[op[p]].status # "absent" /\ Len(view[p]) <= Len(events[op[p]])
          /\ Len(view[p]) \in Nat /\ Len(events[op[p]]) \in Nat
      BY <3>1, <1>inv, <1>len DEF RunInv, Working
    <3>3. CASE pc'[p] \in {"finishing", "exit"}
      BY <3>1, <3>2, <3>3 DEF RunInv, LeaseInv, Working, InStep, InRecovery
    <3>4. CASE /\ DecideStepResumption(view[p], step[p]) = "skip"
               /\ pc'[p] = "loop" /\ step'[p] = step[p] + 1
      <4>1. Len(view[p]) >= 2 * step[p] /\ view[p][2 * step[p]].phase = "succeeded"
        BY <3>1, <3>4, DispatchedDecisions
      <4>2. RunInv(p)'
        BY <3>1, <3>2, <3>4 DEF RunInv, Working, InStep, InRecovery
      <4>3. holder = p => events[op[p]] = view[p]
        BY <3>1, <3>2, <4>1, <1>inv DEF LeaseInv
      <4>4. LeaseInv(p)'
        BY <3>1, <3>2, <3>4, <4>1, <4>3 DEF LeaseInv, InStep, ReachedStep
      <4> QED
        BY <4>2, <4>4
    <3>5. CASE /\ DecideStepResumption(view[p], step[p]) = "run"
               /\ pc'[p] = "starting" /\ step'[p] = step[p]
      <4>1. Len(view[p]) < 2 * step[p] - 1
        BY <3>1, <3>5, DispatchedDecisions
      <4>2. holder = p => ReachedStep(op[p], step[p])
        BY <3>1, <3>2, <4>1, <1>inv DEF LeaseInv
      <4> QED
        BY <3>1, <3>2, <3>5, <4>2
        DEF RunInv, LeaseInv, Working, InStep, InRecovery, ReachedStep
    <3>6. CASE /\ DecideStepResumption(view[p], step[p]) = "blocked"
               /\ step[p] = Commit /\ pc'[p] = "recover" /\ step'[p] = step[p]
      <4>1. Len(view[p]) = 2 * step[p] - 1
        BY <3>1, <3>6, DispatchedDecisions
      <4>2. holder = p => events[op[p]] = view[p]
        BY <3>1, <3>2, <4>1, <1>inv DEF LeaseInv
      <4>3. RunInv(p)'
        BY <3>1, <3>2, <3>6, <4>1 DEF RunInv, Working, InStep, InRecovery, Opened
      <4>4. LeaseInv(p)'
        BY <3>1, <3>2, <3>6, <4>1, <4>2 DEF LeaseInv, InStep
      <4> QED
        BY <4>3, <4>4
    <3> QED
      BY <1>10, <3>3, <3>4, <3>5, <3>6, DecideEffect
  <2>3. \A q \in Proc : job'[q] = job[q] \/ job'[q] = NoJob
    BY <1>10, DecideEffect
  <2>4. FilesInv' /\ DispatchInv'
    BY <1>10, <1>ty, <1>inv, <2>1, DecideEffect, FilesStable, DispatchStable
  <2> QED
    BY <1>ty, <1>inv, <2>1, <2>2, <2>3, <2>4, RunStable, JobStable DEF StreamInv
<1>11. ASSUME NEW p \in Proc, AppendStarted(p) PROVE StreamInv'
  <2>0. pc[p] = "starting" /\ op[p] \in Proc /\ step[p] \in Step
    BY <1>11, <1>op, AppendStartedEffect DEF InStep
  <2>1. CASE UNCHANGED <<events, job, dispatches>> /\ pc'[p] = "exit"
    <3>1. Grows /\ \A q \in Proc \ {p} : Rely(q)
      BY <1>11, <2>1, <1>len, AppendStartedEffect DEF Grows, Rely
    <3>2. RunInv(p)' /\ LeaseInv(p)'
      BY <1>11, <2>1, <1>inv, AppendStartedEffect
      DEF RunInv, LeaseInv, Working, InStep, InRecovery
    <3>3. FilesInv' /\ DispatchInv'
      BY <1>11, <2>1, <1>inv, <1>ty, <3>1, AppendStartedEffect, FilesStable, DispatchStable
    <3> QED
      BY <1>ty, <1>inv, <2>1, <3>1, <3>2, <3>3, RunStable, JobStable DEF StreamInv
  <2>2. CASE holder = p /\ AppendEvent(op[p], step[p], "started") /\ pc'[p] = "dispatch"
    <3>1. /\ Len(events'[op[p]]) = Len(events[op[p]]) + 1
          /\ Len(events[op[p]]) = 2 * step[p] - 2
          /\ Len(events[op[p]]) \in Nat /\ Len(view[p]) \in Nat
          /\ \A q \in Proc \ {op[p]} : events'[q] = events[q]
      BY <1>len, <1>inv, <2>0, <2>2, AppendGrows DEF LeaseInv, InStep, ReachedStep, Phase
    <3>2. Grows /\ \A q \in Proc \ {p} : Rely(q)
      <4>1. /\ UNCHANGED <<holder, journal, done, mode, op, view, step, job>>
            /\ \A q \in Proc \ {p} : pc'[q] = pc[q]
        BY <1>11, AppendStartedEffect
      <4>2. Grows
        BY <1>len, <3>1, <4>1 DEF Grows
      <4> QED
        BY <2>2, <4>1, <4>2 DEF Rely
    <3>3. /\ journal[op[p]].status # "absent" /\ Len(view[p]) <= Len(events[op[p]])
          /\ Dispatched(view[p]) /\ step[p] \in Nat \ {0}
      BY <1>inv, <1>sets, <2>0 DEF RunInv, Working, InStep
    <3>4. RunInv(p)'
      BY <1>11, <2>0, <2>2, <3>1, <3>3, AppendStartedEffect
      DEF RunInv, Working, InStep, InRecovery, Opened
    <3>5. LeaseInv(p)'
      BY <1>11, <2>0, <2>2, <3>1, <3>3, AppendStartedEffect DEF LeaseInv, InStep
    <3>6. Dispatched(Append(events[op[p]], BuildEvent(step[p], 1, "started")))
      <4>1. events[op[p]] \in Stream /\ Dispatched(events[op[p]])
        BY <1>inv, <2>0, StreamTypes DEF FilesInv
      <4>2. step[p] > 1 => events[op[p]][2 * step[p] - 2].phase = "succeeded"
        BY <1>inv, <2>0, <2>2 DEF LeaseInv, ReachedStep
      <4> QED
        BY <3>1, <3>3, <4>1, <4>2, DispatchedStarts
    <3>7. FilesInv'
      BY <1>11, <1>inv, <2>0, <2>2, <3>1, <3>3, <3>6, AppendStartedEffect, FilesAppend DEF Phase
    <3>8. DispatchInv'
      <4>0. ~Opened(op[p], step[p])
        BY <3>1, <3>3 DEF Opened
      <4>1. dispatches[op[p]][step[p]] = 0
        BY <1>inv, <2>0, <4>0 DEF DispatchInv
      <4>2. \A q \in Proc : pc[q] = "dispatch" => ~(op[q] = op[p] /\ step[q] = step[p])
        <5>1. \A q \in Proc : pc[q] = "dispatch" => Opened(op[q], step[q])
          BY <1>inv DEF RunInv, InStep
        <5> QED
          BY <4>0, <5>1
      <4>3. \A o \in Proc : \A s \in Step : ~Opened(o, s)' => ~Opened(o, s)
        BY <1>ty, <3>2, OpenedStays
      <4>4. /\ UNCHANGED <<dispatches, op, step>> /\ pc'[p] = "dispatch"
            /\ \A q \in Proc \ {p} : pc'[q] = pc[q]
        BY <1>11, <2>2, AppendStartedEffect
      <4>5. ASSUME NEW q \in Proc, pc'[q] = "dispatch"
            PROVE  /\ step[q] # Commit => dispatches[op[q]][step[q]] = 0
                   /\ \A r \in Proc : pc'[r] = "dispatch" /\ op[r] = op[q] /\ step[r] = step[q] =>
                        r = q
        BY <1>inv, <4>1, <4>2, <4>4, <4>5 DEF DispatchInv
      <4>6. \A o \in Proc : \A s \in Step :
              /\ ~Opened(o, s)' => dispatches[o][s] = 0
              /\ s # Commit => dispatches[o][s] <= 1
        BY <1>inv, <4>3 DEF DispatchInv
      <4> QED
        BY <4>4, <4>5, <4>6 DEF DispatchInv
    <3>9. job' = job
      BY <1>11, AppendStartedEffect
    <3> QED
      BY <1>ty, <1>inv, <3>2, <3>4, <3>5, <3>7, <3>8, <3>9, RunStable, JobStable DEF StreamInv
  <2> QED
    BY <1>11, <2>1, <2>2, AppendStartedEffect
<1>12. ASSUME NEW p \in Proc, Dispatch(p) PROVE StreamInv'
  <2>0. /\ pc[p] = "dispatch" /\ op[p] \in Proc /\ step[p] \in Step 
        /\ Opened(op[p], step[p]) /\ UNCHANGED <<events, op, step>>
    BY <1>12, <1>op, <1>inv, DispatchEffect DEF RunInv, InStep, InRecovery
  <2>1. CASE UNCHANGED <<events, job, dispatches>> /\ pc'[p] = "exit"
    <3>1. Grows /\ \A q \in Proc \ {p} : Rely(q)
      BY <1>12, <2>1, <1>len, DispatchEffect DEF Grows, Rely
    <3>2. RunInv(p)' /\ LeaseInv(p)'
      BY <1>12, <2>1, <1>inv, DispatchEffect DEF RunInv, LeaseInv, Working, InStep, InRecovery
    <3>3. FilesInv' /\ DispatchInv'
      BY <1>12, <2>1, <1>inv, <1>ty, <3>1, DispatchEffect, FilesStable, DispatchStable
    <3> QED
      BY <1>ty, <1>inv, <2>1, <3>1, <3>2, <3>3, RunStable, JobStable DEF StreamInv
  <2>2. CASE DispatchOperation(p, step[p]) /\ pc'[p] = "waiting"
    <3>1. /\ job'[p].op = op[p] /\ job'[p].step = step[p]
          /\ job'[p].at = (IF step[p] = Commit THEN "stat" ELSE "run")
          /\ \A q \in Proc \ {p} : job'[q] = job[q]
      BY <2>2, StreamTypes DEF DispatchOperation
    <3>2. Grows /\ \A q \in Proc \ {p} : Rely(q)
      BY <1>12, <1>len, <2>2, <3>1, DispatchEffect DEF Grows, Rely
    <3>3. RunInv(p)' /\ LeaseInv(p)'
      BY <1>12, <1>inv, <2>0, <2>2, <3>1, DispatchEffect
      DEF RunInv, LeaseInv, Working, InStep, InRecovery, Opened
    <3>4. JobInv(p)'
      BY <2>0, <3>1 DEF JobInv, Opened
    <3>5. FilesInv'
      BY <1>12, <1>inv, <3>2, DispatchEffect, FilesStable
    <3>6. DispatchInv'
      BY <1>12, <1>inv, <1>sets, <2>0, <2>2, DispatchEffect, DispatchCounts
    <3> QED
      BY <1>ty, <1>inv, <3>1, <3>2, <3>3, <3>4, <3>5, <3>6, RunStable, JobStable DEF StreamInv
  <2> QED
    BY <1>12, <2>1, <2>2, DispatchEffect
<1>13. ASSUME NEW p \in Proc, DispatchEnds(p) PROVE StreamInv'
  <2>1. Grows /\ \A q \in Proc \ {p} : Rely(q)
    BY <1>13, <1>len, DispatchEndsEffect DEF Grows, Rely
  <2>2. RunInv(p)' /\ LeaseInv(p)'
    <3>1. /\ pc[p] \in {"waiting", "rewaiting"} /\ op[p] \in Proc
          /\ UNCHANGED <<holder, events, view, op, step, journal, done>>
      BY <1>13, <1>op, DispatchEndsEffect
    <3>2. pc'[p] = "succeeding" /\ step[p] # Commit => step[p] \in done[op[p]]
      BY <1>13, <1>inv, <3>1, DispatchEndsEffect DEF RunInv, JobInv
    <3>3. \/ pc'[p] \in {"succeeding", "failing", "exit"}
          \/ pc[p] = "rewaiting" /\ pc'[p] = "reverify"
      BY <1>13, DispatchEndsEffect
    <3>4. RunInv(p)'
      BY <1>inv, <3>1, <3>2, <3>3 DEF RunInv, Working, InStep, InRecovery, Opened
    <3>5. LeaseInv(p)'
      BY <1>inv, <3>1, <3>3 DEF LeaseInv, InStep
    <3> QED
      BY <3>4, <3>5
  <2>3. \A q \in Proc : job'[q] = job[q] \/ job'[q] = NoJob
    BY <1>13, DispatchEndsEffect
  <2>4. FilesInv' /\ DispatchInv'
    BY <1>13, <1>ty, <1>inv, <2>1, DispatchEndsEffect, FilesStable, DispatchStable
  <2> QED
    BY <1>ty, <1>inv, <2>1, <2>2, <2>3, <2>4, RunStable, JobStable DEF StreamInv
<1>14. ASSUME NEW p \in Proc, AppendSucceeded(p) PROVE StreamInv'
  <2>0. pc[p] = "succeeding" /\ op[p] \in Proc /\ step[p] \in Step
    BY <1>14, <1>op, AppendSucceededEffect DEF InStep
  <2>1. CASE UNCHANGED <<events, job, dispatches>> /\ pc'[p] = "exit"
    <3>1. Grows /\ \A q \in Proc \ {p} : Rely(q)
      BY <1>14, <2>1, <1>len, AppendSucceededEffect DEF Grows, Rely
    <3>2. RunInv(p)' /\ LeaseInv(p)'
      BY <1>14, <2>1, <1>inv, AppendSucceededEffect
      DEF RunInv, LeaseInv, Working, InStep, InRecovery
    <3>3. FilesInv' /\ DispatchInv'
      BY <1>14, <2>1, <1>inv, <1>ty, <3>1, AppendSucceededEffect, FilesStable, DispatchStable
    <3> QED
      BY <1>ty, <1>inv, <2>1, <3>1, <3>2, <3>3, RunStable, JobStable DEF StreamInv
  <2>2. CASE holder = p /\ AppendEvent(op[p], step[p], "succeeded") /\ pc'[p] = "loop"
    <3>1. /\ Len(events'[op[p]]) = Len(events[op[p]]) + 1
          /\ Len(events[op[p]]) = 2 * step[p] - 1
          /\ Len(events[op[p]]) \in Nat /\ Len(view[p]) \in Nat
          /\ \A q \in Proc \ {op[p]} : events'[q] = events[q]
      BY <1>len, <1>inv, <2>0, <2>2, AppendGrows DEF LeaseInv, InStep, ReachedStep, Phase
    <3>2. Grows /\ \A q \in Proc \ {p} : Rely(q)
      BY <1>14, <1>len, <2>2, <3>1, AppendSucceededEffect DEF Grows, Rely
    <3>3. /\ journal[op[p]].status # "absent" /\ Len(view[p]) <= Len(events[op[p]])
          /\ Dispatched(view[p]) /\ step[p] \in Nat \ {0}
          /\ step[p] # Commit => step[p] \in done[op[p]]
      BY <1>inv, <1>sets, <2>0 DEF RunInv, Working, InStep
    <3>4. RunInv(p)'
      BY <1>14, <2>0, <2>2, <3>1, <3>3, AppendSucceededEffect
      DEF RunInv, Working, InStep, InRecovery, Opened
    <3>5. LeaseInv(p)'
      <4>1. events'[op[p]][2 * step[p]].phase = "succeeded"
        <5>1. events'[op[p]][Len(events[op[p]]) + 1].phase = "succeeded"
          BY <2>0, <2>2, AppendGrows DEF Phase
        <5>2. Len(events[op[p]]) + 1 = 2 * step[p]
          BY <3>1, <3>3
        <5> QED
          BY <5>1, <5>2
      <4>2. step'[p] = step[p] + 1 /\ UNCHANGED <<op, view>>
        BY <1>14, <2>2, AppendSucceededEffect
      <4>3. /\ Len(events'[op[p]]) = 2 * (step[p] + 1) - 2
            /\ 2 * (step[p] + 1) - 2 = 2 * step[p]
            /\ Len(view[p]) < 2 * (step[p] + 1) - 1
        BY <3>1, <3>3
      <4>4. ReachedStep(op[p], step[p])'
        BY <4>1, <4>2, <4>3 DEF ReachedStep
      <4>5. Len(view'[p]) < 2 * step'[p] - 1
        BY <4>2, <4>3
      <4> QED
        BY <2>2, <4>4, <4>5 DEF LeaseInv, InStep
    <3>6. Dispatched(Append(events[op[p]], BuildEvent(step[p], 1, "succeeded")))
      <4>1. events[op[p]] \in Stream /\ Dispatched(events[op[p]])
        BY <1>inv, <2>0, StreamTypes DEF FilesInv
      <4> QED
        BY <3>1, <3>3, <4>1, DispatchedResolves
    <3>7. FilesInv'
      BY <1>14, <1>inv, <2>0, <2>2, <3>1, <3>3, <3>6, AppendSucceededEffect, FilesAppend DEF Phase
    <3>8. DispatchInv'
      BY <1>14, <1>inv, <1>ty, <2>2, <3>2, AppendSucceededEffect, DispatchStable
    <3>9. job' = job
      BY <1>14, AppendSucceededEffect
    <3> QED
      BY <1>ty, <1>inv, <3>2, <3>4, <3>5, <3>7, <3>8, <3>9, RunStable, JobStable DEF StreamInv
  <2> QED
    BY <1>14, <2>1, <2>2, AppendSucceededEffect
<1>15. ASSUME NEW p \in Proc, AppendFailed(p) PROVE StreamInv'
  <2>0. pc[p] = "failing" /\ op[p] \in Proc /\ step[p] \in Step
    BY <1>15, <1>op, AppendFailedEffect DEF InStep
  <2>1. CASE UNCHANGED <<events, job, dispatches>> /\ pc'[p] = "exit"
    <3>1. Grows /\ \A q \in Proc \ {p} : Rely(q)
      BY <1>15, <2>1, <1>len, AppendFailedEffect DEF Grows, Rely
    <3>2. RunInv(p)' /\ LeaseInv(p)'
      BY <1>15, <2>1, <1>inv, AppendFailedEffect DEF RunInv, LeaseInv, Working, InStep, InRecovery
    <3>3. FilesInv' /\ DispatchInv'
      BY <1>15, <2>1, <1>inv, <1>ty, <3>1, AppendFailedEffect, FilesStable, DispatchStable
    <3> QED
      BY <1>ty, <1>inv, <2>1, <3>1, <3>2, <3>3, RunStable, JobStable DEF StreamInv
  <2>2. CASE holder = p /\ AppendEvent(op[p], step[p], "failed") /\ pc'[p] = "failed"
    <3>1. /\ Len(events'[op[p]]) = Len(events[op[p]]) + 1
          /\ Len(events[op[p]]) = 2 * step[p] - 1
          /\ Len(events[op[p]]) \in Nat /\ Len(view[p]) \in Nat
          /\ \A q \in Proc \ {op[p]} : events'[q] = events[q]
      BY <1>len, <1>inv, <2>0, <2>2, AppendGrows DEF LeaseInv, InStep, ReachedStep, Phase
    <3>2. Grows /\ \A q \in Proc \ {p} : Rely(q)
      BY <1>15, <1>len, <2>2, <3>1, AppendFailedEffect DEF Grows, Rely
    <3>3. /\ journal[op[p]].status # "absent" /\ Len(view[p]) <= Len(events[op[p]])
          /\ Dispatched(view[p]) /\ step[p] \in Nat \ {0}
      BY <1>inv, <1>sets, <2>0 DEF RunInv, Working, InStep
    <3>4. RunInv(p)'
      BY <1>15, <2>0, <2>2, <3>1, <3>3, AppendFailedEffect
      DEF RunInv, Working, InStep, InRecovery, Opened
    <3>5. LeaseInv(p)'
      BY <2>2 DEF LeaseInv, InStep
    <3>6. Dispatched(Append(events[op[p]], BuildEvent(step[p], 1, "failed")))
      <4>1. events[op[p]] \in Stream /\ Dispatched(events[op[p]])
        BY <1>inv, <2>0, StreamTypes DEF FilesInv
      <4> QED
        BY <3>1, <3>3, <4>1, DispatchedResolves
    <3>7. FilesInv'
      BY <1>15, <1>inv, <2>0, <2>2, <3>1, <3>3, <3>6, AppendFailedEffect, FilesAppend DEF Phase
    <3>8. DispatchInv'
      BY <1>15, <1>inv, <1>ty, <2>2, <3>2, AppendFailedEffect, DispatchStable
    <3>9. job' = job
      BY <1>15, AppendFailedEffect
    <3> QED
      BY <1>ty, <1>inv, <3>2, <3>4, <3>5, <3>7, <3>8, <3>9, RunStable, JobStable DEF StreamInv
  <2> QED
    BY <1>15, <2>1, <2>2, AppendFailedEffect
<1>16. ASSUME NEW p \in Proc, WriteJournalFailed(p) PROVE StreamInv'
  <2>1. Grows /\ \A q \in Proc \ {p} : Rely(q)
    <3>1. op[p] \in Proc /\ journal[op[p]].status # "absent"
      BY <1>16, <1>op, <1>inv, WriteJournalFailedEffect DEF RunInv
    <3>2. \A o \in Proc : journal'[o] = journal[o] \/ (o = op[p] /\ journal'[o].status # "absent")
      BY <1>16, <3>1, WriteJournalFailedEffect
    <3>3. Grows
      BY <1>16, <1>len, <3>2, WriteJournalFailedEffect DEF Grows
    <3>4. ASSUME NEW q \in Proc \ {p} PROVE Rely(q)
      BY <1>16, <1>inv, <3>1, <3>2, WriteJournalFailedEffect DEF Rely, RunInv
    <3> QED
      BY <3>3, <3>4
  <2>2. RunInv(p)' /\ LeaseInv(p)'
    BY <1>16, <1>inv, <1>op, WriteJournalFailedEffect DEF RunInv, LeaseInv, Working, InStep,
        InRecovery, Opened, ReachedStep
  <2>3. \A q \in Proc : job'[q] = job[q] \/ job'[q] = NoJob
    BY <1>16, WriteJournalFailedEffect
  <2>4. FilesInv' /\ DispatchInv'
    BY <1>16, <1>ty, <1>inv, <2>1, WriteJournalFailedEffect, FilesStable, DispatchStable
  <2> QED
    BY <1>ty, <1>inv, <2>1, <2>2, <2>3, <2>4, RunStable, JobStable DEF StreamInv
<1>17. ASSUME NEW p \in Proc, ReadSnapshot(p) PROVE StreamInv'
  <2>1. Grows /\ \A q \in Proc \ {p} : Rely(q)
    BY <1>17, <1>len, ReadSnapshotEffect DEF Grows, Rely
  <2>2. RunInv(p)' /\ LeaseInv(p)'
    BY <1>17, <1>inv, <1>op, ReadSnapshotEffect DEF RunInv, LeaseInv, Working, InStep,
        InRecovery, Opened, ReachedStep
  <2>3. \A q \in Proc : job'[q] = job[q] \/ job'[q] = NoJob
    BY <1>17, ReadSnapshotEffect
  <2>4. FilesInv' /\ DispatchInv'
    BY <1>17, <1>ty, <1>inv, <2>1, ReadSnapshotEffect, FilesStable, DispatchStable
  <2> QED
    BY <1>ty, <1>inv, <2>1, <2>2, <2>3, <2>4, RunStable, JobStable DEF StreamInv
<1>18. ASSUME NEW p \in Proc, ReadPointers(p) PROVE StreamInv'
  <2>1. Grows /\ \A q \in Proc \ {p} : Rely(q)
    BY <1>18, <1>len, ReadPointersEffect DEF Grows, Rely
  <2>2. RunInv(p)' /\ LeaseInv(p)'
    BY <1>18, <1>inv, <1>op, ReadPointersEffect DEF RunInv, LeaseInv, Working, InStep,
        InRecovery, Opened, ReachedStep
  <2>3. \A q \in Proc : job'[q] = job[q] \/ job'[q] = NoJob
    BY <1>18, ReadPointersEffect
  <2>4. FilesInv' /\ DispatchInv'
    BY <1>18, <1>ty, <1>inv, <2>1, ReadPointersEffect, FilesStable, DispatchStable
  <2> QED
    BY <1>ty, <1>inv, <2>1, <2>2, <2>3, <2>4, RunStable, JobStable DEF StreamInv
<1>19. ASSUME NEW p \in Proc, Redispatch(p) PROVE StreamInv'
  <2>0. /\ pc[p] = "redispatch" /\ op[p] \in Proc /\ step[p] \in Step /\ step[p] = Commit
        /\ Opened(op[p], Commit) /\ UNCHANGED <<events, op, step>>
    BY <1>19, <1>op, <1>inv, RedispatchEffect DEF RunInv, InStep, InRecovery
  <2>1. CASE UNCHANGED <<events, job, dispatches>> /\ pc'[p] = "exit"
    <3>1. Grows /\ \A q \in Proc \ {p} : Rely(q)
      BY <1>19, <2>1, <1>len, RedispatchEffect DEF Grows, Rely
    <3>2. RunInv(p)' /\ LeaseInv(p)'
      BY <1>19, <2>1, <1>inv, RedispatchEffect DEF RunInv, LeaseInv, Working, InStep, InRecovery
    <3>3. FilesInv' /\ DispatchInv'
      BY <1>19, <2>1, <1>inv, <1>ty, <3>1, RedispatchEffect, FilesStable, DispatchStable
    <3> QED
      BY <1>ty, <1>inv, <2>1, <3>1, <3>2, <3>3, RunStable, JobStable DEF StreamInv
  <2>2. CASE DispatchOperation(p, Commit) /\ pc'[p] = "rewaiting"
    <3>1. /\ job'[p].op = op[p] /\ job'[p].step = Commit
          /\ job'[p].at = (IF Commit = Commit THEN "stat" ELSE "run")
          /\ \A q \in Proc \ {p} : job'[q] = job[q]
      BY <2>2, StreamTypes DEF DispatchOperation
    <3>2. Grows /\ \A q \in Proc \ {p} : Rely(q)
      BY <1>19, <1>len, <2>2, <3>1, RedispatchEffect DEF Grows, Rely
    <3>3. RunInv(p)' /\ LeaseInv(p)'
      BY <1>19, <1>inv, <2>0, <2>2, <3>1, RedispatchEffect
      DEF RunInv, LeaseInv, Working, InStep, InRecovery, Opened
    <3>4. JobInv(p)'
      BY <2>0, <3>1 DEF JobInv, Opened
    <3>5. FilesInv'
      BY <1>19, <1>inv, <3>2, RedispatchEffect, FilesStable
    <3>6. DispatchInv'
      BY <1>19, <1>inv, <1>sets, <2>0, <2>2, RedispatchEffect, DispatchCounts
    <3> QED
      BY <1>ty, <1>inv, <3>1, <3>2, <3>3, <3>4, <3>5, <3>6, RunStable, JobStable DEF StreamInv
  <2> QED
    BY <1>19, <2>1, <2>2, RedispatchEffect
<1>20. ASSUME NEW p \in Proc, Reverify(p) PROVE StreamInv'
  <2>1. Grows /\ \A q \in Proc \ {p} : Rely(q)
    BY <1>20, <1>len, ReverifyEffect DEF Grows, Rely
  <2>2. RunInv(p)' /\ LeaseInv(p)'
    BY <1>20, <1>inv, <1>op, ReverifyEffect DEF RunInv, LeaseInv, Working, InStep, InRecovery,
        Opened, ReachedStep
  <2>3. \A q \in Proc : job'[q] = job[q] \/ job'[q] = NoJob
    BY <1>20, ReverifyEffect
  <2>4. FilesInv' /\ DispatchInv'
    BY <1>20, <1>ty, <1>inv, <2>1, ReverifyEffect, FilesStable, DispatchStable
  <2> QED
    BY <1>ty, <1>inv, <2>1, <2>2, <2>3, <2>4, RunStable, JobStable DEF StreamInv
<1>21. ASSUME NEW p \in Proc, WriteJournalSucceeded(p) PROVE StreamInv'
  <2>1. Grows /\ \A q \in Proc \ {p} : Rely(q)
    <3>1. op[p] \in Proc /\ journal[op[p]].status # "absent"
      BY <1>21, <1>op, <1>inv, WriteJournalSucceededEffect DEF RunInv
    <3>2. \A o \in Proc : journal'[o] = journal[o] \/ (o = op[p] /\ journal'[o].status # "absent")
      BY <1>21, <3>1, WriteJournalSucceededEffect
    <3>3. Grows
      BY <1>21, <1>len, <3>2, WriteJournalSucceededEffect DEF Grows
    <3>4. ASSUME NEW q \in Proc \ {p} PROVE Rely(q)
      BY <1>21, <1>inv, <3>1, <3>2, WriteJournalSucceededEffect DEF Rely, RunInv
    <3> QED
      BY <3>3, <3>4
  <2>2. RunInv(p)' /\ LeaseInv(p)'
    BY <1>21, <1>inv, <1>op, WriteJournalSucceededEffect DEF RunInv, LeaseInv, Working, InStep,
        InRecovery, Opened, ReachedStep
  <2>3. \A q \in Proc : job'[q] = job[q] \/ job'[q] = NoJob
    BY <1>21, WriteJournalSucceededEffect
  <2>4. FilesInv' /\ DispatchInv'
    BY <1>21, <1>ty, <1>inv, <2>1, WriteJournalSucceededEffect, FilesStable, DispatchStable
  <2> QED
    BY <1>ty, <1>inv, <2>1, <2>2, <2>3, <2>4, RunStable, JobStable DEF StreamInv
<1>22. ASSUME NEW p \in Proc, ReleaseLock(p) PROVE StreamInv'
  <2>1. Grows /\ \A q \in Proc \ {p} : Rely(q)
    BY <1>22, <1>len, ReleaseLockEffect DEF Grows, Rely
  <2>2. RunInv(p)' /\ LeaseInv(p)'
    BY <1>22, <1>inv, <1>op, ReleaseLockEffect DEF RunInv, LeaseInv, Working, InStep, InRecovery,
        Opened, ReachedStep
  <2>3. \A q \in Proc : job'[q] = job[q] \/ job'[q] = NoJob
    BY <1>22, ReleaseLockEffect
  <2>4. FilesInv' /\ DispatchInv'
    BY <1>22, <1>ty, <1>inv, <2>1, ReleaseLockEffect, FilesStable, DispatchStable
  <2> QED
    BY <1>ty, <1>inv, <2>1, <2>2, <2>3, <2>4, RunStable, JobStable DEF StreamInv
<1>23. ASSUME NEW p \in Proc, ReleaseLease(p) PROVE StreamInv'
  <2>1. Grows /\ \A q \in Proc \ {p} : Rely(q)
    <3>1. \A q \in Proc \ {p} : holder' = q => holder = q
      BY <1>23, <1>sets, ReleaseLeaseEffect
    <3> QED
      BY <1>23, <1>len, <3>1, ReleaseLeaseEffect DEF Grows, Rely
  <2>2. RunInv(p)' /\ LeaseInv(p)'
    <3>1. pc'[p] = "idle" /\ view'[p] = <<>>
      BY <1>23, ReleaseLeaseEffect
    <3> QED
      BY <1>empty, <3>1 DEF RunInv, LeaseInv, Working, InStep, InRecovery
  <2>3. \A q \in Proc : job'[q] = job[q] \/ job'[q] = NoJob
    BY <1>23, ReleaseLeaseEffect
  <2>4. FilesInv' /\ DispatchInv'
    BY <1>23, <1>ty, <1>inv, <2>1, ReleaseLeaseEffect, FilesStable, DispatchStable
  <2> QED
    BY <1>ty, <1>inv, <2>1, <2>2, <2>3, <2>4, RunStable, JobStable DEF StreamInv
<1>24. ASSUME NEW p \in Proc, Abort(p) PROVE StreamInv'
  <2>1. Grows /\ \A q \in Proc \ {p} : Rely(q)
    BY <1>24, <1>len, AbortEffect DEF Grows, Rely
  <2>2. RunInv(p)' /\ LeaseInv(p)'
    BY <1>24, <1>inv, <1>op, AbortEffect DEF RunInv, LeaseInv, Working, InStep, InRecovery,
        Opened, ReachedStep
  <2>3. \A q \in Proc : job'[q] = job[q] \/ job'[q] = NoJob
    BY <1>24, AbortEffect
  <2>4. FilesInv' /\ DispatchInv'
    BY <1>24, <1>ty, <1>inv, <2>1, AbortEffect, FilesStable, DispatchStable
  <2> QED
    BY <1>ty, <1>inv, <2>1, <2>2, <2>3, <2>4, RunStable, JobStable DEF StreamInv
<1>25. ASSUME NEW p \in Proc, Crash(p) PROVE StreamInv'
  <2>1. Grows /\ \A q \in Proc \ {p} : Rely(q)
    BY <1>25, <1>len, CrashEffect DEF Grows, Rely
  <2>2. RunInv(p)' /\ LeaseInv(p)'
    <3>1. pc'[p] = "idle" /\ view'[p] = <<>>
      BY <1>25, CrashEffect
    <3> QED
      BY <1>empty, <3>1 DEF RunInv, LeaseInv, Working, InStep, InRecovery
  <2>3. \A q \in Proc : job'[q] = job[q] \/ job'[q] = NoJob
    BY <1>25, CrashEffect
  <2>4. FilesInv' /\ DispatchInv'
    BY <1>25, <1>ty, <1>inv, <2>1, CrashEffect, FilesStable, DispatchStable
  <2> QED
    BY <1>ty, <1>inv, <2>1, <2>2, <2>3, <2>4, RunStable, JobStable DEF StreamInv
<1>26. ASSUME NEW p \in Proc, RunRole(p) PROVE StreamInv'
  <2>1. Grows /\ \A q \in Proc : Rely(q)
    <3>1. job[p].op \in Proc
      BY <1>26, <1>inv, RunRoleEffect DEF JobInv
    <3>2. \A o \in Proc : done[o] \subseteq done'[o]
      BY <1>26, <1>done, <3>1, RunRoleEffect
    <3> QED
      BY <1>26, <1>len, <3>2, RunRoleEffect DEF Grows, Rely
  <2>2. \A q \in Proc \ {p} : job'[q] = job[q]
    BY <1>26, RunRoleEffect
  <2>3. JobInv(p)'
    <3>1. job[p].op \in Proc /\ job[p].step \in done'[job[p].op]
      BY <1>26, <1>inv, StreamTypes, RunRoleEffect DEF JobInv
    <3> QED
      BY <1>26, <3>1, RunRoleEffect DEF JobInv
  <2>4. FilesInv'
    BY <1>26, <1>inv, <2>1, RunRoleEffect, FilesStable
  <2>5. DispatchInv'
    BY <1>26, <1>ty, <1>inv, <2>1, RunRoleEffect, DispatchStable
  <2> QED
    BY <1>ty, <1>inv, <2>1, <2>2, <2>3, <2>4, <2>5, RunStable, JobStable DEF StreamInv
<1>27. ASSUME NEW p \in Proc, StatSnapshot(p) PROVE StreamInv'
  <2>1. Grows /\ \A q \in Proc : Rely(q)
    BY <1>27, <1>len, StatSnapshotEffect DEF Grows, Rely
  <2>2. \A q \in Proc \ {p} : job'[q] = job[q]
    BY <1>27, StatSnapshotEffect
  <2>3. JobInv(p)'
    BY <1>27, <1>inv, StatSnapshotEffect DEF JobInv, Opened
  <2>4. FilesInv'
    BY <1>27, <1>inv, <2>1, StatSnapshotEffect, FilesStable
  <2>5. DispatchInv'
    BY <1>27, <1>ty, <1>inv, <2>1, StatSnapshotEffect, DispatchStable
  <2> QED
    BY <1>ty, <1>inv, <2>1, <2>2, <2>3, <2>4, <2>5, RunStable, JobStable DEF StreamInv
<1>28. ASSUME NEW p \in Proc, PublishSnapshot(p) PROVE StreamInv'
  <2>1. Grows /\ \A q \in Proc : Rely(q)
    BY <1>28, <1>len, PublishSnapshotEffect DEF Grows, Rely
  <2>2. \A q \in Proc \ {p} : job'[q] = job[q]
    BY <1>28, PublishSnapshotEffect
  <2>3. JobInv(p)'
    BY <1>28, <1>inv, PublishSnapshotEffect DEF JobInv, Opened
  <2>4. FilesInv'
    <3>1. job[p].op \in Proc /\ Opened(job[p].op, Commit)
      BY <1>28, <1>inv, PublishSnapshotEffect DEF JobInv
    <3>2. \A g \in Generation : snapshot'[g] = snapshot[g] \/ snapshot'[g] = job[p].op
      BY <1>28, StreamTypes, PublishSnapshotEffect
    <3> QED
      BY <1>28, <1>inv, <3>1, <3>2, PublishSnapshotEffect DEF FilesInv, Opened
  <2>5. DispatchInv'
    BY <1>28, <1>ty, <1>inv, <2>1, PublishSnapshotEffect, DispatchStable
  <2> QED
    BY <1>ty, <1>inv, <2>1, <2>2, <2>3, <2>4, <2>5, RunStable, JobStable DEF StreamInv
<1>29. ASSUME NEW p \in Proc, WriteTopology(p) PROVE StreamInv'
  <2>1. Grows /\ \A q \in Proc : Rely(q)
    BY <1>29, <1>len, WriteTopologyEffect DEF Grows, Rely
  <2>2. \A q \in Proc \ {p} : job'[q] = job[q]
    BY <1>29, WriteTopologyEffect
  <2>3. JobInv(p)'
    BY <1>29, <1>inv, WriteTopologyEffect DEF JobInv, Opened
  <2>4. FilesInv'
    <3>1. job[p].op \in Proc /\ Opened(job[p].op, Commit)
      BY <1>29, <1>inv, WriteTopologyEffect DEF JobInv
    <3> QED
      BY <1>29, <1>inv, <3>1, WriteTopologyEffect DEF FilesInv, Opened
  <2>5. DispatchInv'
    BY <1>29, <1>ty, <1>inv, <2>1, WriteTopologyEffect, DispatchStable
  <2> QED
    BY <1>ty, <1>inv, <2>1, <2>2, <2>3, <2>4, <2>5, RunStable, JobStable DEF StreamInv
<1>30. ASSUME NEW p \in Proc, WriteCurrent(p) PROVE StreamInv'
  <2>1. Grows /\ \A q \in Proc : Rely(q)
    <3>1. job[p].op \in Proc
      BY <1>30, <1>inv, WriteCurrentEffect DEF JobInv
    <3>2. \A o \in Proc : done[o] \subseteq done'[o]
      BY <1>30, <1>done, <3>1, WriteCurrentEffect
    <3> QED
      BY <1>30, <1>len, <3>2, WriteCurrentEffect DEF Grows, Rely
  <2>2. \A q \in Proc \ {p} : job'[q] = job[q]
    BY <1>30, WriteCurrentEffect
  <2>3. JobInv(p)'
    BY <1>30, <1>inv, WriteCurrentEffect DEF JobInv, Opened
  <2>4. FilesInv'
    <3>1. job[p].op \in Proc /\ Opened(job[p].op, Commit)
      BY <1>30, <1>inv, WriteCurrentEffect DEF JobInv
    <3> QED
      BY <1>30, <1>inv, <2>1, <3>1, WriteCurrentEffect DEF FilesInv, Opened, Grows
  <2>5. DispatchInv'
    BY <1>30, <1>ty, <1>inv, <2>1, WriteCurrentEffect, DispatchStable
  <2> QED
    BY <1>ty, <1>inv, <2>1, <2>2, <2>3, <2>4, <2>5, RunStable, JobStable DEF StreamInv
<1>31. ASSUME NEW p \in Proc, FailRole(p) PROVE StreamInv'
  <2>1. Grows /\ \A q \in Proc : Rely(q)
    BY <1>31, <1>len, FailRoleEffect DEF Grows, Rely
  <2>2. \A q \in Proc \ {p} : job'[q] = job[q]
    BY <1>31, FailRoleEffect
  <2>3. JobInv(p)'
    BY <1>31, <1>inv, FailRoleEffect DEF JobInv, JobRunning
  <2>4. FilesInv'
    BY <1>31, <1>inv, <2>1, FailRoleEffect, FilesStable
  <2>5. DispatchInv'
    BY <1>31, <1>ty, <1>inv, <2>1, FailRoleEffect, DispatchStable
  <2> QED
    BY <1>ty, <1>inv, <2>1, <2>2, <2>3, <2>4, <2>5, RunStable, JobStable DEF StreamInv
<1>32. CASE UNCHANGED vars
  BY <1>32, <1>inv
  DEF vars, StreamInv, RunInv, LeaseInv, JobInv, FilesInv, DispatchInv, Opened, ReachedStep
<1> QED
  BY <1>0, <1>1, <1>2, <1>3, <1>4, <1>5, <1>6, <1>7, <1>8, <1>9, <1>10, <1>11, <1>12, <1>13,
      <1>14, <1>15, <1>16, <1>17, <1>18, <1>19, <1>20, <1>21, <1>22, <1>23, <1>24, <1>25, <1>26,
      <1>27, <1>28, <1>29, <1>30, <1>31, <1>32
  DEF Next, RunUnderLease, FreshRun, ResumeRun, DispatchLoop, RecoverCommit, EndRun, Role

-----------------------------------------------------------------------------
\* The types and the stream invariant hold throughout.
LEMMA StreamInvHolds == Spec => [](TypeInv /\ StreamInv)
BY InitTypeInv, TypeStep, InitStreamInv, StreamStep, PTL DEF Spec

\* decideStepResumption() and the fenced started event, for any number of late,
\* crashed and resumed invocations: a role other than state is dispatched at most
\* once in an operation.
THEOREM StepDispatchedOnceHolds == Spec => []StepDispatchedOnce
<1>1. StreamInv => StepDispatchedOnce
  BY DEF StreamInv, DispatchInv, StepDispatchedOnce
<1> QED
  BY <1>1, StreamInvHolds, PTL

\* readAndValidateEvents() accepts, and decideStepResumption() never calls corrupted,
\* any stream that any interleaving of invocations leaves on the target.
THEOREM StreamsStayReadableHolds == Spec => []StreamsStayReadable
<1>1. TypeInv /\ StreamInv => StreamsStayReadable
  <2> SUFFICES ASSUME TypeInv, StreamInv, NEW o \in Proc
               PROVE  /\ ReadAndValidateEvents(events[o])
                      /\ \A s \in Step : DecideStepResumption(events[o], s) # "corrupted"
    BY DEF StreamsStayReadable
  <2>1. events[o] \in Stream /\ Dispatched(events[o])
    BY StreamTypes DEF StreamInv, FilesInv
  <2>2. Step \subseteq Nat \ {0}
    BY ApplyAssumption DEF Step
  <2> QED
    BY <2>1, <2>2, DispatchedIsReadable
<1> QED
  BY <1>1, StreamInvHolds, PTL

\* The dispatch loop and roles/state, with orphaned roles: no pointer file and no
\* generation directory holds an operation before its other steps ran to their end.
THEOREM CommitAfterAllStepsHolds == Spec => []CommitAfterAllSteps
<1>1. TypeInv /\ StreamInv => CommitAfterAllSteps
  <2> SUFFICES ASSUME TypeInv, StreamInv, NEW o \in Proc,
                      o \in {topology, current} \/ \E g \in Generation : snapshot[g] = o,
                      NEW s \in Step \ {Commit}
               PROVE  s \in done[o]
    BY DEF CommitAfterAllSteps
  <2>1. FilesInv
    BY DEF StreamInv
  <2>2. Opened(o, Commit)
    BY <2>1 DEF FilesInv
  <2>3. /\ NSteps \in Nat \ {0} /\ Step = 1..NSteps /\ Commit = NSteps
        /\ events[o] \in Stream /\ Len(events[o]) \in Nat
    BY StreamTypes
  <2>4. s \in Nat \ {0} /\ Len(events[o]) > 2 * s
    BY <2>2, <2>3 DEF Opened
  <2>5. 2 * s \in DOMAIN events[o]
    BY <2>3, <2>4, StreamFacts
  <2>6. events[o][2 * s].phase = "succeeded"
    <3>1. Dispatched(events[o])
      BY <2>1 DEF FilesInv
    <3> QED
      BY <2>3, <2>4, <2>5, <3>1, PlaceOfEvent
  <2> QED
    BY <2>1, <2>3, <2>4, <2>6 DEF FilesInv
<1> QED
  BY <1>1, StreamInvHolds, PTL
=============================================================================
