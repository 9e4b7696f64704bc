------------------------ MODULE StepResumptionProofs ------------------------
(***************************************************************************)
(* Proofs about the readers of an event stream, for streams of any length  *)
(* over any number of steps and attempts: they accept exactly what a       *)
(* dispatcher can have written, decide each step by its real progress, and *)
(* never take a verdict back.                                              *)
(***************************************************************************)
EXTENDS MCStepResumption, TLAPS

\* The events of step s, as decideStepResumption() wants them.
StepWellFormed(st, s) ==
  LET at == EventsOf(st, s)
  IN  AttemptsInOrder(st, at) /\ \A a \in Attempts(st, at) : AttemptWellFormed(st, at, a)

\* l is the last event of step s.
LastOf(st, s, l) == l \in EventsOf(st, s) /\ \A j \in EventsOf(st, s) : j <= l

-----------------------------------------------------------------------------
(* One more event.                                                         *)

\* Positions of a stream.
LEMMA StreamPositions ==
  ASSUME NEW st \in Seq(Event)
  PROVE  Len(st) \in Nat /\ DOMAIN st = 1 .. Len(st) /\ \A i \in DOMAIN st : st[i] \in Event
OBVIOUS

\* Positions after an append.
LEMMA AppendPositions ==
  ASSUME NEW st \in Seq(Event), NEW e \in Event
  PROVE  LET st2 == Append(st, e)
             n == Len(st)
         IN  /\ n \in Nat /\ DOMAIN st = 1 .. n /\ DOMAIN st2 = 1 .. (n + 1)
             /\ st2 \in Seq(Event) /\ Len(st2) = n + 1 /\ st2[n + 1] = e
             /\ \A i \in 1 .. n : st2[i] = st[i] /\ st[i] \in Event
OBVIOUS

\* An event is appended to the events of its own step and to no other's.
LEMMA AppendEvents ==
  ASSUME NEW st \in Seq(Event), NEW e \in Event, NEW s
  PROVE  /\ s = e.step => EventsOf(Append(st, e), s) = EventsOf(st, s) \cup {Len(st) + 1}
         /\ s # e.step => EventsOf(Append(st, e), s) = EventsOf(st, s)
         /\ \A i \in EventsOf(st, s) : i \in 1 .. Len(st)
BY AppendPositions DEF EventsOf

\* What the readers ask about a set of positions depends on the events there only.
LEMMA SamePositions ==
  ASSUME NEW st, NEW st2, NEW at, \A i \in at : st2[i] = st[i]
  PROVE  /\ Attempts(st2, at) = Attempts(st, at)
         /\ AttemptsInOrder(st2, at) = AttemptsInOrder(st, at)
         /\ \A a : AttemptWellFormed(st2, at, a) = AttemptWellFormed(st, at, a)
         /\ \A ph : EndsIn(st2, at, ph) = EndsIn(st, at, ph)
<1>1. Attempts(st2, at) = Attempts(st, at)
  BY DEF Attempts
<1>2. AttemptsInOrder(st2, at) = AttemptsInOrder(st, at)
  BY <1>1 DEF AttemptsInOrder
<1>3. ASSUME NEW a PROVE AttemptWellFormed(st2, at, a) = AttemptWellFormed(st, at, a)
  <2> DEFINE mine == {i \in at : st[i].attempt = a}
  <2>1. {i \in at : st2[i].attempt = a} = mine
    OBVIOUS
  <2>2. \A i \in mine : st2[i] = st[i]
    OBVIOUS
  <2> QED
    BY <1>1, <2>1, <2>2 DEF AttemptWellFormed
<1>4. \A ph : EndsIn(st2, at, ph) = EndsIn(st, at, ph)
  BY DEF EndsIn
<1> QED
  BY <1>1, <1>2, <1>3, <1>4

\* A step none of whose events is new is decided as before.
LEMMA OtherStepsUnchanged ==
  ASSUME NEW st \in Seq(Event), NEW e \in Event, NEW s, s # e.step
  PROVE  /\ DecideStepResumption(Append(st, e), s) = DecideStepResumption(st, s)
         /\ StepWellFormed(Append(st, e), s) = StepWellFormed(st, s)
<1> DEFINE st2 == Append(st, e)
           at == EventsOf(st, s)
<1>1. EventsOf(st2, s) = at /\ \A i \in at : st2[i] = st[i]
  BY AppendEvents, AppendPositions
<1> HIDE DEF st2, at
<1>2. /\ Attempts(st2, at) = Attempts(st, at)
      /\ AttemptsInOrder(st2, at) = AttemptsInOrder(st, at)
      /\ \A a : AttemptWellFormed(st2, at, a) = AttemptWellFormed(st, at, a)
      /\ \A ph : EndsIn(st2, at, ph) = EndsIn(st, at, ph)
  BY <1>1, SamePositions
<1>3. DecideStepResumption(st2, s) = DecideStepResumption(st, s)
  BY <1>1, <1>2 DEF DecideStepResumption, at
<1>4. StepWellFormed(st2, s) = StepWellFormed(st, s)
  BY <1>1, <1>2 DEF StepWellFormed, at
<1> QED
  BY <1>3, <1>4 DEF st2

\* A decision, in terms of the last event.
LEMMA DecisionByLast ==
  ASSUME NEW st \in Seq(Event), NEW s
  PROVE  /\ DecideStepResumption(st, s) = "corrupted" <=>
              EventsOf(st, s) # {} /\ ~StepWellFormed(st, s)
         /\ EventsOf(st, s) = {} => DecideStepResumption(st, s) = "run"
         /\ \A l : LastOf(st, s, l) /\ StepWellFormed(st, s) =>
              DecideStepResumption(st, s) = CASE st[l].phase = "started" -> "blocked"
                                              [] st[l].phase = "failed" -> "failed"
                                              [] OTHER -> "skip"
         /\ DecideStepResumption(st, s) = "skip" =>
              StepWellFormed(st, s) /\ \E l : LastOf(st, s, l) /\ st[l].phase = "succeeded"
<1> DEFINE at == EventsOf(st, s)
<1>1. \A i \in at : i \in Nat /\ st[i].phase \in Phase
  <2>1. Len(st) \in Nat /\ DOMAIN st = 1 .. Len(st) /\ \A i \in DOMAIN st : st[i] \in Event
    BY StreamPositions
  <2>2. \A i \in at : i \in DOMAIN st
    BY DEF EventsOf
  <2> QED
    BY <2>1, <2>2 DEF Event
<1>2. \A l : LastOf(st, s, l) => \A ph : EndsIn(st, at, ph) <=> st[l].phase = ph
  BY <1>1 DEF LastOf, EndsIn
<1>3. EndsIn(st, at, "succeeded") => \E l : LastOf(st, s, l) /\ st[l].phase = "succeeded"
  BY DEF LastOf, EndsIn
<1> HIDE DEF at
<1>4. /\ at = {} => DecideStepResumption(st, s) = "run"
      /\ at # {} /\ ~StepWellFormed(st, s) => DecideStepResumption(st, s) = "corrupted"
      /\ at # {} /\ StepWellFormed(st, s) =>
           DecideStepResumption(st, s) = IF EndsIn(st, at, "succeeded") THEN "skip"
                                         ELSE IF EndsIn(st, at, "failed") THEN "failed" ELSE "blocked"
  BY DEF DecideStepResumption, StepWellFormed, at
<1>5. \A l : LastOf(st, s, l) => at # {} /\ st[l].phase \in Phase
  BY <1>1 DEF LastOf, at
<1> QED
  BY <1>2, <1>3, <1>4, <1>5 DEF at, Phase

-----------------------------------------------------------------------------
(* One more event of the same step: st becomes st2 by the event at position *)
(* n, after all events of the step.                                        *)

\* The events of a step are those at the positions at, and in st2 also the one at
\* position n, after the others; at2 are the positions with n.
OneMore(st, st2, at, at2, n) ==
  /\ n \in Nat /\ at2 = at \cup {n}
  /\ \A i \in at : /\ i \in Nat /\ i < n /\ st2[i] = st[i]
                   /\ st[i].attempt \in Nat /\ st[i].phase \in Phase
  /\ st2[n].attempt \in Nat /\ st2[n].phase \in Phase

WellFormedAt(st, at) ==
  AttemptsInOrder(st, at) /\ \A a \in Attempts(st, at) : AttemptWellFormed(st, at, a)

\* The events of one attempt.
OfAttempt(st, at, a) == {i \in at : st[i].attempt = a}

\* The attempts, and the events of one attempt, afterwards.
LEMMA OneMoreAttempts ==
  ASSUME NEW st, NEW st2, NEW at, NEW at2, NEW n, OneMore(st, st2, at, at2, n),
         NEW b, b = st2[n].attempt
  PROVE  /\ n \notin at /\ n \in Nat /\ b \in Nat
         /\ Attempts(st2, at2) = Attempts(st, at) \cup {b}
         /\ \A a \in Attempts(st, at) : a \in Nat
         /\ \A a : a # b => OfAttempt(st2, at2, a) = OfAttempt(st, at, a)
         /\ OfAttempt(st2, at2, b) = OfAttempt(st, at, b) \cup {n}
         /\ \A i \in at : i < n /\ i \in Nat /\ st2[i] = st[i]
<1>1. n \notin at /\ n \in Nat /\ b \in Nat
  BY DEF OneMore
<1>2. Attempts(st2, at2) = Attempts(st, at) \cup {b}
  BY DEF OneMore, Attempts
<1>3. \A a \in Attempts(st, at) : a \in Nat
  BY DEF OneMore, Attempts
<1>4. \A a : a # b => OfAttempt(st2, at2, a) = OfAttempt(st, at, a)
  BY DEF OneMore, OfAttempt
<1>5. OfAttempt(st2, at2, b) = OfAttempt(st, at, b) \cup {n}
  BY DEF OneMore, OfAttempt
<1> QED
  BY <1>1, <1>2, <1>3, <1>4, <1>5 DEF OneMore

\* Nothing that comes later repairs a step.
LEMMA StaysCorrupted ==
  ASSUME NEW st, NEW st2, NEW at, NEW at2, NEW n, OneMore(st, st2, at, at2, n), WellFormedAt(st2, at2)
  PROVE  WellFormedAt(st, at)
<1> DEFINE b == st2[n].attempt
           A == Attempts(st, at)
           A2 == Attempts(st2, at2)
           Mine(a) == OfAttempt(st, at, a)
           Mine2(a) == OfAttempt(st2, at2, a)
<1>1. /\ n \notin at /\ n \in Nat /\ b \in Nat
      /\ A2 = A \cup {b} /\ \A a \in A : a \in Nat
      /\ \A a : a # b => Mine2(a) = Mine(a)
      /\ Mine2(b) = Mine(b) \cup {n}
  <2>0. b = st2[n].attempt
    OBVIOUS
  <2> HIDE DEF b
  <2> QED
    BY <2>0, OneMoreAttempts
<1>2. at2 = at \cup {n} /\ \A i \in at : i < n /\ i \in Nat /\ st2[i] = st[i]
  BY DEF OneMore
<1>3. /\ \A i, j \in at2 : i < j => st2[i].attempt <= st2[j].attempt
      /\ \A a \in A2 : a >= 1 /\ 1 .. a \subseteq A2
      /\ \A a \in A2 : AttemptWellFormed(st2, at2, a)
  BY DEF WellFormedAt, AttemptsInOrder
<1>4. \A a \in A : a <= b
  <2> TAKE a \in A
  <2>1. PICK i \in at : st[i].attempt = a
    BY DEF Attempts
  <2>2. i \in at2 /\ n \in at2 /\ i < n
    BY <1>2
  <2> QED
    BY <1>2, <1>3, <2>1, <2>2
<1>5. AttemptsInOrder(st, at)
  <2>1. \A i, j \in at : i < j => st[i].attempt <= st[j].attempt
    BY <1>2, <1>3
  <2>2. ASSUME NEW a \in A, NEW k \in 1 .. a PROVE k \in A
    <3>1. k \in A \/ k = b
      BY <1>1, <1>3
    <3>2. k <= a /\ a <= b /\ k \in Nat /\ a \in Nat
      BY <1>1, <1>4
    <3> QED
      BY <1>1, <3>1, <3>2
  <2>3. \A a \in A : a >= 1
    BY <1>1, <1>3
  <2> QED
    BY <2>1, <2>2, <2>3 DEF AttemptsInOrder
<1>6. ASSUME NEW a \in A PROVE AttemptWellFormed(st, at, a)
  <2>1. PICK i \in Mine2(a) :
          /\ st2[i].phase = "started"
          /\ \/ Mine2(a) = {i} /\ a + 1 \notin A2
             \/ \E j \in Mine2(a) : /\ i < j /\ Mine2(a) = {i, j}
                                    /\ st2[j].phase \in {"succeeded", "failed"}
                                    /\ a + 1 \in A2 => st2[j].phase = "failed"
    <3>1. AttemptWellFormed(st2, at2, a)
      BY <1>1, <1>3
    <3> QED
      BY <3>1 DEF AttemptWellFormed, OfAttempt
  <2>2. \A j \in Mine(a) : st2[j] = st[j]
    BY <1>2 DEF OfAttempt
  <2>3. Mine(a) # {}
    BY DEF Attempts, OfAttempt
  <2>4. CASE a # b
    <3>1. Mine2(a) = Mine(a)
      BY <1>1, <2>4
    <3> HIDE DEF Mine, Mine2
    <3>2. \/ Mine(a) = {i} /\ a + 1 \notin A
          \/ \E j \in Mine(a) : /\ i < j /\ Mine(a) = {i, j}
                                /\ st[j].phase \in {"succeeded", "failed"}
                                /\ a + 1 \in A => st[j].phase = "failed"
      BY <1>1, <2>1, <2>2, <3>1
    <3>3. i \in Mine(a) /\ st[i].phase = "started"
      BY <2>1, <2>2, <3>1
    <3> QED
      BY <3>2, <3>3 DEF AttemptWellFormed, Mine, OfAttempt
  <2>5. CASE a = b
    <3>1. Mine2(a) = Mine(a) \cup {n} /\ n \notin Mine(a)
      BY <1>1, <2>5 DEF OfAttempt
    <3>2. a + 1 \notin A
      BY <1>1, <1>4, <2>5
    <3>3. \A j \in Mine2(a) : j <= n /\ j \in Nat
      BY <1>1, <1>2, <3>1 DEF OfAttempt
    <3> HIDE DEF Mine, Mine2
    <3>4. i # n /\ Mine(a) = {i} /\ st[i].phase = "started"
      BY <2>1, <2>2, <2>3, <3>1, <3>3
    <3> QED
      BY <3>2, <3>4 DEF AttemptWellFormed, Mine, OfAttempt
  <2> QED
    BY <2>4, <2>5
<1> QED
  BY <1>5, <1>6 DEF WellFormedAt
\* What may follow an event of the same step.
Continues(last, e) ==
  \/ /\ last.phase = "started" /\ e.attempt = last.attempt
     /\ e.phase \in {"succeeded", "failed"}
  \/ /\ last.phase = "failed" /\ e.attempt = last.attempt + 1 /\ e.phase = "started"

\* A step's first event is the start of attempt 1.
LEMMA FirstEventStarts ==
  ASSUME NEW st, NEW st2, NEW at, NEW at2, NEW n, OneMore(st, st2, at, at2, n), at = {}
  PROVE  WellFormedAt(st2, at2) <=> st2[n].attempt = 1 /\ st2[n].phase = "started"
<1> DEFINE b == st2[n].attempt
<1>1. at2 = {n} /\ b \in Nat /\ n \in Nat
  BY DEF OneMore
<1>2. Attempts(st2, at2) = {b}
  BY <1>1 DEF Attempts
<1>3. {i \in at2 : st2[i].attempt = b} = {n}
  BY <1>1
<1>4. AttemptsInOrder(st2, at2) <=> b = 1
  <2>1. ASSUME AttemptsInOrder(st2, at2) PROVE b = 1
    <3>1. b >= 1 /\ 1 .. b \subseteq {b}
      BY <1>2, <2>1 DEF AttemptsInOrder
    <3> QED
      BY <1>1, <3>1
  <2>2. ASSUME b = 1 PROVE AttemptsInOrder(st2, at2)
    BY <1>1, <1>2, <2>2 DEF AttemptsInOrder
  <2> QED
    BY <2>1, <2>2
<1>5. AttemptWellFormed(st2, at2, b) <=> st2[n].phase = "started"
  <2>1. b + 1 \notin Attempts(st2, at2)
    BY <1>1, <1>2
  <2> QED
    BY <1>1, <1>3, <2>1 DEF AttemptWellFormed
<1> QED
  BY <1>2, <1>4, <1>5 DEF WellFormedAt

\* Only the next event of a well-formed step keeps it well formed.
LEMMA WellFormedContinues ==
  ASSUME NEW st, NEW st2, NEW at, NEW at2, NEW n, OneMore(st, st2, at, at2, n),
         NEW l \in at, \A j \in at : j <= l, WellFormedAt(st2, at2)
  PROVE  Continues(st[l], st2[n])
<1> DEFINE A == Attempts(st, at)
           A2 == Attempts(st2, at2)
           Mine(a) == OfAttempt(st, at, a)
           Mine2(a) == OfAttempt(st2, at2, a)
<1>0. PICK b : b = st2[n].attempt
  OBVIOUS
<1>a. PICK a : a = st[l].attempt
  OBVIOUS
<1>1. /\ n \notin at /\ n \in Nat /\ b \in Nat
      /\ A2 = A \cup {b} /\ \A c \in A : c \in Nat
      /\ \A c : c # b => Mine2(c) = Mine(c)
      /\ Mine2(b) = Mine(b) \cup {n}
      /\ \A i \in at : i < n /\ i \in Nat /\ st2[i] = st[i]
  BY <1>0, OneMoreAttempts
<1>2. at2 = at \cup {n} /\ st2[l] = st[l] /\ a \in A /\ a \in Nat /\ l < n /\ l \in Nat
  BY <1>1, <1>a DEF OneMore, Attempts
<1>3. /\ \A i, j \in at2 : i < j => st2[i].attempt <= st2[j].attempt
      /\ \A c \in A2 : c >= 1 /\ 1 .. c \subseteq A2
      /\ \A c \in A2 : AttemptWellFormed(st2, at2, c)
  BY DEF WellFormedAt, AttemptsInOrder
<1>4. \A c \in A : c <= a
  <2> TAKE c \in A
  <2>1. PICK i \in at : st[i].attempt = c
    BY DEF Attempts
  <2>2. i <= l /\ i \in Nat /\ i \in at2 /\ l \in at2
    BY <1>1, <1>2
  <2>3. CASE i = l
    BY <1>2, <1>a, <2>1, <2>3
  <2>4. CASE i < l
    BY <1>1, <1>3, <1>a, <2>1, <2>2, <2>4
  <2> QED
    BY <1>2, <2>2, <2>3, <2>4
<1>5. a <= b
  BY <1>0, <1>2, <1>3, <1>a
<1>6. ASSUME NEW c \in A2
      PROVE  \E i \in Mine2(c) :
               /\ st2[i].phase = "started"
               /\ \/ Mine2(c) = {i} /\ c + 1 \notin A2
                  \/ \E j \in Mine2(c) : /\ i < j /\ Mine2(c) = {i, j}
                                         /\ st2[j].phase \in {"succeeded", "failed"}
                                         /\ c + 1 \in A2 => st2[j].phase = "failed"
  <2>1. AttemptWellFormed(st2, at2, c)
    BY <1>3
  <2> QED
    BY <2>1 DEF AttemptWellFormed, OfAttempt
<1>7. l \in Mine(a) /\ (\A j \in Mine(a) : j <= l /\ j \in Nat) /\ (\A c : Mine(c) # {} => c \in A)
  BY <1>1, <1>a DEF OfAttempt, Attempts
<1> HIDE DEF A, A2, Mine, Mine2
<1>8. CASE b = a
  <2>1. Mine2(a) = Mine(a) \cup {n}
    BY <1>1, <1>8
  <2>2. a \in A2
    BY <1>1, <1>2
  <2>3. PICK i \in Mine2(a), j \in Mine2(a) :
          /\ st2[i].phase = "started" /\ i < j /\ Mine2(a) = {i, j}
          /\ st2[j].phase \in {"succeeded", "failed"}
    BY <1>1, <1>2, <1>6, <1>7, <2>1, <2>2
  <2>4. i = l /\ j = n
    BY <1>1, <1>2, <1>7, <2>1, <2>3
  <2> QED
    BY <1>0, <1>2, <1>8, <1>a, <2>3, <2>4 DEF Continues
<1>9. CASE b > a
  <2>1. b = a + 1
    <3>1. a + 1 \in 1 .. b /\ b \in A2
      BY <1>1, <1>2, <1>9
    <3>2. a + 1 \in A2
      BY <1>3, <3>1
    <3> QED
      BY <1>1, <1>2, <1>4, <3>2
  <2>2. st2[n].phase = "started"
    <3>1. Mine2(b) = {n} /\ b \in A2
      BY <1>1, <1>2, <1>4, <1>7, <1>9
    <3> QED
      BY <1>6, <3>1
  <2>3. st[l].phase = "failed"
    <3>1. Mine2(a) = Mine(a) /\ a + 1 \in A2 /\ a \in A2
      BY <1>1, <1>2, <1>9, <2>1
    <3>2. PICK i \in Mine2(a), j \in Mine2(a) :
            i < j /\ Mine2(a) = {i, j} /\ st2[j].phase = "failed"
      BY <1>6, <3>1
    <3>3. l = j
      BY <1>7, <3>1, <3>2
    <3> QED
      BY <1>2, <3>2, <3>3
  <2> QED
    BY <1>0, <1>a, <2>1, <2>2, <2>3 DEF Continues
<1> QED
  BY <1>1, <1>2, <1>5, <1>8, <1>9

\* The next event of a well-formed step keeps it well formed.
LEMMA ContinuesWellFormed ==
  ASSUME NEW st, NEW st2, NEW at, NEW at2, NEW n, OneMore(st, st2, at, at2, n),
         NEW l \in at, \A j \in at : j <= l, WellFormedAt(st, at), Continues(st[l], st2[n])
  PROVE  WellFormedAt(st2, at2)
<1> DEFINE A == Attempts(st, at)
           A2 == Attempts(st2, at2)
           Mine(a) == OfAttempt(st, at, a)
           Mine2(a) == OfAttempt(st2, at2, a)
<1>0. PICK b : b = st2[n].attempt
  OBVIOUS
<1>a. PICK a : a = st[l].attempt
  OBVIOUS
<1>1. /\ n \notin at /\ n \in Nat /\ b \in Nat
      /\ A2 = A \cup {b} /\ \A c \in A : c \in Nat
      /\ \A c : c # b => Mine2(c) = Mine(c)
      /\ Mine2(b) = Mine(b) \cup {n}
      /\ \A i \in at : i < n /\ i \in Nat /\ st2[i] = st[i]
  BY <1>0, OneMoreAttempts
<1>2. at2 = at \cup {n} /\ st2[l] = st[l] /\ a \in A /\ a \in Nat /\ l < n /\ l \in Nat
  BY <1>1, <1>a DEF OneMore, Attempts
<1>3. /\ \A i, j \in at : i < j => st[i].attempt <= st[j].attempt
      /\ \A c \in A : c >= 1 /\ 1 .. c \subseteq A
      /\ \A c \in A : AttemptWellFormed(st, at, c)
  BY DEF WellFormedAt, AttemptsInOrder
<1>4. \A i \in at : st[i].attempt \in A /\ st[i].attempt <= a
  <2> TAKE i \in at
  <2>1. st[i].attempt \in A
    BY DEF Attempts
  <2>2. i <= l /\ i \in Nat
    BY <1>1
  <2>3. CASE i = l
    BY <1>2, <1>a, <2>3
  <2>4. CASE i < l
    BY <1>2, <1>3, <1>a, <2>1, <2>2, <2>4
  <2> QED
    BY <1>2, <2>1, <2>2, <2>3, <2>4
<1>5. \A c \in A : c <= a /\ c >= 1
  BY <1>3, <1>4 DEF Attempts
<1>6. ASSUME NEW c \in A
      PROVE  \E i \in Mine(c) :
               /\ st[i].phase = "started"
               /\ \/ Mine(c) = {i} /\ c + 1 \notin A
                  \/ \E j \in Mine(c) : /\ i < j /\ Mine(c) = {i, j}
                                        /\ st[j].phase \in {"succeeded", "failed"}
                                        /\ c + 1 \in A => st[j].phase = "failed"
  <2>1. AttemptWellFormed(st, at, c)
    BY <1>3
  <2> QED
    BY <2>1 DEF AttemptWellFormed, OfAttempt
<1>7. /\ l \in Mine(a) /\ (\A j \in Mine(a) : j <= l)
      /\ (\A c : Mine(c) # {} => c \in A)
      /\ (\A c : \A j \in Mine(c) : j \in Nat /\ j < n /\ st2[j] = st[j])
  BY <1>1, <1>a DEF OfAttempt, Attempts
<1>8. b = a \/ b = a + 1
  BY <1>0, <1>a DEF Continues
<1>9. AttemptsInOrder(st2, at2)
  <2>1. \A i, j \in at2 : i < j => st2[i].attempt <= st2[j].attempt
    <3> TAKE i, j \in at2
    <3> HAVE i < j
    <3>1. i \in at
      BY <1>1, <1>2
    <3>2. CASE j \in at
      BY <1>1, <1>3, <3>1, <3>2
    <3>3. CASE j = n
      BY <1>0, <1>1, <1>2, <1>4, <1>8, <3>1, <3>3
    <3> QED
      BY <1>2, <3>2, <3>3
  <2>2. \A c \in A2 : c >= 1 /\ 1 .. c \subseteq A2
    <3> TAKE c \in A2
    <3> HIDE DEF A, A2
    <3>1. CASE c \in A
      BY <1>1, <1>3, <3>1
    <3>2. CASE c = b /\ b = a + 1
      <4>1. 1 .. a \subseteq A
        BY <1>2, <1>3
      <4> QED
        BY <1>1, <1>2, <3>2, <4>1
    <3> QED
      BY <1>1, <1>2, <1>8, <3>1, <3>2
  <2> QED
    BY <2>1, <2>2 DEF AttemptsInOrder
<1>10. ASSUME NEW c \in A2 PROVE AttemptWellFormed(st2, at2, c)
  <2> SUFFICES \E i \in Mine2(c) :
                 /\ st2[i].phase = "started"
                 /\ \/ Mine2(c) = {i} /\ c + 1 \notin A2
                    \/ \E j \in Mine2(c) : /\ i < j /\ Mine2(c) = {i, j}
                                           /\ st2[j].phase \in {"succeeded", "failed"}
                                           /\ c + 1 \in A2 => st2[j].phase = "failed"
    BY DEF AttemptWellFormed, OfAttempt
  <2> HIDE DEF A, A2, Mine, Mine2
  <2>1. CASE b = a
    <3>1. st[l].phase = "started" /\ st2[n].phase \in {"succeeded", "failed"}
      BY <1>0, <1>2, <1>a, <2>1 DEF Continues
    <3>2. A2 = A /\ c \in A
      BY <1>1, <1>2, <2>1
    <3>3. CASE c # b
      <4>1. Mine2(c) = Mine(c)
        BY <1>1, <3>3
      <4> QED
        BY <1>6, <1>7, <3>2, <4>1
    <3>4. CASE c = b
      <4>1. Mine(a) = {l} /\ a + 1 \notin A
        <5>1. PICK i \in Mine(a) :
                /\ st[i].phase = "started"
                /\ \/ Mine(a) = {i} /\ a + 1 \notin A
                   \/ \E j \in Mine(a) : /\ i < j /\ Mine(a) = {i, j}
                                         /\ st[j].phase \in {"succeeded", "failed"}
          BY <1>2, <1>6
        <5>2. CASE Mine(a) = {i}
          BY <1>2, <1>5, <1>7, <5>1, <5>2
        <5>3. ASSUME NEW j \in Mine(a), i < j, Mine(a) = {i, j},
                     st[j].phase \in {"succeeded", "failed"}
              PROVE  FALSE
          <6>1. l = j
            BY <1>7, <5>3
          <6> QED
            BY <3>1, <5>3, <6>1
        <5> QED
          BY <5>1, <5>2, <5>3
      <4>2. Mine2(a) = {l, n} /\ l \in Mine2(a) /\ n \in Mine2(a)
        BY <1>1, <2>1, <4>1
      <4> QED
        BY <1>2, <2>1, <3>1, <3>2, <3>4, <4>1, <4>2
    <3> QED
      BY <3>3, <3>4
  <2>2. CASE b = a + 1
    <3>1. st[l].phase = "failed" /\ st2[n].phase = "started"
      BY <1>0, <1>2, <1>a, <2>2 DEF Continues
    <3>2. b \notin A /\ b + 1 \notin A2
      BY <1>1, <1>2, <1>5, <2>2
    <3>3. CASE c = b
      <4>1. Mine2(b) = {n}
        BY <1>1, <1>7, <3>2
      <4> QED
        BY <3>1, <3>2, <3>3, <4>1
    <3>4. CASE c # b /\ c # a
      <4>1. Mine2(c) = Mine(c) /\ c \in A /\ c \in Nat
        BY <1>1, <3>4
      <4>2. c + 1 \in A2 <=> c + 1 \in A
        BY <1>1, <1>2, <2>2, <3>4, <4>1
      <4> QED
        BY <1>6, <1>7, <4>1, <4>2
    <3>5. CASE c = a
      <4>1. Mine2(a) = Mine(a)
        BY <1>1, <1>2, <2>2
      <4>2. PICK i \in Mine(a) :
              /\ st[i].phase = "started"
              /\ \/ Mine(a) = {i}
                 \/ \E j \in Mine(a) : i < j /\ Mine(a) = {i, j}
        BY <1>2, <1>6
      <4>3. i # l
        BY <3>1, <4>2
      <4>4. i < l /\ Mine(a) = {i, l}
        BY <1>7, <4>2, <4>3
      <4> QED
        BY <1>7, <3>1, <3>5, <4>1, <4>2, <4>4
    <3> QED
      BY <3>3, <3>4, <3>5
  <2> QED
    BY <1>8, <2>1, <2>2
<1> QED
  BY <1>9, <1>10 DEF WellFormedAt

-----------------------------------------------------------------------------
(* The same for a whole stream and one more event.                         *)

\* The positions of a step before and after an event of that step.
LEMMA StepGetsEvent ==
  ASSUME NEW st \in Seq(Event), NEW e \in Event, NEW n, n = Len(st) + 1,
         NEW st2, st2 = Append(st, e),
         NEW at, at = EventsOf(st, e.step), NEW at2, at2 = EventsOf(st2, e.step)
  PROVE  OneMore(st, st2, at, at2, n)
<1>1. at2 = at \cup {n} /\ \A i \in at : i \in 1 .. Len(st)
  BY AppendEvents
<1>2. /\ Len(st) \in Nat /\ st2[n] = e
      /\ \A i \in 1 .. Len(st) : st2[i] = st[i] /\ st[i] \in Event
  BY AppendPositions
<1>3. \A x \in Event : x.attempt \in Nat /\ x.phase \in Phase
  BY StreamBounds DEF Event
<1> QED
  BY <1>1, <1>2, <1>3 DEF OneMore

\* A corrupted step stays corrupted.
LEMMA CorruptedStays ==
  ASSUME NEW st \in Seq(Event), NEW e \in Event, NEW s,
         DecideStepResumption(st, s) = "corrupted"
  PROVE  DecideStepResumption(Append(st, e), s) = "corrupted"
<1>1. CASE s # e.step
  BY <1>1, OtherStepsUnchanged
<1>2. CASE s = e.step
  <2>0. PICK st2 : st2 = Append(st, e)
    OBVIOUS
  <2>a. PICK at : at = EventsOf(st, e.step)
    OBVIOUS
  <2>b. PICK at2 : at2 = EventsOf(st2, e.step)
    OBVIOUS
  <2>c. PICK n : n = Len(st) + 1
    OBVIOUS
  <2>1. /\ OneMore(st, st2, at, at2, n)
        /\ StepWellFormed(st, e.step) <=> WellFormedAt(st, at)
        /\ StepWellFormed(st2, e.step) <=> WellFormedAt(st2, at2)
    <3>1. OneMore(st, st2, at, at2, n)
      BY ONLY st \in Seq(Event), e \in Event, <2>0, <2>a, <2>b, <2>c, StepGetsEvent
    <3>2. StepWellFormed(st, e.step) <=> WellFormedAt(st, at)
      BY <2>a DEF StepWellFormed, WellFormedAt
    <3>3. StepWellFormed(st2, e.step) <=> WellFormedAt(st2, at2)
      BY <2>b DEF StepWellFormed, WellFormedAt
    <3> QED
      BY <3>1, <3>2, <3>3
  <2>2. ~StepWellFormed(st, s)
    BY DecisionByLast
  <2>3. ~StepWellFormed(st2, s)
    BY <1>2, <2>1, <2>2, StaysCorrupted
  <2>4. st2 \in Seq(Event) /\ EventsOf(st2, s) # {}
    BY <1>2, <2>0, <2>1, <2>b, AppendPositions DEF OneMore
  <2> QED
    BY <2>0, <2>3, <2>4, DecisionByLast
<1> QED
  BY <1>1, <1>2

\* A step that was resolved as done gets no further event that is not an error.
LEMMA DoneStays ==
  ASSUME NEW st \in Seq(Event), NEW e \in Event, NEW s, DecideStepResumption(st, s) = "skip"
  PROVE  DecideStepResumption(Append(st, e), s) \in {"skip", "corrupted"}
<1>1. CASE s # e.step
  BY <1>1, OtherStepsUnchanged
<1>2. CASE s = e.step
  <2>0. PICK st2 : st2 = Append(st, e)
    OBVIOUS
  <2>a. PICK at : at = EventsOf(st, e.step)
    OBVIOUS
  <2>b. PICK at2 : at2 = EventsOf(st2, e.step)
    OBVIOUS
  <2>c. PICK n : n = Len(st) + 1
    OBVIOUS
  <2>1. /\ OneMore(st, st2, at, at2, n) /\ st2[n] = e
        /\ StepWellFormed(st2, e.step) <=> WellFormedAt(st2, at2)
    <3>1. OneMore(st, st2, at, at2, n)
      BY ONLY st \in Seq(Event), e \in Event, <2>0, <2>a, <2>b, <2>c, StepGetsEvent
    <3>2. st2[n] = e
      BY <2>0, <2>c, AppendPositions
    <3>3. StepWellFormed(st2, e.step) <=> WellFormedAt(st2, at2)
      BY <2>b DEF StepWellFormed, WellFormedAt
    <3> QED
      BY <3>1, <3>2, <3>3
  <2>2. PICK l : LastOf(st, s, l) /\ st[l].phase = "succeeded"
    BY DecisionByLast
  <2>3. ~Continues(st[l], e)
    BY <2>2 DEF Continues
  <2>4. l \in at /\ \A j \in at : j <= l
    BY <1>2, <2>2, <2>a DEF LastOf
  <2>5. ~StepWellFormed(st2, s)
    BY <1>2, <2>1, <2>3, <2>4, WellFormedContinues
  <2>6. st2 \in Seq(Event) /\ EventsOf(st2, s) # {}
    BY <1>2, <2>0, <2>1, <2>b, AppendPositions DEF OneMore
  <2> QED
    BY <2>0, <2>5, <2>6, DecisionByLast
<1> QED
  BY <1>1, <1>2

\* The order of the stream is checked event by event.
InPlanOrder(st, e) ==
  LET open == IF st = <<>> THEN 0 ELSE st[Len(st)].step
  IN  \/ st # <<>> /\ e.step = open
      \/ /\ e.step = open + 1
         /\ open >= 1 => DecideStepResumption(st, open) = "skip"

\* Prefixes of a stream and of the stream with one more event.
LEMMA PrefixOfAppend ==
  ASSUME NEW st \in Seq(Event), NEW e \in Event
  PROVE  /\ \A i \in 1 .. Len(st) : SubSeq(Append(st, e), 1, i - 1) = SubSeq(st, 1, i - 1)
         /\ SubSeq(Append(st, e), 1, Len(st)) = st
OBVIOUS

\* One more event is read if the stream was and the event is in plan order.
LEMMA ReadOneMore ==
  ASSUME NEW st \in Seq(Event), NEW e \in Event
  PROVE  ReadAndValidateEvents(Append(st, e)) <=> ReadAndValidateEvents(st) /\ InPlanOrder(st, e)
<1> DEFINE st2 == Append(st, e)
           n == Len(st)
           Open(x, i) == IF i = 1 THEN 0 ELSE x[i - 1].step
           Ok(x, i) == \/ i > 1 /\ x[i].step = Open(x, i)
                       \/ /\ x[i].step = Open(x, i) + 1
                          /\ Open(x, i) >= 1 =>
                               DecideStepResumption(SubSeq(x, 1, i - 1), Open(x, i)) = "skip"
<1>1. /\ n \in Nat /\ DOMAIN st = 1 .. n /\ DOMAIN st2 = 1 .. (n + 1) /\ st2[n + 1] = e
      /\ \A i \in 1 .. n : st2[i] = st[i]
  BY AppendPositions
<1>2. n = 0 <=> st = <<>>
  OBVIOUS
<1>3. /\ \A i \in 1 .. n : SubSeq(st2, 1, i - 1) = SubSeq(st, 1, i - 1)
      /\ SubSeq(st2, 1, n) = st
  BY PrefixOfAppend
<1>4. \A x : ReadAndValidateEvents(x) <=> \A i \in DOMAIN x : Ok(x, i)
  BY DEF ReadAndValidateEvents
<1> HIDE DEF st2, n
<1>5. \A i \in 1 .. n : Ok(st2, i) = Ok(st, i)
  <2> TAKE i \in 1 .. n
  <2>1. Open(st2, i) = Open(st, i)
    BY <1>1
  <2>2. st2[i] = st[i] /\ SubSeq(st2, 1, i - 1) = SubSeq(st, 1, i - 1)
    BY <1>1, <1>3
  <2> HIDE DEF Open
  <2> QED
    BY <2>1, <2>2
<1>6. Ok(st2, n + 1) <=> InPlanOrder(st, e)
  <2>1. Open(st2, n + 1) = IF st = <<>> THEN 0 ELSE st[Len(st)].step
    BY <1>1, <1>2 DEF n
  <2>2. SubSeq(st2, 1, (n + 1) - 1) = st /\ st2[n + 1] = e
    <3>1. (n + 1) - 1 = n
      BY <1>1
    <3> QED
      BY <1>1, <1>3, <3>1
  <2>3. n + 1 > 1 <=> st # <<>>
    BY <1>1, <1>2
  <2> HIDE DEF Open
  <2> QED
    BY <2>1, <2>2, <2>3 DEF InPlanOrder
<1> HIDE DEF Ok
<1>7. (\A i \in 1 .. (n + 1) : Ok(st2, i)) <=> (\A i \in 1 .. n : Ok(st, i)) /\ Ok(st2, n + 1)
  <2>1. \A i : i \in 1 .. (n + 1) <=> i \in 1 .. n \/ i = n + 1
    BY <1>1
  <2> QED
    BY <1>5, <2>1
<1> QED
  BY <1>1, <1>4, <1>6, <1>7 DEF st2

\* The stream is read without complaint.
Accepted(st) ==
  /\ ReadAndValidateEvents(st)
  /\ \A s \in 1 .. NSteps : DecideStepResumption(st, s) # "corrupted"

\* What the plan's dispatch may append, by the readers' own terms.
LEMMA ReadersAllowLegalNext ==
  ASSUME NEW st \in Seq(Event), NEW e \in Event, Accepted(st),
         st # <<>> => \A i \in DOMAIN st : st[i].step <= st[Len(st)].step,
         NEW ok \in BOOLEAN,
         ok <=> IF st = <<>> THEN e = BuildEvent(1, 1, "started")
                ELSE LET last == st[Len(st)] IN
                     CASE last.phase = "started" ->
                            /\ e.step = last.step /\ e.attempt = last.attempt
                            /\ e.phase \in {"succeeded", "failed"}
                       [] last.phase = "failed" ->
                            e = BuildEvent(last.step, last.attempt + 1, "started")
                       [] OTHER -> e = BuildEvent(last.step + 1, 1, "started")
  PROVE  Accepted(Append(st, e)) <=> ok
<1> DEFINE l == Len(st)
<1>0. PICK st2 : st2 = Append(st, e)
  OBVIOUS
<1>a. PICK at : at = EventsOf(st, e.step)
  OBVIOUS
<1>b. PICK at2 : at2 = EventsOf(st2, e.step)
  OBVIOUS
<1>c. PICK n : n = Len(st) + 1
  OBVIOUS
<1>1. /\ OneMore(st, st2, at, at2, n) /\ st2[n] = e
      /\ StepWellFormed(st, e.step) <=> WellFormedAt(st, at)
      /\ StepWellFormed(st2, e.step) <=> WellFormedAt(st2, at2)
  <2>1. OneMore(st, st2, at, at2, n)
    BY ONLY st \in Seq(Event), e \in Event, <1>0, <1>a, <1>b, <1>c, StepGetsEvent
  <2>2. st2[n] = e
    BY <1>0, <1>c, AppendPositions
  <2>3. StepWellFormed(st, e.step) <=> WellFormedAt(st, at)
    BY <1>a DEF StepWellFormed, WellFormedAt
  <2>4. StepWellFormed(st2, e.step) <=> WellFormedAt(st2, at2)
    BY <1>b DEF StepWellFormed, WellFormedAt
  <2> QED
    BY <2>1, <2>2, <2>3, <2>4
<1>2. e.step \in 1 .. NSteps /\ e.attempt \in 1 .. MaxAttempt /\ e.phase \in Phase /\ e.step \in Nat
  BY StreamBounds DEF Event
<1>3. Accepted(st2) <=> InPlanOrder(st, e) /\ StepWellFormed(st2, e.step)
  <2>1. ReadAndValidateEvents(st2) <=> InPlanOrder(st, e)
    BY <1>0, ReadOneMore DEF Accepted
  <2>2. \A s \in 1 .. NSteps : s # e.step => DecideStepResumption(st2, s) # "corrupted"
    BY <1>0, OtherStepsUnchanged DEF Accepted
  <2>3. DecideStepResumption(st2, e.step) = "corrupted" <=> ~StepWellFormed(st2, e.step)
    <3>1. st2 \in Seq(Event) /\ at2 # {}
      BY <1>0, <1>1, AppendPositions DEF OneMore
    <3> QED
      BY <1>b, <3>1, DecisionByLast
  <2> QED
    BY <1>2, <2>1, <2>2, <2>3 DEF Accepted
<1>4. l \in Nat /\ DOMAIN st = 1 .. l /\ (\A i \in 1 .. l : st[i] \in Event) /\ (l = 0 <=> st = <<>>)
  BY StreamPositions
<1>5. \A i \in 1 .. l : st[i].step \in Nat \ {0} /\ st[i].attempt \in Nat /\ st[i].phase \in Phase
  BY <1>4, StreamBounds DEF Event
<1>6. \A s, a, ph : e = BuildEvent(s, a, ph) <=> e.step = s /\ e.attempt = a /\ e.phase = ph
  BY DEF Event, BuildEvent
<1>7. CASE st = <<>>
  <2>1. InPlanOrder(st, e) <=> e.step = 1
    BY <1>7 DEF InPlanOrder
  <2>2. at = {}
    BY <1>4, <1>7, <1>a DEF EventsOf
  <2>3. StepWellFormed(st2, e.step) <=> e.attempt = 1 /\ e.phase = "started"
    BY <1>1, <2>2, FirstEventStarts
  <2> QED
    BY <1>0, <1>3, <1>6, <1>7, <2>1, <2>3
<1>8. CASE st # <<>>
  <2>0. PICK last : last = st[l]
    OBVIOUS
  <2>1. /\ l \in 1 .. l /\ last.step \in Nat \ {0} /\ last.attempt \in Nat /\ last.phase \in Phase
        /\ \A i \in 1 .. l : st[i].step <= last.step
    BY <1>4, <1>5, <1>8, <2>0
  <2>2. LastOf(st, last.step, l)
    BY <1>4, <2>0, <2>1 DEF LastOf, EventsOf
  <2>3. StepWellFormed(st, last.step) /\ last.step \in 1 .. NSteps
    <3>1. last.step \in 1 .. NSteps
      BY <1>4, <2>0, <2>1 DEF Event
    <3>2. EventsOf(st, last.step) # {}
      BY <2>2 DEF LastOf
    <3> QED
      BY <3>1, <3>2, DecisionByLast DEF Accepted
  <2>4. DecideStepResumption(st, last.step) = "skip" <=> last.phase = "succeeded"
    <3>1. DecideStepResumption(st, last.step) = CASE st[l].phase = "started" -> "blocked"
                                                  [] st[l].phase = "failed" -> "failed"
                                                  [] OTHER -> "skip"
      BY <2>2, <2>3, DecisionByLast
    <3> QED
      BY <2>0, <2>1, <3>1 DEF Phase
  <2>5. InPlanOrder(st, e) <=> \/ e.step = last.step
                               \/ e.step = last.step + 1 /\ last.phase = "succeeded"
    BY <1>8, <2>0, <2>1, <2>4 DEF InPlanOrder
  <2>6. ok <=> CASE last.phase = "started" ->
                      /\ e.step = last.step /\ e.attempt = last.attempt
                      /\ e.phase \in {"succeeded", "failed"}
                 [] last.phase = "failed" ->
                      e.step = last.step /\ e.attempt = last.attempt + 1 /\ e.phase = "started"
                 [] OTHER -> e.step = last.step + 1 /\ e.attempt = 1 /\ e.phase = "started"
    BY <1>6, <1>8, <2>0
  <2>7. CASE e.step = last.step
    <3>1. l \in at /\ \A j \in at : j <= l
      BY <1>a, <2>2, <2>7 DEF LastOf
    <3>2. WellFormedAt(st, at)
      BY <1>1, <2>3, <2>7
    <3>3. WellFormedAt(st2, at2) <=> Continues(last, e)
      BY <1>1, <2>0, <3>1, <3>2, WellFormedContinues, ContinuesWellFormed
    <3>4. ok <=> Continues(last, e)
      BY <2>1, <2>6, <2>7 DEF Continues, Phase
    <3> QED
      BY <1>0, <1>1, <1>3, <2>5, <2>7, <3>3, <3>4
  <2>8. CASE e.step = last.step + 1
    <3>1. at = {}
      BY <1>4, <1>a, <2>1, <2>8 DEF EventsOf
    <3>2. StepWellFormed(st2, e.step) <=> e.attempt = 1 /\ e.phase = "started"
      BY <1>1, <3>1, FirstEventStarts
    <3> QED
      BY <1>0, <1>3, <2>1, <2>5, <2>6, <2>8, <3>2 DEF Phase
  <2>9. CASE e.step # last.step /\ e.step # last.step + 1
    BY <1>0, <1>3, <2>1, <2>5, <2>6, <2>9 DEF Phase
  <2> QED
    BY <2>7, <2>8, <2>9
<1> QED
  BY <1>7, <1>8

-----------------------------------------------------------------------------
(* Every stream that one appended event at a time can give.                *)

StreamInv ==
  /\ stream \in Seq(Event) /\ legal \in BOOLEAN
  /\ legal <=> Accepted(stream)
  /\ legal => /\ \A i \in DOMAIN stream : stream[i].step <= LastStep
              /\ \A s \in 1 .. NSteps :
                   s < LastStep => DecideStepResumption(stream, s) = "skip"

\* Init establishes it.
LEMMA StreamInvInit == Init => StreamInv
<1> SUFFICES ASSUME Init PROVE StreamInv
  OBVIOUS
<1>1. stream = <<>> /\ legal = TRUE /\ stream \in Seq(Event) /\ DOMAIN stream = {}
  BY DEF Init
<1>2. LastStep = 1
  BY <1>1 DEF LastStep
<1>3. \A s : EventsOf(stream, s) = {}
  BY <1>1 DEF EventsOf
<1>4. Accepted(stream)
  <2>1. ReadAndValidateEvents(stream)
    BY <1>1 DEF ReadAndValidateEvents
  <2> QED
    BY <1>1, <1>3, <2>1, DecisionByLast DEF Accepted
<1>5. \A s \in 1 .. NSteps : ~(s < LastStep)
  BY <1>2, StreamBounds
<1> QED
  BY <1>1, <1>4, <1>5 DEF StreamInv

\* Every appended event keeps it.
LEMMA StreamInvNext == StreamInv /\ [Next]_vars => StreamInv'
<1> SUFFICES ASSUME StreamInv, [Next]_vars PROVE StreamInv'
  OBVIOUS
<1>1. CASE UNCHANGED vars
  BY <1>1 DEF StreamInv, vars, LastStep, Accepted
<1>2. ASSUME NEW e \in Event, AppendAny(e) PROVE StreamInv'
  <2> DEFINE n == Len(stream) + 1
  <2>1. stream \in Seq(Event) /\ stream' = Append(stream, e) /\ legal' = (legal /\ LegalNext(e))
    BY <1>2 DEF AppendAny, StreamInv
  <2>2. /\ Len(stream) \in Nat /\ DOMAIN stream = 1 .. Len(stream) /\ DOMAIN stream' = 1 .. n
        /\ stream' \in Seq(Event) /\ Len(stream') = n /\ stream'[n] = e
        /\ \A i \in 1 .. Len(stream) : stream'[i] = stream[i] /\ stream[i] \in Event
        /\ stream # <<>> <=> Len(stream) # 0
    BY <2>1, AppendPositions
  <2>3. LastStep' = e.step
    BY <2>2 DEF LastStep
  <2>4. ASSUME ~legal PROVE ~Accepted(stream')
    <3>1. CASE ~ReadAndValidateEvents(stream)
      BY <2>1, <3>1, ReadOneMore DEF Accepted
    <3>2. ASSUME NEW s \in 1 .. NSteps, DecideStepResumption(stream, s) = "corrupted"
          PROVE  ~Accepted(stream')
      BY <2>1, <3>2, CorruptedStays DEF Accepted
    <3> QED
      BY <2>4, <3>1, <3>2 DEF StreamInv, Accepted
  <2>5. ASSUME legal
        PROVE  /\ Accepted(stream') <=> LegalNext(e)
               /\ stream # <<>> => LastStep = stream[Len(stream)].step
    <3>1. Accepted(stream)
      BY <2>5 DEF StreamInv
    <3>2. stream # <<>> => LastStep = stream[Len(stream)].step
      BY DEF LastStep
    <3>3. stream # <<>> => \A i \in DOMAIN stream : stream[i].step <= stream[Len(stream)].step
      BY <2>5, <3>2 DEF StreamInv
    <3>4. PICK ok \in BOOLEAN : ok <=> LegalNext(e)
      OBVIOUS
    <3>5. ok <=> IF stream = <<>> THEN e = BuildEvent(1, 1, "started")
                 ELSE LET last == stream[Len(stream)] IN
                      CASE last.phase = "started" ->
                             /\ e.step = last.step /\ e.attempt = last.attempt
                             /\ e.phase \in {"succeeded", "failed"}
                        [] last.phase = "failed" ->
                             e = BuildEvent(last.step, last.attempt + 1, "started")
                        [] OTHER -> e = BuildEvent(last.step + 1, 1, "started")
      BY <3>4 DEF LegalNext
    <3>6. Accepted(Append(stream, e)) <=> ok
      BY ONLY <2>1, <3>1, <3>3, <3>5, e \in Event, ok \in BOOLEAN, ReadersAllowLegalNext
    <3> QED
      BY <2>1, <3>2, <3>4, <3>6
  <2>6. legal' <=> Accepted(stream')
    BY <2>1, <2>4, <2>5
  <2>7. ASSUME legal'
        PROVE  /\ \A i \in DOMAIN stream' : stream'[i].step <= e.step
               /\ \A s \in 1 .. NSteps : s < e.step => DecideStepResumption(stream', s) = "skip"
    <3>0. legal /\ LegalNext(e)
      BY <2>1, <2>7
    <3>1. /\ \A i \in 1 .. Len(stream) : stream[i].step <= LastStep
          /\ \A s \in 1 .. NSteps : s < LastStep => DecideStepResumption(stream, s) = "skip"
      BY <2>2, <3>0 DEF StreamInv
    <3>2. e.step \in Nat /\ \A i \in 1 .. Len(stream) : stream[i].step \in Nat
      BY <2>2, StreamBounds DEF Event
    <3>3. LastStep \in Nat
      BY <2>2, <3>2 DEF LastStep
    <3>4. InPlanOrder(stream, e)
      BY <2>1, <2>6, <2>7, ReadOneMore DEF Accepted
    <3>5. CASE stream = <<>>
      <4>1. e.step = 1 /\ Len(stream) = 0
        BY <2>2, <3>4, <3>5 DEF InPlanOrder
      <4>2. \A s \in 1 .. NSteps : ~(s < e.step)
        BY <4>1, StreamBounds
      <4> QED
        BY <2>2, <3>2, <4>1, <4>2
    <3>6. CASE stream # <<>>
      <4>1. \/ e.step = LastStep
            \/ e.step = LastStep + 1 /\ DecideStepResumption(stream, LastStep) = "skip"
        <5>1. LastStep = stream[Len(stream)].step /\ LastStep >= 1
          BY <2>2, <3>6, StreamBounds DEF LastStep, Event
        <5> QED
          BY <3>4, <3>6, <5>1 DEF InPlanOrder
      <4>2. \A i \in 1 .. n : stream'[i].step <= e.step
        <5>1. \A i \in 1 .. Len(stream) : stream'[i].step <= e.step
          BY <2>2, <3>1, <3>2, <3>3, <4>1
        <5>2. \A i \in 1 .. n : i \in 1 .. Len(stream) \/ i = n
          BY <2>2
        <5> QED
          BY <2>2, <3>2, <5>1, <5>2
      <4>3. ASSUME NEW s \in 1 .. NSteps, s < e.step
            PROVE  DecideStepResumption(stream', s) = "skip"
        <5>1. s # e.step /\ s \in Nat
          BY <3>2, <4>3, StreamBounds
        <5>2. DecideStepResumption(stream, s) = "skip"
          BY <3>1, <3>3, <4>1, <4>3, <5>1
        <5> QED
          BY <2>1, <5>1, <5>2, OtherStepsUnchanged
      <4> QED
        BY <2>2, <4>2, <4>3
    <3> QED
      BY <3>5, <3>6
  <2>8. legal' \in BOOLEAN
    BY <2>1
  <2> QED
    BY <2>2, <2>3, <2>6, <2>7, <2>8 DEF StreamInv, Accepted
<1> QED
  BY <1>1, <1>2 DEF Next

\* readAndValidateEvents() with decideStepResumption(), scripts/apply.mjs and
\* scripts/operation-journal.mjs: whatever the number of steps, attempts and
\* events, a stream is trusted exactly when the plan's dispatch could have
\* written it.
THEOREM AcceptsExactlyLegalStreamsHolds == Spec => []AcceptsExactlyLegalStreams
<1>1. StreamInv => AcceptsExactlyLegalStreams
  BY DEF StreamInv, AcceptsExactlyLegalStreams, Accepted
<1> QED
  BY <1>1, StreamInvInit, StreamInvNext, PTL DEF Spec

\* decideStepResumption(): on a trusted stream every step's decision is how far
\* the dispatch really got with it.
THEOREM DecisionMatchesProgressHolds == Spec => []DecisionMatchesProgress
<1>1. StreamInv => DecisionMatchesProgress
  <2> SUFFICES ASSUME StreamInv, legal, NEW s \in 1 .. NSteps
               PROVE  LET d == DecideStepResumption(stream, s) IN
                      CASE s < LastStep -> d = "skip"
                        [] s > LastStep \/ stream = <<>> -> d = "run"
                        [] OTHER ->
                             LET ph == stream[Len(stream)].phase IN
                             d = CASE ph = "started" -> "blocked"
                                   [] ph = "failed" -> "failed"
                                   [] OTHER -> "skip"
    BY DEF DecisionMatchesProgress
  <2>1. /\ stream \in Seq(Event) /\ Accepted(stream)
        /\ \A i \in DOMAIN stream : stream[i].step <= LastStep
        /\ s < LastStep => DecideStepResumption(stream, s) = "skip"
    BY DEF StreamInv
  <2>2. /\ Len(stream) \in Nat /\ DOMAIN stream = 1 .. Len(stream)
        /\ \A i \in DOMAIN stream : stream[i].step \in Nat
        /\ stream # <<>> <=> Len(stream) # 0
    <3>1. stream # <<>> <=> Len(stream) # 0
      BY <2>1
    <3>2. \A x \in Event : x.step \in Nat
      BY StreamBounds DEF Event
    <3>3. /\ Len(stream) \in Nat /\ DOMAIN stream = 1 .. Len(stream)
          /\ \A i \in DOMAIN stream : stream[i] \in Event
      BY <2>1, StreamPositions
    <3> QED
      BY <3>1, <3>2, <3>3
  <2>3. LastStep \in Nat /\ s \in Nat /\ s >= 1
    BY <2>2, StreamBounds DEF LastStep
  <2>4. ASSUME s > LastStep \/ stream = <<>>
        PROVE  ~(s < LastStep) /\ DecideStepResumption(stream, s) = "run"
    <3>1. ~(s < LastStep)
      BY <2>3, <2>4 DEF LastStep
    <3>2. EventsOf(stream, s) = {}
      BY <2>1, <2>2, <2>3, <2>4 DEF EventsOf
    <3> QED
      BY <2>1, <3>1, <3>2, DecisionByLast
  <2>5. ASSUME ~(s < LastStep), ~(s > LastStep), stream # <<>>
        PROVE  DecideStepResumption(stream, s) =
                 CASE stream[Len(stream)].phase = "started" -> "blocked"
                   [] stream[Len(stream)].phase = "failed" -> "failed"
                   [] OTHER -> "skip"
    <3>1. s = stream[Len(stream)].step
      BY <2>3, <2>5 DEF LastStep
    <3>2. LastOf(stream, s, Len(stream))
      BY <2>2, <2>5, <3>1 DEF LastOf, EventsOf
    <3>3. StepWellFormed(stream, s)
      <4>1. DecideStepResumption(stream, s) # "corrupted" /\ EventsOf(stream, s) # {}
        BY <2>1, <3>2 DEF Accepted, LastOf
      <4> QED
        BY <2>1, <4>1, DecisionByLast
    <3> QED
      BY <2>1, <3>2, <3>3, DecisionByLast
  <2> QED
    BY <2>1, <2>4, <2>5
<1> QED
  BY <1>1, StreamInvInit, StreamInvNext, PTL DEF Spec

\* decideStepResumption(): no appended event makes a corrupted step look sound,
\* and a step that was done stays done or becomes corrupted.
THEOREM VerdictsAreStickyHolds == Spec => VerdictsAreSticky
<1>1. StreamInv /\ [Next]_vars =>
        [\A s \in 1..NSteps :
           LET old == DecideStepResumption(stream, s)
               new == DecideStepResumption(stream', s)
           IN  /\ old = "corrupted" => new = "corrupted"
               /\ old = "skip" => new \in {"skip", "corrupted"}]_vars
  <2> SUFFICES ASSUME StreamInv, Next, NEW s \in 1 .. NSteps
               PROVE  /\ DecideStepResumption(stream, s) = "corrupted" =>
                           DecideStepResumption(stream', s) = "corrupted"
                      /\ DecideStepResumption(stream, s) = "skip" =>
                           DecideStepResumption(stream', s) \in {"skip", "corrupted"}
    OBVIOUS
  <2>1. PICK e \in Event : stream' = Append(stream, e)
    BY DEF Next, AppendAny
  <2>2. stream \in Seq(Event)
    BY DEF StreamInv
  <2> QED
    BY <2>1, <2>2, CorruptedStays, DoneStays
<1> QED
  BY <1>1, StreamInvInit, StreamInvNext, PTL DEF Spec, VerdictsAreSticky
=============================================================================
