-------------------------- MODULE StepResumption --------------------------
(***************************************************************************)
(* How a resumed operation reads its event stream: the per-step decision   *)
(* of scripts/operation-journal.mjs (decideStepResumption) and the check   *)
(* of the raw stream's order in scripts/apply.mjs (readAndValidateEvents). *)
(* Steps are the positions 1, 2, ... of the plan's operations.             *)
(***************************************************************************)
EXTENDS Naturals, Sequences

Phase == {"started", "succeeded", "failed"}

BuildEvent(s, a, ph) == [step |-> s, attempt |-> a, phase |-> ph]

\* groupByStep(): the positions of a step's events in the stream.
EventsOf(stream, s) == {i \in DOMAIN stream : stream[i].step = s}

Attempts(stream, at) == {stream[i].attempt : i \in at}

\* Attempts never go back, and they are exactly 1, 2, ..., with no gap.
AttemptsInOrder(stream, at) ==
  /\ \A i, j \in at : i < j => stream[i].attempt <= stream[j].attempt
  /\ \A a \in Attempts(stream, at) : a >= 1 /\ 1..a \subseteq Attempts(stream, at)

\* One attempt: its start, then at most one resolution; only a failure lets
\* another attempt follow.
AttemptWellFormed(stream, at, a) ==
  LET mine == {i \in at : stream[i].attempt = a}
  IN  \E i \in mine :
        /\ stream[i].phase = "started"
        /\ \/ mine = {i} /\ a + 1 \notin Attempts(stream, at)
           \/ \E j \in mine :
                /\ i < j /\ mine = {i, j}
                /\ stream[j].phase \in {"succeeded", "failed"}
                /\ a + 1 \in Attempts(stream, at) => stream[j].phase = "failed"

\* The last event has this phase.
EndsIn(stream, at, ph) == \E i \in at : stream[i].phase = ph /\ \A j \in at : j <= i

\* Mutant: a start without a resolution is simply run again.
DecideStepResumptionRetry(stream, s) ==
  LET at == EventsOf(stream, s) IN
  IF at = {} \/ EndsIn(stream, at, "started") THEN "run"
  ELSE IF EndsIn(stream, at, "succeeded") THEN "skip" ELSE "failed"

\* Mutant: only the last event is looked at.
DecideStepResumptionLastEvent(stream, s) ==
  LET at == EventsOf(stream, s) IN
  IF at = {} THEN "run"
  ELSE IF EndsIn(stream, at, "succeeded") THEN "skip"
  ELSE IF EndsIn(stream, at, "failed") THEN "failed" ELSE "blocked"

DecideStepResumption(stream, s) ==
  LET at == EventsOf(stream, s) IN
  IF at = {} THEN "run"
  ELSE IF ~AttemptsInOrder(stream, at)
          \/ \E a \in Attempts(stream, at) : ~AttemptWellFormed(stream, at, a)
       THEN "corrupted"
  ELSE IF EndsIn(stream, at, "succeeded") THEN "skip"
  ELSE IF EndsIn(stream, at, "failed") THEN "failed" ELSE "blocked"

\* Mutant: the order of the raw stream is not checked against the plan.
ReadAndValidateEventsUnordered(stream) == TRUE

\* readAndValidateEvents(): steps open in plan order, each only after the one
\* before it resolved to a genuine success.
ReadAndValidateEvents(stream) ==
  \A i \in DOMAIN stream :
    LET open == IF i = 1 THEN 0 ELSE stream[i - 1].step
    IN  \/ i > 1 /\ stream[i].step = open
        \/ /\ stream[i].step = open + 1
           /\ open >= 1 =>
                DecideStepResumption(SubSeq(stream, 1, i - 1), open) = "skip"
=============================================================================
