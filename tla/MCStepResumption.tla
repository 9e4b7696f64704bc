------------------------- MODULE MCStepResumption -------------------------
(***************************************************************************)
(* Drives the readers of StepResumption with every event stream up to a    *)
(* bound, legal or not, and compares them with a writer's view: the set of *)
(* streams that dispatching a plan in order can produce.                   *)
(***************************************************************************)
EXTENDS StepResumption

CONSTANTS NSteps,     \* operations in the plan
          MaxAttempt, \* bound: attempts per step
          MaxLen      \* bound: events in the stream

ASSUME StreamBounds == NSteps \in Nat /\ MaxAttempt \in Nat

VARIABLES stream,     \* the raw events file
          legal       \* could the plan's own dispatch have written it?

vars == <<stream, legal>>

Event == [step : 1..NSteps, attempt : 1..MaxAttempt, phase : Phase]

\* What a dispatcher that works through the plan may append next: the start of
\* the first step, the resolution of the open attempt, a retry of a failed
\* attempt, or the start of the step after one that succeeded.
LegalNext(e) ==
  IF stream = <<>> THEN e = BuildEvent(1, 1, "started")
  ELSE LET last == stream[Len(stream)] IN
       CASE last.phase = "started" ->
              /\ e.step = last.step /\ e.attempt = last.attempt
              /\ e.phase \in {"succeeded", "failed"}
         [] last.phase = "failed" ->
              e = BuildEvent(last.step, last.attempt + 1, "started")
         [] OTHER -> e = BuildEvent(last.step + 1, 1, "started")

Init == stream = <<>> /\ legal = TRUE

AppendAny(e) ==
  /\ Len(stream) < MaxLen
  /\ stream' = Append(stream, e)
  /\ legal' = (legal /\ LegalNext(e))

Next == \E e \in Event : AppendAny(e)

Spec == Init /\ [][Next]_vars

LastStep == IF stream = <<>> THEN 1 ELSE stream[Len(stream)].step

\* readAndValidateEvents() with decideStepResumption(): a stream is trusted
\* exactly when a plan-ordered dispatcher could have written it.
AcceptsExactlyLegalStreams ==
  legal <=> /\ ReadAndValidateEvents(stream)
            /\ \A s \in 1..NSteps :
                 DecideStepResumption(stream, s) # "corrupted"

\* decideStepResumption(): on a trusted stream, every step is decided by how
\* far the dispatch really got.
DecisionMatchesProgress ==
  legal =>
    \A s \in 1..NSteps :
      LET d == DecideStepResumption(stream, s) IN
      CASE s < LastStep -> d = "skip"
        [] s > LastStep \/ stream = <<>> -> d = "run"
        [] OTHER ->
             LET ph == stream[Len(stream)].phase IN
             d = CASE ph = "started" -> "blocked"
                   [] ph = "failed" -> "failed"
                   [] OTHER -> "skip"

\* decideStepResumption(): appending can never make a corrupted step look sound,
\* and a step that was resolved as done can only stay done or become corrupted.
VerdictsAreSticky ==
  [][\A s \in 1..NSteps :
       LET old == DecideStepResumption(stream, s)
           new == DecideStepResumption(stream', s)
       IN  /\ old = "corrupted" => new = "corrupted"
           /\ old = "skip" => new \in {"skip", "corrupted"}]_vars
=============================================================================
