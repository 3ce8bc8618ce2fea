----------------------------- MODULE StageEvents -----------------------------
(***************************************************************************)
(* The stage events of one request, from the pipeline to the console.      *)
(*                                                                         *)
(* The handler numbers an event when it crosses a stage boundary and hands *)
(* it to a task of its own; tasks reach Redis in any order, or not at all. *)
(* The console sorts what it has by number and lets the last event of a    *)
(* stage decide how the stage is drawn.  A handler that raises between two *)
(* events (the caller is answered BLOCK) says no more.                     *)
(***************************************************************************)
EXTENDS Integers, Sequences, FiniteSets

CONSTANTS
    MaxInAir,   \* bound: publishing tasks that are pending at a time
    MaxLost     \* bound: events that never reach the console

ASSUME StageAssumption == MaxInAir \in Nat \ {0} /\ MaxLost \in Nat

VARIABLES
    outcome,    \* how the handler treats the request if it gets to its end
    raised,     \* it has raised, or given up on a lock
    emitted,    \* the emitter's _seq
    inAir,      \* events whose publishing task has not run
    received    \* events the console has

stageVars == <<outcome, raised, emitted, inAir, received>>

STAGE_ORDER == <<"identity", "canonical", "analyzer", "risk", "pdp",
                 "authorization", "audit">>

\* A decision may be left unaudited: record_event_safe swallows the failure.
Outcomes == {"identity_refused", "rate_limited", "replay",
             "ALLOW", "REQUIRE_APPROVAL", "BLOCK", "ALLOW_unaudited",
             "REQUIRE_APPROVAL_unaudited", "BLOCK_unaudited"}

Event(i, status) == [stage |-> i, status |-> status]

\* start and finish of the i-th stage.
Stage(i, status) == <<Event(i, "started"), Event(i, status)>>

skip_remaining_bug(after) ==
    [i \in 1..(Len(STAGE_ORDER) - after + 1) |-> Event(after + i - 1, "skipped")]

skip_remaining(after) ==
    [i \in 1..(Len(STAGE_ORDER) - after) |-> Event(after + i, "skipped")]

Decided_bug(pdp, authorization, audit) ==
    Stage(1, "passed") \o Stage(2, "passed") \o Stage(3, "passed")
        \o Stage(4, "passed") \o Stage(5, pdp) \o Stage(6, "passed")
        \o Stage(7, audit)

\* Analyzer and risk pass; PDP and authorization tell the decision; the audit
\* record is written whatever the decision.
Decided(pdp, authorization, audit) ==
    Stage(1, "passed") \o Stage(2, "passed") \o Stage(3, "passed")
        \o Stage(4, "passed") \o Stage(5, pdp) \o Stage(6, authorization)
        \o Stage(7, audit)

\* The calls create_payment_intent and _run_pipeline make on the emitter.
Emissions ==
    [o \in Outcomes |->
        CASE o = "identity_refused" -> Stage(1, "blocked") \o skip_remaining(1)
          [] o = "rate_limited" ->
                Stage(1, "passed") \o <<Event(1, "blocked")>> \o skip_remaining(1)
          [] o = "replay" -> Stage(1, "passed") \o Stage(2, "passed")
                                \o <<Event(2, "passed")>> \o skip_remaining(2)
          [] o = "ALLOW" -> Decided("passed", "passed", "passed")
          [] o = "REQUIRE_APPROVAL" -> Decided("paused", "paused", "passed")
          [] o = "BLOCK" -> Decided("blocked", "skipped", "passed")
          [] o = "ALLOW_unaudited" -> Decided("passed", "passed", "failed")
          [] o = "REQUIRE_APPROVAL_unaudited" -> Decided("paused", "paused", "failed")
          [] o = "BLOCK_unaudited" -> Decided("blocked", "skipped", "failed")]

\* Behind these events there is code that can raise before the next one: the
\* authentication (1), the canonical form (3), the locks and the duplicate
\* check (4), the analyzer (5), the context (7), the approval token (8), the
\* PDP (9), the insertion of the row (10), and what the decision asks for: the
\* state, the approval request, the token or the provider (11).
RaisesAfter ==
    [o \in Outcomes |->
        CASE o \in {"identity_refused", "rate_limited"} -> {1}
          [] o = "replay" -> {1, 3, 4}
          [] OTHER -> {1, 3, 4, 5, 7, 8, 9, 10, 11}]

StageInit ==
    /\ outcome \in Outcomes
    /\ raised = FALSE
    /\ emitted = 0
    /\ inAir = {}
    /\ received = {}

\* The events that were dropped or that Redis refused.
Lost == (1..emitted) \ (inAir \cup received)

\* _publish: number the event, then start its task or drop it (it cannot be
\* serialised, or there is no loop).
Publish ==
    /\ ~raised /\ emitted < Len(Emissions[outcome])
    /\ Cardinality(inAir) < MaxInAir
    /\ emitted' = emitted + 1
    /\ \/ inAir' = inAir \cup {emitted'}
       \/ Cardinality(Lost) < MaxLost /\ UNCHANGED inAir
    /\ UNCHANGED <<outcome, raised, received>>

\* _publish_safely: Redis passes the event on, or raises and is ignored.
PublishSafely(e) ==
    /\ e \in inAir
    /\ inAir' = inAir \ {e}
    /\ \/ received' = received \cup {e}
       \/ Cardinality(Lost) < MaxLost /\ UNCHANGED received
    /\ UNCHANGED <<outcome, raised, emitted>>

\* An exception leaves the handler (500, fail closed), or a TimeoutError its
\* critical section (CONCURRENT_REQUEST_IN_FLIGHT).
HandlerRaises ==
    /\ ~raised /\ emitted \in RaisesAfter[outcome]
    /\ raised' = TRUE
    /\ UNCHANGED <<outcome, emitted, inAir, received>>

StageNext == Publish \/ HandlerRaises \/ \E e \in inAir : PublishSafely(e)

StageSpec == StageInit /\ [][StageNext]_stageVars

\* reducePipeline: the status of the stage's event with the highest number.
reducePipeline(i) ==
    LET mine == {e \in received : Emissions[outcome][e].stage = i}
    IN  IF mine = {} THEN "idle"
        ELSE Emissions[outcome][CHOOSE e \in mine : \A f \in mine : f <= e].status

StageTypeOK ==
    /\ outcome \in Outcomes /\ raised \in BOOLEAN
    /\ emitted \in 0..Len(Emissions[outcome])
    /\ inAir \subseteq 1..emitted /\ received \subseteq 1..emitted

\* The stage at which a request stopped, and how that stage is drawn.
StoppedAt ==
    [identity_refused |-> 1, rate_limited |-> 1, replay |-> 2,
     REQUIRE_APPROVAL |-> 5, REQUIRE_APPROVAL_unaudited |-> 5,
     BLOCK |-> 5, BLOCK_unaudited |-> 5]

StoppedAs ==
    [identity_refused |-> "blocked", rate_limited |-> "blocked", replay |-> "passed",
     REQUIRE_APPROVAL |-> "paused", REQUIRE_APPROVAL_unaudited |-> "paused",
     BLOCK |-> "blocked", BLOCK_unaudited |-> "blocked"]

\* What the console may draw of a request, whatever was lost or overtaken and
\* wherever the handler raised: up to the stage that stopped it nothing worse
\* than passed, and beyond it nothing that passed, except the audit record of
\* a decided request, which is written, failed or skipped.
BeamStops ==
    outcome \in DOMAIN StoppedAt =>
        \A i \in 1..Len(STAGE_ORDER) :
            reducePipeline(i) \in
                {"idle", "started"} \cup
                (IF i < StoppedAt[outcome] THEN {"passed"}
                 ELSE IF i = StoppedAt[outcome] THEN {"passed", StoppedAs[outcome]}
                 ELSE IF i = 7 THEN {"passed", "failed", "skipped"}
                 ELSE {"skipped", "paused"})

Open(i) == reducePipeline(i) \in {"idle", "started"}

\* With everything that was emitted received, in whatever order, the view has
\* no holes: behind a stage that is still open all are idle, so that a handler
\* that raised shows as one that got just so far.  And of a handler that got to
\* its end no stage is open and the stopping stage shows why.
ViewIsComplete ==
    received = 1..emitted =>
        /\ \A i \in 1..Len(STAGE_ORDER) : Open(i) =>
              \A j \in 1..Len(STAGE_ORDER) : i < j => reducePipeline(j) = "idle"
        /\ emitted = Len(Emissions[outcome]) =>
              /\ \A i \in 1..Len(STAGE_ORDER) : ~Open(i)
              /\ outcome \in DOMAIN StoppedAt =>
                    reducePipeline(StoppedAt[outcome]) = StoppedAs[outcome]
=============================================================================
