----------------------------- MODULE MCServices -----------------------------
(***************************************************************************)
(* Small instances of the components around the payment path.              *)
(*                                                                         *)
(* The components share no state (what one uses of another is in its own   *)
(* module), so interleaving them would only multiply states.  A behaviour  *)
(* here is a behaviour of one of them, chosen at the start; the others     *)
(* stay where they begin.                                                  *)
(***************************************************************************)
EXTENDS EdgeRateLimit, CircuitBreaker, TelegramLinking, StageEvents,
        EventRelay, SimilarityScan, AgentRun

CONSTANTS c1, c2, c3, c4, u1, u2, t1, t2, n1, n2, a1, a2, kettle, coffee

VARIABLE service    \* the component that runs

Services == {"edge", "breaker", "linking", "stages", "relay", "scan", "agent"}

\* Two requests of one delegation and one of another, whose ceiling is off.
MCChecksOf == [c \in Callers |-> IF c = c3 THEN <<"agent", "other">>
                                           ELSE <<"agent", "delegation">>]

MCLimit == [agent |-> 2, delegation |-> 1, other |-> 0]

\* A purchase that needs approval and one that does not.
MCCartOf == [n \in Runs |-> IF n = n1 THEN kettle ELSE coffee]

\* Two taps on Approve; two scripted runs and a tap; a live crew and a tap.
MCAgentCasts == {[threads |-> {n1, a1, a2}, offline |-> TRUE],
                 [threads |-> {n1, n2, a1}, offline |-> TRUE],
                 [threads |-> {n1, a1}, offline |-> FALSE]}

\* A component that does not run begins in one of its initial states.
Resting ==
    /\ IF service = "edge" THEN TRUE
       ELSE edgePc = [c \in Callers |-> "admitted"]
    /\ IF service = "breaker" THEN TRUE ELSE configured = FALSE
    /\ IF service = "stages" THEN TRUE ELSE outcome = "replay"
    /\ IF service = "scan" THEN TRUE ELSE positions = [f \in Facets |-> {}]
    /\ IF service = "agent" THEN TRUE ELSE offline = FALSE

\* Nothing tells two linking sessions apart but their names, nor two taps: of
\* the behaviours that differ only in them, take the one that uses them in turn.
SessionsInTurn ==
    LET turn == <<c1, c2, c3, c4>>
    IN  \A i \in 1..3 : session'[turn[i]].pc = "idle" => session'[turn[i + 1]].pc = "idle"

TapsInTurn == thread'[a1].pc = "new" => thread'[a2].pc = thread[a2].pc

Init ==
    /\ service \in Services
    /\ Resting
    /\ EdgeInit /\ BreakerInit /\ LinkingInit /\ StageInit /\ RelayInit
    /\ ScanInit /\ AgentInit

Next ==
    /\ \/ service = "edge" /\ EdgeNext
       \/ service # "edge" /\ UNCHANGED edgeVars
    /\ \/ service = "breaker" /\ BreakerNext
       \/ service # "breaker" /\ UNCHANGED breakerVars
    /\ \/ service = "linking" /\ LinkingNext /\ SessionsInTurn
       \/ service # "linking" /\ UNCHANGED linkVars
    /\ \/ service = "stages" /\ StageNext
       \/ service # "stages" /\ UNCHANGED stageVars
    /\ \/ service = "relay" /\ RelayNext
       \/ service # "relay" /\ UNCHANGED relayVars
    /\ \/ service = "scan" /\ ScanNext
       \/ service # "scan" /\ UNCHANGED scanVars
    /\ \/ service = "agent" /\ AgentNext /\ TapsInTurn
       \/ service # "agent" /\ UNCHANGED agentVars
    /\ UNCHANGED service

vars == <<service, edgeVars, breakerVars, linkVars, stageVars, relayVars,
          scanVars, agentVars>>

\* Time passes, whatever the calls do.
Spec == Init /\ [][Next]_vars /\ WF_breakerVars(CooldownPasses)

\* Type correctness of every component.
TypeOK ==
    /\ EdgeTypeOK /\ BreakerTypeOK /\ LinkingTypeOK /\ StageTypeOK
    /\ RelayTypeOK /\ ScanTypeOK /\ AgentTypeOK
=============================================================================
