---------------------------- MODULE EdgeRateLimit ----------------------------
(***************************************************************************)
(* The ceiling on requests per minute in front of the pipeline.            *)
(*                                                                         *)
(* A request checks its agent's window, then its delegation's, and only    *)
(* then adds itself to both.  Each step is a round trip to the store, so   *)
(* requests interleave between them, and a store that raises lets the      *)
(* request in with whatever it has recorded so far.                        *)
(***************************************************************************)
EXTENDS Integers, FiniteSets

CONSTANTS
    Callers,    \* payment-intent requests, each made once
    Windows,    \* the store's keys, one per agent and per delegation
    ChecksOf,   \* the two windows of a request, in the order of `checks`
    Limit       \* the ceiling of a window, 0 when it is switched off

ASSUME EdgeAssumption ==
    /\ IsFiniteSet(Callers)
    /\ ChecksOf \in [Callers -> [1..2 -> Windows]]
    /\ \A c \in Callers : ChecksOf[c][1] # ChecksOf[c][2]
    /\ Limit \in [Windows -> Nat]

VARIABLES
    edgePc,     \* "check", "record", "admitted" or "rejected"
    edgeStep,   \* which of its two windows a request is at
    window,     \* the requests each window counts now
    overtaken   \* (history) per window, requests overtaken since their check

edgeVars == <<edgePc, edgeStep, window, overtaken>>

EdgeInit ==
    /\ \E enabled \in BOOLEAN :    \* settings.edge_rate_limit_enabled
          edgePc = [c \in Callers |-> IF enabled THEN "check" ELSE "admitted"]
    /\ edgeStep = [c \in Callers |-> 1]
    /\ window = [w \in Windows |-> {}]
    /\ overtaken = [w \in Windows |-> {}]

At(c) == ChecksOf[c][edgeStep[c]]

\* The request goes on to its other window, or to `label` after the second.
Advance(c, label) ==
    /\ edgeStep' = [edgeStep EXCEPT ![c] = 3 - edgeStep[c]]
    /\ edgePc' = IF edgeStep[c] = 1 THEN edgePc
                                    ELSE [edgePc EXCEPT ![c] = label]

\* Records as it checks.
CheckWindow_eager_bug(c) ==
    /\ edgePc[c] = "check"
    /\ \/ /\ Limit[At(c)] > 0
          /\ Cardinality(window[At(c)]) >= Limit[At(c)]
          /\ edgePc' = [edgePc EXCEPT ![c] = "rejected"]
          /\ UNCHANGED <<edgeStep, window>>
       \/ /\ Limit[At(c)] = 0 \/ Cardinality(window[At(c)]) < Limit[At(c)]
          /\ window' = [window EXCEPT ![At(c)] = @ \cup {c}]
          /\ Advance(c, "record")
    /\ UNCHANGED overtaken

\* A ceiling that is one too high.
CheckWindow_bug(c) ==
    /\ edgePc[c] = "check"
    /\ \/ /\ Limit[At(c)] > 0
          /\ Cardinality(window[At(c)]) > Limit[At(c)]
          /\ edgePc' = [edgePc EXCEPT ![c] = "rejected"]
          /\ UNCHANGED edgeStep
       \/ /\ Limit[At(c)] = 0 \/ Cardinality(window[At(c)]) <= Limit[At(c)]
          /\ Advance(c, "record")
    /\ UNCHANGED <<window, overtaken>>

\* zcount_window of one window against its ceiling.
CheckWindow(c) ==
    /\ edgePc[c] = "check"
    /\ \/ /\ Limit[At(c)] > 0
          /\ Cardinality(window[At(c)]) >= Limit[At(c)]
          /\ edgePc' = [edgePc EXCEPT ![c] = "rejected"]
          /\ UNCHANGED edgeStep
       \/ /\ Limit[At(c)] = 0 \/ Cardinality(window[At(c)]) < Limit[At(c)]
          /\ Advance(c, "record")
    /\ UNCHANGED <<window, overtaken>>

\* Whether q has passed its check of w and has not been counted there yet.
Passed(q, w) ==
    \E i \in 1..2 :
        /\ ChecksOf[q][i] = w
        /\ \/ edgePc[q] = "check" /\ edgeStep[q] > i
           \/ edgePc[q] = "record" /\ edgeStep[q] <= i

\* zadd_window; a window without a ceiling is skipped.
RecordWindow(c) ==
    /\ edgePc[c] = "record"
    /\ \/ /\ Limit[At(c)] > 0
          /\ window' = [window EXCEPT ![At(c)] = @ \cup {c}]
          /\ overtaken' = [overtaken EXCEPT ![At(c)] =
                              @ \cup {q \in Callers \ {c} : Passed(q, At(c))}]
       \/ /\ Limit[At(c)] = 0
          /\ UNCHANGED <<window, overtaken>>
    /\ Advance(c, "admitted")

\* The store raises: the request is let in, counted where it got to.
FailOpen(c) ==
    /\ edgePc[c] \in {"check", "record"}
    /\ edgePc' = [edgePc EXCEPT ![c] = "admitted"]
    /\ UNCHANGED <<edgeStep, window, overtaken>>

\* A minute has passed since a request was counted.
MinuteOver(w) ==
    /\ \E c \in window[w] : window' = [window EXCEPT ![w] = @ \ {c}]
    /\ UNCHANGED <<edgePc, edgeStep, overtaken>>

EdgeNext ==
    \/ \E c \in Callers : \/ CheckWindow(c) \/ RecordWindow(c) \/ FailOpen(c)
    \/ \E w \in Windows : MinuteOver(w)

EdgeSpec == EdgeInit /\ [][EdgeNext]_edgeVars

EdgeTypeOK ==
    /\ edgePc \in [Callers -> {"check", "record", "admitted", "rejected"}]
    /\ edgeStep \in [Callers -> 1..2]
    /\ window \in [Windows -> SUBSET Callers]
    /\ overtaken \in [Windows -> SUBSET Callers]

\* A burst overshoots the ceiling only by the requests that were between their
\* check and their record when another one was counted; without a race no
\* window ever holds more than its ceiling.
CeilingHolds ==
    \A w \in Windows :
        Limit[w] > 0 => Cardinality(window[w] \ overtaken[w]) <= Limit[w]

\* "a rejected request does not itself inflate the window it was rejected
\* against": not even the window whose ceiling it had already passed.
RejectedLeavesNoTrace ==
    \A c \in Callers : edgePc[c] = "rejected" => \A w \in Windows : c \notin window[w]
=============================================================================
