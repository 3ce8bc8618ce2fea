---------------------------- MODULE ServicesProofs ----------------------------
(***************************************************************************)
(* The edge limiter, and the composition of the services.                  *)
(*                                                                         *)
(* MCServices runs seven components beside each other.  Whatever the       *)
(* constants, each of them then behaves as its own specification says, so  *)
(* that everything proved of a component holds of the composition.         *)
(***************************************************************************)
EXTENDS MCServices, AnalyzerProofs, EventProofs, TelegramLinkingProofs,
        AgentRunProofs, FiniteSetTheorems, TLAPS

-----------------------------------------------------------------------------
(***************************************************************************)
(* The edge limiter for any number of requests, windows and ceilings.      *)
(* CeilingHolds is not inductive: what keeps it is that a request between  *)
(* its check and its record, which nobody has overtaken, still has room.   *)
(***************************************************************************)

\* Nobody is counted before the checks are over.
Counted == \A c \in Callers, w \in Windows :
              c \in window[w] => edgePc[c] \in {"record", "admitted"}

\* The requests of a window that count against its ceiling.
Fair(w) == window[w] \ overtaken[w]

Room == \A c \in Callers, w \in Windows :
            Limit[w] > 0 /\ Passed(c, w) /\ c \notin overtaken[w]
                => Cardinality(Fair(w)) < Limit[w]

EdgeInv == EdgeTypeOK /\ Counted /\ CeilingHolds /\ Room

LEMMA Smaller ==
    ASSUME NEW S, NEW T, IsFiniteSet(S), T \subseteq S
    PROVE  Cardinality(T) \in Nat /\ Cardinality(S) \in Nat
              /\ Cardinality(T) <= Cardinality(S)
  BY FS_Subset, FS_CardinalityType

LEMMA OneMore ==
    ASSUME NEW S, NEW T, NEW x, IsFiniteSet(S), T \subseteq S \cup {x}
    PROVE  Cardinality(T) \in Nat /\ Cardinality(S) \in Nat
              /\ Cardinality(T) <= Cardinality(S) + 1
  <1>1. /\ IsFiniteSet(S \cup {x})
        /\ Cardinality(S \cup {x}) \in {Cardinality(S), Cardinality(S) + 1}
        /\ Cardinality(S) \in Nat
    <2>1. CASE x \in S
      <3>1. S \cup {x} = S
        BY <2>1
      <3>. QED
        BY <3>1, FS_CardinalityType
    <2>2. CASE x \notin S
      BY <2>2, FS_AddElement, FS_CardinalityType
    <2>. QED
      BY <2>1, <2>2
  <1>. QED
    BY <1>1, Smaller

LEMMA EdgeInitially == EdgeInit => EdgeInv
  <1>. SUFFICES ASSUME EdgeInit PROVE EdgeInv
    OBVIOUS
  <1>1. EdgeTypeOK /\ Counted
    BY DEF EdgeInit, EdgeTypeOK, Counted
  <1>2. \A w \in Windows : Fair(w) = {}
    BY DEF EdgeInit, Fair
  <1>3. CeilingHolds
    <2>1. ASSUME NEW w \in Windows, Limit[w] > 0
          PROVE  Cardinality(window[w] \ overtaken[w]) <= Limit[w]
      <3>1. window[w] \ overtaken[w] = {}
        BY DEF EdgeInit
      <3>2. Cardinality(window[w] \ overtaken[w]) = 0
        BY <3>1, FS_EmptySet
      <3>3. Limit[w] \in Nat
        BY EdgeAssumption
      <3>. QED
        BY <3>2, <3>3
    <2>. QED
      BY <2>1 DEF CeilingHolds
  <1>4. Room
    <2>1. ASSUME NEW w \in Windows, Limit[w] > 0
          PROVE  Cardinality(Fair(w)) < Limit[w]
      <3>1. Cardinality(Fair(w)) = 0
        BY <1>2, FS_EmptySet
      <3>. QED
        BY <2>1, <3>1
    <2>. QED
      BY <2>1 DEF Room
  <1>. QED
    BY <1>1, <1>3, <1>4 DEF EdgeInv

\* A step that leaves the windows alone keeps the invariant if every request
\* that passes a check in it found room there.
LEMMA WindowsKept ==
    ASSUME EdgeInv, EdgeTypeOK', Counted', UNCHANGED <<window, overtaken>>,
           \A c \in Callers, w \in Windows :
              Passed(c, w)' => \/ Passed(c, w)
                               \/ Limit[w] = 0
                               \/ Cardinality(window[w]) < Limit[w]
    PROVE  EdgeInv'
  <1>1. CeilingHolds'
    BY DEF EdgeInv, CeilingHolds
  <1>2. ASSUME NEW c \in Callers, NEW w \in Windows,
               Limit[w] > 0, Passed(c, w)', c \notin overtaken[w]
        PROVE  Cardinality(Fair(w)) < Limit[w]
    <2>1. CASE Passed(c, w)
      BY <1>2, <2>1 DEF EdgeInv, Room
    <2>2. CASE Cardinality(window[w]) < Limit[w]
      <3>1. IsFiniteSet(window[w]) /\ Fair(w) \subseteq window[w]
        BY EdgeAssumption, FS_Subset DEF EdgeInv, EdgeTypeOK, Fair
      <3>. QED
        BY <2>2, <3>1, Smaller, EdgeAssumption
    <2>. QED
      BY <1>2, <2>1, <2>2, EdgeAssumption
  <1>3. Room'
    BY <1>2 DEF Room, Fair
  <1>. QED
    BY <1>1, <1>3 DEF EdgeInv

LEMMA AdvanceTyped ==
    ASSUME NEW c \in Callers, NEW label \in {"record", "admitted"},
           EdgeTypeOK, Advance(c, label)
    PROVE  /\ edgeStep' \in [Callers -> 1..2]
           /\ edgePc' \in [Callers -> {"check", "record", "admitted", "rejected"}]
  <1>1. 3 - edgeStep[c] \in 1..2
    BY DEF EdgeTypeOK
  <1>. QED
    BY <1>1 DEF Advance, EdgeTypeOK

LEMMA CheckKeeps ==
    ASSUME NEW c \in Callers, EdgeInv, CheckWindow(c)
    PROVE  EdgeInv'
  <1>. USE EdgeAssumption
  <1>1. At(c) \in Windows
    BY DEF At, EdgeInv, EdgeTypeOK
  <1>2. EdgeTypeOK' /\ Counted'
    <2>1. EdgeTypeOK'
      BY AdvanceTyped DEF CheckWindow, EdgeInv, EdgeTypeOK
    <2>2. \A w \in Windows : c \notin window[w]
      BY DEF CheckWindow, EdgeInv, Counted
    <2>3. \A q \in Callers \ {c} : edgePc'[q] = edgePc[q]
      BY DEF CheckWindow, Advance, EdgeInv, EdgeTypeOK
    <2>4. Counted'
      BY <2>2, <2>3 DEF CheckWindow, EdgeInv, Counted
    <2>. QED
      BY <2>1, <2>4
  <1>3. ASSUME NEW q \in Callers, NEW w \in Windows, Passed(q, w)', ~Passed(q, w)
        PROVE  Limit[w] = 0 \/ Cardinality(window[w]) < Limit[w]
    <2>1. q = c
      BY <1>3 DEF CheckWindow, Advance, Passed, EdgeInv, EdgeTypeOK
    <2>2. w = At(c)
      BY <1>3, <2>1 DEF CheckWindow, Advance, Passed, At, EdgeInv, EdgeTypeOK
    <2>3. edgePc'[c] # "rejected"
      BY <1>3, <2>1 DEF Passed
    <2>. QED
      BY <2>2, <2>3 DEF CheckWindow, EdgeInv, EdgeTypeOK
  <1>. QED
    BY <1>2, <1>3, WindowsKept DEF CheckWindow

LEMMA FailOpenKeeps ==
    ASSUME NEW c \in Callers, EdgeInv, FailOpen(c)
    PROVE  EdgeInv'
  <1>1. EdgeTypeOK' /\ Counted'
    BY DEF FailOpen, EdgeInv, EdgeTypeOK, Counted
  <1>2. \A q \in Callers, w \in Windows : Passed(q, w)' => Passed(q, w)
    BY DEF FailOpen, Passed, EdgeInv, EdgeTypeOK
  <1>. QED
    BY <1>1, <1>2, WindowsKept DEF FailOpen

LEMMA RecordKeeps ==
    ASSUME NEW c \in Callers, EdgeInv, RecordWindow(c)
    PROVE  EdgeInv'
  <1>. USE EdgeAssumption
  <1>0. PICK v \in Windows : v = At(c)
    BY DEF At, EdgeInv, EdgeTypeOK
  <1>1. v \in Windows /\ Passed(c, v)
    BY <1>0 DEF At, Passed, RecordWindow, EdgeInv, EdgeTypeOK
  <1>2. EdgeTypeOK' /\ Counted'
    <2>1. EdgeTypeOK'
      <3>1. /\ edgeStep' \in [Callers -> 1..2]
            /\ edgePc' \in [Callers -> {"check", "record", "admitted", "rejected"}]
        BY AdvanceTyped DEF RecordWindow, EdgeInv
      <3>2. /\ window' \in [Windows -> SUBSET Callers]
            /\ overtaken' \in [Windows -> SUBSET Callers]
        <4>1. \A S : {q \in Callers \ {c} : Passed(q, S)} \in SUBSET Callers
          OBVIOUS
        <4>. QED
          BY <1>0, <4>1 DEF RecordWindow, EdgeInv, EdgeTypeOK
      <3>. QED
        BY <3>1, <3>2 DEF EdgeTypeOK
    <2>2. /\ edgePc'[c] \in {"record", "admitted"}
          /\ \A q \in Callers \ {c} : edgePc'[q] = edgePc[q]
      BY DEF RecordWindow, Advance, EdgeInv, EdgeTypeOK
    <2>3. \A w \in Windows : window'[w] \subseteq window[w] \cup {c}
      BY <1>0 DEF RecordWindow, EdgeInv, EdgeTypeOK
    <2>4. Counted'
      BY <2>2, <2>3 DEF EdgeInv, Counted
    <2>. QED
      BY <2>1, <2>4
  <1>3. \A q \in Callers, w \in Windows : Passed(q, w)' => Passed(q, w)
    BY DEF RecordWindow, Advance, Passed, EdgeInv, EdgeTypeOK
  <1>4. ~Passed(c, v)'
    <2>1. /\ edgeStep[c] \in 1..2 /\ v = ChecksOf[c][edgeStep[c]]
          /\ edgeStep'[c] = 3 - edgeStep[c]
          /\ edgePc'[c] = IF edgeStep[c] = 1 THEN "record" ELSE "admitted"
      BY <1>0 DEF RecordWindow, Advance, At, EdgeInv, EdgeTypeOK
    <2>2. \A i \in 1..2 : ChecksOf[c][i] = v => i = edgeStep[c]
      BY <2>1
    <2>. QED
      BY <2>1, <2>2 DEF Passed
  <1>5. CASE Limit[v] = 0
    BY <1>0, <1>2, <1>3, <1>5, WindowsKept DEF RecordWindow
  <1>6. CASE Limit[v] > 0
    <2>1. /\ window' = [window EXCEPT ![v] = @ \cup {c}]
          /\ overtaken' = [overtaken EXCEPT ![v] =
                              @ \cup {q \in Callers \ {c} : Passed(q, v)}]
      BY <1>0, <1>6 DEF RecordWindow
    <2>2. /\ window'[v] = window[v] \cup {c}
          /\ overtaken'[v] = overtaken[v] \cup {q \in Callers \ {c} : Passed(q, v)}
          /\ \A w \in Windows \ {v} : window'[w] = window[w] /\ overtaken'[w] = overtaken[w]
      BY <1>1, <2>1 DEF EdgeInv, EdgeTypeOK
    <2>3. IsFiniteSet(Fair(v))
      BY <1>1, FS_Subset DEF EdgeInv, EdgeTypeOK, Fair
    <2>4. Cardinality(Fair(v)') <= Limit[v]
      <3>1. CASE c \in overtaken[v]
        <4>1. Fair(v)' \subseteq Fair(v)
          BY <2>2, <3>1 DEF Fair
        <4>2. Cardinality(Fair(v)) <= Limit[v]
          BY <1>1, <1>6 DEF EdgeInv, CeilingHolds, Fair
        <4>. QED
          BY <2>3, <4>1, <4>2, Smaller, <1>1
      <3>2. CASE c \notin overtaken[v]
        <4>1. Fair(v)' \subseteq Fair(v) \cup {c}
          BY <2>2 DEF Fair
        <4>2. Cardinality(Fair(v)) < Limit[v]
          BY <1>1, <1>6, <3>2 DEF EdgeInv, Room
        <4>3. /\ Cardinality(Fair(v)') \in Nat /\ Cardinality(Fair(v)) \in Nat
              /\ Cardinality(Fair(v)') <= Cardinality(Fair(v)) + 1
          BY <2>3, <4>1, OneMore
        <4>. QED
          BY <4>2, <4>3
      <3>. QED
        BY <3>1, <3>2
    <2>5. CeilingHolds'
      <3>1. ASSUME NEW w \in Windows, Limit[w] > 0
            PROVE  Cardinality(window'[w] \ overtaken'[w]) <= Limit[w]
        <4>1. CASE w = v
          BY <2>4, <4>1 DEF Fair
        <4>2. CASE w # v
          BY <2>2, <3>1, <4>2 DEF EdgeInv, CeilingHolds
        <4>. QED
          BY <4>1, <4>2
      <3>. QED
        BY <3>1 DEF CeilingHolds
    <2>6. ASSUME NEW q \in Callers, NEW w \in Windows,
                 Limit[w] > 0, Passed(q, w)', q \notin overtaken'[w]
          PROVE  Cardinality(Fair(w)') < Limit[w]
      <3>1. w # v
        BY <1>3, <1>4, <2>2, <2>6
      <3>2. Fair(w)' = Fair(w) /\ q \notin overtaken[w]
        BY <2>2, <2>6, <3>1 DEF Fair
      <3>. QED
        BY <1>3, <2>6, <3>2 DEF EdgeInv, Room
    <2>7. Room'
      BY <2>6 DEF Room
    <2>. QED
      BY <1>2, <2>5, <2>7 DEF EdgeInv
  <1>. QED
    BY <1>1, <1>5, <1>6

LEMMA MinuteKeeps ==
    ASSUME NEW v \in Windows, EdgeInv, MinuteOver(v)
    PROVE  EdgeInv'
  <1>. USE EdgeAssumption
  <1>1. EdgeTypeOK' /\ Counted'
    BY DEF MinuteOver, EdgeInv, EdgeTypeOK, Counted
  <1>2. \A q \in Callers, w \in Windows : Passed(q, w)' <=> Passed(q, w)
    BY DEF MinuteOver, Passed
  <1>3. ASSUME NEW w \in Windows
        PROVE  /\ Cardinality(Fair(w)') <= Cardinality(Fair(w))
               /\ Cardinality(Fair(w)) \in Nat /\ Cardinality(Fair(w)') \in Nat
    <2>1. Fair(w)' \subseteq Fair(w)
      BY DEF MinuteOver, Fair, EdgeInv, EdgeTypeOK
    <2>2. IsFiniteSet(Fair(w))
      BY FS_Subset DEF EdgeInv, EdgeTypeOK, Fair
    <2>. QED
      BY <2>1, <2>2, Smaller
  <1>4. CeilingHolds'
    <2>1. ASSUME NEW w \in Windows, Limit[w] > 0
          PROVE  Cardinality(Fair(w)') <= Limit[w]
      <3>1. Cardinality(Fair(w)) <= Limit[w]
        BY <2>1 DEF EdgeInv, CeilingHolds, Fair
      <3>. QED
        BY <1>3, <3>1
    <2>. QED
      BY <2>1 DEF CeilingHolds, Fair
  <1>5. Room'
    <2>1. ASSUME NEW q \in Callers, NEW w \in Windows,
                 Limit[w] > 0, Passed(q, w)', q \notin overtaken'[w]
          PROVE  Cardinality(Fair(w)') < Limit[w]
      <3>1. Cardinality(Fair(w)) < Limit[w]
        BY <1>2, <2>1 DEF MinuteOver, EdgeInv, Room
      <3>. QED
        BY <1>3, <3>1
    <2>. QED
      BY <2>1 DEF Room
  <1>. QED
    BY <1>1, <1>4, <1>5 DEF EdgeInv

LEMMA EdgeStep == EdgeInv /\ [EdgeNext]_edgeVars => EdgeInv'
  <1>. SUFFICES ASSUME EdgeInv, [EdgeNext]_edgeVars PROVE EdgeInv'
    OBVIOUS
  <1>1. CASE UNCHANGED edgeVars
    <2>1. EdgeTypeOK' /\ Counted'
      BY <1>1 DEF edgeVars, EdgeInv, EdgeTypeOK, Counted
    <2>2. \A q \in Callers, w \in Windows : Passed(q, w)' => Passed(q, w)
      BY <1>1 DEF edgeVars, Passed
    <2>. QED
      BY <1>1, <2>1, <2>2, WindowsKept DEF edgeVars
  <1>. QED
    BY <1>1, CheckKeeps, RecordKeeps, FailOpenKeeps, MinuteKeeps DEF EdgeNext

LEMMA EdgeInvariant == EdgeSpec => []EdgeInv
  BY EdgeInitially, EdgeStep, PTL DEF EdgeSpec

\* enforce_edge_rate_limit lets a window exceed its ceiling only by requests
\* that were overtaken between their check and their record.
THEOREM CeilingAlwaysHolds == EdgeSpec => []CeilingHolds
  BY EdgeInvariant, PTL DEF EdgeInv

\* enforce_edge_rate_limit records nothing of a request it rejects, in either
\* of its windows.
THEOREM RejectedNeverCounted == EdgeSpec => []RejectedLeavesNoTrace
  <1>1. EdgeInv => RejectedLeavesNoTrace
    BY DEF EdgeInv, Counted, RejectedLeavesNoTrace
  <1>. QED
    BY <1>1, EdgeInvariant, PTL

-----------------------------------------------------------------------------
(***************************************************************************)
(* The composition.  A step of it is a step of one component, and leaves   *)
(* the others where they are.                                              *)
(***************************************************************************)

\* In the composition every service begins, and steps or stands still, as it
\* does alone.
THEOREM ServicesRunApart ==
    Spec => /\ EdgeSpec /\ BreakerSpec /\ LinkingSpec /\ StageSpec
            /\ RelaySpec /\ ScanSpec /\ AgentSpec
  <1>1. Init => /\ EdgeInit /\ BreakerInit /\ LinkingInit /\ StageInit
                /\ RelayInit /\ ScanInit /\ AgentInit
    BY DEF Init
  <1>2. [Next]_vars =>
           /\ [EdgeNext]_edgeVars /\ [BreakerNext]_breakerVars
           /\ [LinkingNext]_linkVars /\ [StageNext]_stageVars
           /\ [RelayNext]_relayVars /\ [ScanNext]_scanVars
           /\ [AgentNext]_agentVars
    BY DEF Next, vars
  <1> QED
    BY <1>1, <1>2, PTL
       DEF Spec, EdgeSpec, BreakerSpec, LinkingSpec, StageSpec, RelaySpec,
           ScanSpec, AgentSpec

\* Every variable of every service keeps its type, in every behaviour.
THEOREM ServicesTypeCorrect == Spec => []TypeOK
  <1>1. EdgeInv => EdgeTypeOK
    BY DEF EdgeInv
  <1> QED
    BY <1>1, ServicesRunApart, EdgeInvariant, BreakerTypeCorrect,
       LinkingTypeCorrect, StageTypeCorrect, RelayTypeCorrect, ScanTypeCorrect,
       AgentTypeCorrect, PTL DEF TypeOK

\* What each service promises, it promises in the composition: the edge ceiling
\* and the window of a rejected request, the breaker's opening, the linking of
\* accounts, the events a console draws, the relay's order and losses, the
\* similarity scan, and the agent's charges, carts and refusals.
ServicesSafe ==
    /\ CeilingHolds /\ RejectedLeavesNoTrace /\ OpenIsEarned
    /\ LinkIsCurrent /\ SingleUse /\ OnlyLatestWorks
    /\ BeamStops /\ ViewIsComplete /\ NoGapAtJoin /\ DropsAreReported
    /\ WindowIsExact /\ LoneMatchIsReviewed
    /\ OneChargePerWindow /\ RefusalIsHonest /\ ApprovesWhatIsShown

\* No service loses a promise in the composition.
THEOREM ServicesStaySafe == Spec => []ServicesSafe
  BY ServicesRunApart, CeilingAlwaysHolds, RejectedNeverCounted,
     BreakerOpensOnlyWhenEarned, LinksAreCurrent, CodesAreSingleUse,
     OnlyTheLatestCodeWorks, BeamAlwaysStops, ViewIsAlwaysComplete,
     JoinsWithoutAGap, DropsAlwaysReported, WindowIsAlwaysExact,
     LoneMatchIsAlwaysReviewed, ChargedOncePerWindow, RefusalsAreHonest,
     ApprovesTheShownCart, PTL DEF ServicesSafe
=============================================================================
