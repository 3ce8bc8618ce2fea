--------------------------- MODULE SimilarityScan ---------------------------
(***************************************************************************)
(* The deterministic paraphrase detector: does one token of every matched  *)
(* facet of a malicious intent fall within a short window?                 *)
(*                                                                         *)
(* _within_window answers with two pointers over the sorted marks and a    *)
(* count per facet; one step here is one turn of its loop.                 *)
(***************************************************************************)
EXTENDS PolicyDecision

CONSTANTS
    FacetCount,     \* facets of the intent cluster
    Positions,      \* token positions where a facet's words may occur
    IntentWindow    \* _INTENT_WINDOW

ASSUME ScanAssumption ==
    /\ FacetCount \in Nat \ {0}
    /\ Positions \subseteq Nat /\ IsFiniteSet(Positions)
    /\ IntentWindow \in Nat

VARIABLES
    positions,  \* per facet, where its words occur in the field
    scanPc,     \* "start", "loop" or "done"
    right, left, counts, distinct,  \* the loop's variables
    found       \* what _within_window returned

scanVars == <<positions, scanPc, right, left, counts, distinct, found>>

Facets == 1..FacetCount

\* hit_positions: the facets with a hit.
Hit == {f \in Facets : positions[f] # {}}

\* All marks <<position, facet>>, and the same in the order sorted gives them.
Marks == {m \in (UNION {positions[f] : f \in Facets}) \X Facets :
              m[1] \in positions[m[2]]}

Before(m, n) == m[1] < n[1] \/ (m[1] = n[1] /\ m[2] < n[2])

marks ==
    [i \in 1..Cardinality(Marks) |->
        CHOOSE m \in Marks : Cardinality({n \in Marks : Before(n, m)}) = i - 1]

ScanInit ==
    /\ positions \in [Facets -> SUBSET Positions]
    /\ scanPc = "start"
    /\ right = 1 /\ left = 1
    /\ counts = [f \in Facets |-> 0]
    /\ distinct = 0
    /\ found = FALSE

\* _intent_score leaves the cluster alone when fewer than two facets matched.
ScanStart ==
    /\ scanPc = "start"
    /\ scanPc' = IF Cardinality(Hit) < 2 THEN "done" ELSE "loop"
    /\ UNCHANGED <<positions, right, left, counts, distinct, found>>

\* The marks the inner while drops: those further back than the window.
Dropped_bug ==
    {i \in left..(right - 1) : marks[right][1] - marks[i][1] >= IntentWindow}

Dropped ==
    {i \in left..(right - 1) : marks[right][1] - marks[i][1] > IntentWindow}

\* One turn: count the right mark, drop what is out of the window, compare.
ScanTurn ==
    LET facet == marks[right][2]
        entered == [counts EXCEPT ![facet] = @ + 1]
        after == [f \in Facets |->
                    entered[f] - Cardinality({i \in Dropped : marks[i][2] = f})]
        emptied == {f \in Facets : entered[f] > 0 /\ after[f] = 0}
        now == distinct + (IF counts[facet] = 0 THEN 1 ELSE 0)
                        - Cardinality(emptied)
    IN  /\ scanPc = "loop" /\ right <= Cardinality(Marks)
        /\ counts' = after
        /\ left' = left + Cardinality(Dropped)
        /\ distinct' = now
        /\ \/ now = Cardinality(Hit) /\ found' = TRUE /\ scanPc' = "done"
              /\ UNCHANGED right
           \/ now # Cardinality(Hit) /\ right' = right + 1
              /\ UNCHANGED <<found, scanPc>>
        /\ UNCHANGED positions

ScanExhausted ==
    /\ scanPc = "loop" /\ right > Cardinality(Marks)
    /\ scanPc' = "done"
    /\ UNCHANGED <<positions, right, left, counts, distinct, found>>

ScanNext == ScanStart \/ ScanTurn \/ ScanExhausted

ScanSpec == ScanInit /\ [][ScanNext]_scanVars

\* _intent_score of the cluster, and scan's best of it and the overlap.
_intent_score_bug ==
    IF found THEN 300 + (650 * Cardinality(Hit)) \div FacetCount ELSE 0

_intent_score ==
    IF found THEN Least(750, 300 + (450 * Cardinality(Hit)) \div FacetCount) ELSE 0

\* jaccard: the best overlap with a known payload, in thousandths.
jac_conf(jaccard) ==
    IF jaccard >= 500 THEN jaccard ELSE IF jaccard >= 350 THEN 500 ELSE 0

scan_confidence(jaccard) == Greatest(_intent_score, jac_conf(jaccard))

ScanTypeOK ==
    /\ scanPc \in {"start", "loop", "done"}
    /\ left \in 1..right
    /\ counts \in [Facets -> Nat]
    /\ distinct = Cardinality({f \in Facets : counts[f] > 0})

\* _within_window is exact: it answers TRUE just when one representative of
\* every matched facet can be chosen with all of them within the window.
WindowIsExact ==
    scanPc = "done" /\ Cardinality(Hit) >= 2 =>
        (found <=> \E rep \in [Hit -> Positions] :
                      \A f, g \in Hit : /\ rep[f] \in positions[f]
                                        /\ rep[f] - rep[g] <= IntentWindow)

\* A lone paraphrase match asks for a human and does not block by itself, unless
\* the source is one nobody vouches for; a match that has a label is never
\* below review, and agreement of the rules does not lower it.
LoneMatchIsReviewed ==
    scanPc = "done" =>
        /\ \A source \in {"official_api", "verified_catalog", "user_upload"} :
              combine(0, 0, source, _intent_score) < thresholds.injection_hard_block
        /\ \A source \in DOMAIN TRUST, jaccard \in {0, 349, 350, 499, 500, 1000} :
              LET confidence == scan_confidence(jaccard)
              IN  confidence >= 500 =>
                     /\ combine(0, 0, source, confidence) >= thresholds.injection_review
                     /\ combine(450, 0, source, confidence)
                            >= combine(0, 0, source, confidence)
=============================================================================
