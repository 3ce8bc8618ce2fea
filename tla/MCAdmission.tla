---------------------------- MODULE MCAdmission -----------------------------
(***************************************************************************)
(* A small instance of Admission: amounts that fill the daily limit        *)
(* exactly or cross it by one, one amount at the approval threshold, clean *)
(* and suspicious content, a window of two payments.                       *)
(***************************************************************************)
EXTENDS Admission, TLC

CONSTANTS r1, r2, r3, d1, o1, o2

MCDelegationOf == [r \in Requests |-> d1]

MCAmountOf == [r \in Requests |-> IF r = r2 THEN 80 ELSE 40]

MCContentOf ==
    [r \in Requests |->
        [rule |-> IF r = r3 THEN 450 ELSE 0, similarity |-> 0,
         source |-> IF r = r3 THEN "scraped_page" ELSE "official_api"]]

MCPolicy ==
    [per_transaction_limit |-> 100, daily_limit |-> 120,
     approval_threshold |-> 80, max_transactions_per_hour |-> 2,
     allow_degraded_classifier |-> FALSE,
     degraded_classifier_requires_review |-> TRUE]

MCVerdicts == {[confidence |-> 0, degraded |-> FALSE],
               [confidence |-> 0, degraded |-> TRUE]}

\* Two calls against one request, one against two, and three carts racing.
MCCasts == {[requests |-> {r1}, ops |-> {o1, o2}],
            [requests |-> {r1, r3}, ops |-> {o1}],
            [requests |-> {r1, r2, r3}, ops |-> {}]}

OpSymmetry == Permutations(Ops)
=============================================================================
