---------------------------- MODULE PaymentLedger ----------------------------
(***************************************************************************)
(* What the payment path promises, without locks, stores, rows or          *)
(* providers: money leaves at most once per idempotency key, and what a    *)
(* client is told about a payment is true when it is told and stays true.  *)
(***************************************************************************)
CONSTANTS Requests, KeyOf

VARIABLES
    charged,    \* the requests whose money has left
    told        \* what the client of each request has been told

ledgerVars == <<charged, told>>

Outcomes == {"confirmed", "not_charged", "open"}

LedgerInit ==
    /\ charged = {}
    /\ told = [r \in Requests |-> "nothing"]

\* Money leaves for r: nobody else's has under the same key, and the client
\* was not told that it would not.
Charge(r) ==
    /\ told[r] # "not_charged"
    /\ \A q \in charged : KeyOf[q] # KeyOf[r]
    /\ charged' = charged \cup {r}
    /\ UNCHANGED told

\* The client is answered, once.  "confirmed" may come from a replay, so it
\* is about the key; "open" promises nothing.
Tell(r, outcome) ==
    /\ told[r] = "nothing"
    /\ outcome = "confirmed" => \E q \in charged : KeyOf[q] = KeyOf[r]
    /\ outcome = "not_charged" => r \notin charged
    /\ told' = [told EXCEPT ![r] = outcome]
    /\ UNCHANGED charged

LedgerNext ==
    \E r \in Requests : Charge(r) \/ \E o \in Outcomes : Tell(r, o)

LedgerSpec == LedgerInit /\ [][LedgerNext]_ledgerVars
=============================================================================
