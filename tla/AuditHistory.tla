----------------------------- MODULE AuditHistory -----------------------------
(***************************************************************************)
(* What the audit log promises, without locks, transactions, hashes or     *)
(* tables: one history that only grows, in which no call is recorded       *)
(* twice; a caller that is answered learns the history up to its own       *)
(* event; and whoever lays a checkpoint anchors a moment of that history.  *)
(***************************************************************************)
EXTENDS Naturals, Sequences

CONSTANT Callers

VARIABLES
    history,    \* the recorded calls, oldest first
    told,       \* the history each answered caller was told
    anchored    \* the checkpoints: a count, and the history at some moment

historyVars == <<history, told, anchored>>

HistoryInit ==
    /\ history = <<>>
    /\ told = [w \in Callers |-> <<>>]
    /\ anchored = <<>>

Record(w) ==
    /\ \A i \in 1..Len(history) : history[i] # w
    /\ history' = Append(history, w)
    /\ UNCHANGED <<told, anchored>>

\* Answered once, and only when recorded.
Answer(w) ==
    /\ told[w] = <<>>
    /\ \E n \in 1..Len(history) :
          /\ history[n] = w
          /\ told' = [told EXCEPT ![w] = SubSeq(history, 1, n)]
    /\ UNCHANGED <<history, anchored>>

\* The count was taken no later than the history beside it.
Anchor ==
    /\ \E n \in 0..Len(history) : \E c \in 0..n :
          anchored' = Append(anchored,
                             [count |-> c, head |-> SubSeq(history, 1, n)])
    /\ UNCHANGED <<history, told>>

HistoryNext == Anchor \/ \E w \in Callers : Record(w) \/ Answer(w)

HistorySpec == HistoryInit /\ [][HistoryNext]_historyVars
=============================================================================
