------------------------ MODULE TelegramLinkingProofs ------------------------
(***************************************************************************)
(* Telegram linking for any number of accounts, ids and sessions.          *)
(*                                                                         *)
(* What a session read may have changed when it commits, so what the docs  *)
(* promise holds of the sessions nobody overtook, and the invariants say   *)
(* what those still know at their commit: a redeeming session that its     *)
(* code is unspent and its link as it found it, an issuing one that it     *)
(* holds every live code of its account, an unlinking one every link.      *)
(***************************************************************************)
EXTENDS TelegramLinking, FiniteSetTheorems, TLAPS

SessionType ==
    [pc : {"idle", "flush", "commit", "done", "failed"},
     kind : {"none", "issue", "redeem", "unlink", "reset"},
     user : Users \cup {NoUser}, tid : Tids \cup {NoUser},
     code : Codes \cup {NoUser}, rows : SUBSET (Codes \cup Tids),
     had : Users \cup {NoUser}]

\* A redeeming session has a code and a Telegram id.
Bound(s) ==
    session[s].pc = "flush" \/ Committing(s, "redeem") =>
        /\ session[s].kind = "redeem"
        /\ session[s].tid \in Tids /\ session[s].code \in Codes

LinkInv ==
    /\ LinkingTypeOK /\ session \in [Sessions -> SessionType]
    /\ \A s \in Sessions : Bound(s)

\* A redeeming session that was not crossed finds the link it read, or none.
FoundStands(s) ==
    LET t == session[s].tid
    IN  Committing(s, "redeem") /\ <<s, t>> \notin crossed =>
            link[t] \in {session[s].had, NoUser}

\* A deleting session has read every link it answers for.
AnswersFor(s, t) ==
    /\ link[t] # NoUser
    /\ Committing(s, "reset") \/ (Committing(s, "unlink") /\ link[t] = session[s].user)

RowsComplete(s) ==
    \A t \in Tids : AnswersFor(s, t) => t \in session[s].rows \/ <<s, t>> \in crossed

CurrentInv ==
    /\ LinkIsCurrent
    /\ \A s \in Sessions : FoundStands(s) /\ RowsComplete(s)

\* A code exists, and can be redeemed, only once the session that issues it is
\* over, which it is once.
IssuedOnce ==
    \A c \in Codes : session[c].pc # "done" =>
        /\ code[c] = "absent"
        /\ Redeeming(c) = {}
        /\ \A s \in Sessions : <<c, s>> \notin redeemed

\* A code that was redeemed is not live again, and who still holds it from an
\* earlier read was overtaken.
SpentOnce ==
    \A c \in Codes : (\E s \in Sessions : <<c, s>> \in redeemed) =>
        /\ code[c] # "live"
        /\ Redeeming(c) \subseteq raced

OneFairRedemption ==
    \A c \in Codes : \A s, q \in Sessions \ raced :
        <<c, s>> \in redeemed /\ <<c, q>> \in redeemed => s = q

RedeemInv == IssuedOnce /\ SpentOnce /\ OneFairRedemption

\* An issuing session that nobody overtook will delete every live code of its
\* account.
SeesAll(s) == LiveCodes(session[s].user) \subseteq session[s].rows

IssuersSee ==
    \A s \in Sessions : Committing(s, "issue") /\ s \notin raced => SeesAll(s)

IssueInv == IssuersSee /\ OnlyLatestWorks

-----------------------------------------------------------------------------
LEMMA AtMostOne ==
    ASSUME NEW S, \A x, y \in S : x = y
    PROVE  Cardinality(S) <= 1
  <1>1. CASE S = {}
    BY <1>1, FS_EmptySet
  <1>2. CASE S # {}
    <2>1. PICK x \in S : TRUE
      BY <1>2
    <2>2. S = {x}
      BY <2>1
    <2> QED
      BY <2>2, FS_Singleton
  <1> QED
    BY <1>1, <1>2

LEMMA LinkInitially ==
    LinkingInit => LinkInv /\ CurrentInv /\ RedeemInv /\ IssueInv
  <1> SUFFICES ASSUME LinkingInit
               PROVE  LinkInv /\ CurrentInv /\ RedeemInv /\ IssueInv
    OBVIOUS
  <1>1. LinkInv
    BY DEF LinkingInit, LinkInv, LinkingTypeOK, SessionType, NoSession, Bound,
           Committing
  <1>2. CurrentInv
    BY DEF LinkingInit, CurrentInv, LinkIsCurrent, FoundStands, RowsComplete,
           AnswersFor, Committing, NoSession
  <1>3. RedeemInv
    BY DEF LinkingInit, RedeemInv, IssuedOnce, SpentOnce, OneFairRedemption,
           Redeeming, NoSession
  <1>4. IssueInv
    BY DEF LinkingInit, IssueInv, IssuersSee, SeesAll, OnlyLatestWorks, LiveCodes,
           Committing, NoSession
  <1> QED
    BY <1>1, <1>2, <1>3, <1>4

\* A session that ends or fails keeps nothing.
LEMMA SessionTyped ==
    /\ NoSession \in SessionType
    /\ \A how \in {"done", "failed"} :
          /\ [NoSession EXCEPT !.pc = how] \in SessionType
          /\ [NoSession EXCEPT !.pc = how].pc = how
  BY DEF NoSession, SessionType

\* A session that moves on keeps its type.
LEMMA SessionMoves ==
    ASSUME session \in [Sessions -> SessionType], NEW s \in Sessions,
           NEW fields \in SessionType,
           session' = [session EXCEPT ![s] = fields]
    PROVE  /\ session' \in [Sessions -> SessionType]
           /\ \A q \in Sessions :
                 session'[q].pc \in {"idle", "flush", "commit", "done", "failed"}
  <1>1. session' \in [Sessions -> SessionType]
    OBVIOUS
  <1> QED
    BY <1>1 DEF SessionType

LEMMA SessionEnds ==
    ASSUME session \in [Sessions -> SessionType], NEW s \in Sessions,
           NEW how \in {"done", "failed"}, End(s, how)
    PROVE  /\ session' \in [Sessions -> SessionType]
           /\ \A q \in Sessions :
                 session'[q].pc \in {"idle", "flush", "commit", "done", "failed"}
  BY SessionTyped, SessionMoves DEF End

\* How a session goes on after its flush.
Merged(s) == [session[s] EXCEPT !.pc = "commit", !.had = link[session[s].tid]]

LEMMA SessionMerges ==
    ASSUME LinkInv, NEW s \in Sessions, session[s].pc = "flush"
    PROVE  /\ session[s].kind = "redeem"
           /\ session[s].tid \in Tids /\ session[s].code \in Codes
           /\ Merged(s) \in SessionType
           /\ Merged(s).pc = "commit" /\ Merged(s).kind = "redeem"
           /\ Merged(s).tid = session[s].tid /\ Merged(s).code = session[s].code
           /\ Merged(s).had = link[session[s].tid]
  <1>1. /\ session[s].kind = "redeem"
        /\ session[s].tid \in Tids /\ session[s].code \in Codes
    BY DEF LinkInv, Bound
  <1>2. session[s] \in SessionType /\ link[session[s].tid] \in Users \cup {NoUser}
    BY <1>1 DEF LinkInv, LinkingTypeOK
  <1> QED
    BY <1>1, <1>2 DEF SessionType, Merged

LEMMA LinkStep == LinkInv /\ [LinkingNext]_linkVars => LinkInv'
  <1> SUFFICES ASSUME LinkInv, [LinkingNext]_linkVars PROVE LinkInv'
    OBVIOUS
  <1> USE LinkingAssumption DEF LinkInv, LinkingTypeOK
  <1> DEFINE Typed == /\ session' \in [Sessions -> SessionType]
                      /\ \A q \in Sessions :
                            session'[q].pc \in {"idle", "flush", "commit", "done",
                                                "failed"}
             AllBound == \A q \in Sessions : Bound(q)'
             Tables == <<code, owner, stale, link, standing, latest, raced>>
  <1>0. ASSUME NEW s \in Sessions
        PROVE  session[s].user \in Users \cup {NoUser}
    BY DEF SessionType
  \* A session goes on, and is bound if it is to redeem.
  <1>a. ASSUME NEW s \in Sessions, NEW fields \in SessionType,
               session' = [session EXCEPT ![s] = fields],
               fields.pc = "flush" \/ (fields.pc = "commit" /\ fields.kind = "redeem")
                  => /\ fields.kind = "redeem"
                     /\ fields.tid \in Tids /\ fields.code \in Codes
        PROVE  Typed /\ AllBound
    <2>1. Typed
      BY <1>a, SessionMoves
    <2>2. session'[s] = fields /\ \A q \in Sessions \ {s} : session'[q] = session[q]
      BY <1>a
    <2>3. AllBound
      <3> SUFFICES ASSUME NEW q \in Sessions PROVE Bound(q)'
        OBVIOUS
      <3>1. CASE q = s
        BY <1>a, <2>2, <3>1 DEF Bound, Committing
      <3>2. CASE q # s
        <4>1. session'[q] = session[q] /\ Bound(q)
          BY <2>2, <3>2
        <4> QED
          BY <4>1 DEF Bound, Committing
      <3> QED
        BY <3>1, <3>2
    <2> QED
      BY <2>1, <2>3
  <1>b. ASSUME NEW s \in Sessions, NEW how \in {"done", "failed"}, End(s, how)
        PROVE  Typed /\ AllBound
    <2> DEFINE fields == [NoSession EXCEPT !.pc = how]
    <2>1. /\ fields \in SessionType /\ fields.pc \notin {"flush", "commit"}
          /\ session' = [session EXCEPT ![s] = fields]
      BY <1>b, SessionTyped DEF End
    <2> HIDE DEF fields
    <2> QED
      BY <2>1, <1>a
  <1>1. ASSUME NEW s \in Sessions, NEW u \in Users, IssueRead(s, u)
        PROVE  Typed /\ AllBound /\ UNCHANGED Tables
    <2> DEFINE f == [NoSession EXCEPT !.pc = "commit", !.kind = "issue", !.user = u,
                            !.rows = LiveCodes(u)]
    <2>1. f \in SessionType /\ f.pc = "commit" /\ f.kind = "issue"
      BY DEF NoSession, SessionType, LiveCodes
    <2>2. session' = [session EXCEPT ![s] = f] /\ UNCHANGED Tables
      BY <1>1 DEF IssueRead, Begin, histories
    <2> HIDE DEF f
    <2> QED
      BY <2>1, <2>2, <1>a
  <1>2. ASSUME NEW s \in Sessions, NEW u \in Users, UnlinkRead(s, u)
        PROVE  Typed /\ AllBound /\ UNCHANGED Tables
    <2> DEFINE f == [NoSession EXCEPT !.pc = "commit", !.kind = "unlink", !.user = u,
                            !.rows = Linked(u)]
    <2>1. f \in SessionType /\ f.pc = "commit" /\ f.kind = "unlink"
      BY DEF NoSession, SessionType, Linked
    <2>2. session' = [session EXCEPT ![s] = f] /\ UNCHANGED Tables
      BY <1>2 DEF UnlinkRead, Begin, histories
    <2> HIDE DEF f
    <2> QED
      BY <2>1, <2>2, <1>a
  <1>3. ASSUME NEW s \in Sessions, ResetRead(s)
        PROVE  Typed /\ AllBound /\ UNCHANGED Tables
    <2> DEFINE f == [NoSession EXCEPT !.pc = "commit", !.kind = "reset",
                                  !.rows = {t \in Tids : link[t] # NoUser}]
    <2>1. f \in SessionType /\ f.pc = "commit" /\ f.kind = "reset"
      BY DEF NoSession, SessionType
    <2>2. session' = [session EXCEPT ![s] = f] /\ UNCHANGED Tables
      BY <1>3 DEF ResetRead, Begin, histories
    <2> HIDE DEF f
    <2> QED
      BY <2>1, <2>2, <1>a
  <1>4. ASSUME NEW s \in Sessions, NEW c \in Codes, NEW t \in Tids, RedeemRead(s, c, t)
        PROVE  Typed /\ AllBound /\ UNCHANGED Tables
    <2> DEFINE f == [NoSession EXCEPT !.pc = "flush", !.kind = "redeem",
                                       !.user = owner[c], !.tid = t, !.code = c]
               g == [NoSession EXCEPT !.pc = "failed"]
    <2>1. f \in SessionType /\ f.kind = "redeem" /\ f.tid = t /\ f.code = c
      BY DEF NoSession, SessionType
    <2>2. g \in SessionType /\ g.pc = "failed"
      BY SessionTyped
    <2>3. /\ \/ session' = [session EXCEPT ![s] = f]
             \/ session' = [session EXCEPT ![s] = g]
          /\ UNCHANGED Tables
      BY <1>4 DEF RedeemRead, Begin, histories
    <2> HIDE DEF f, g
    <2> QED
      BY <2>1, <2>2, <2>3, <1>a
  <1>5. ASSUME NEW s \in Sessions, RedeemFlush(s)
        PROVE  Typed /\ AllBound /\ UNCHANGED Tables
    <2>1. /\ End(s, "failed") \/ session' = [session EXCEPT ![s] = Merged(s)]
          /\ session[s].pc = "flush" /\ UNCHANGED Tables
      BY <1>5 DEF RedeemFlush, histories, Merged
    <2>2. /\ Merged(s) \in SessionType /\ Merged(s).kind = "redeem"
          /\ Merged(s).tid \in Tids /\ Merged(s).code \in Codes
      BY <2>1, SessionMerges
    <2> QED
      BY <2>1, <2>2, <1>a, <1>b
  <1>6. ASSUME NEW s \in Sessions, IssueCommit(s)
        PROVE  LinkInv'
    <2>1. Typed /\ AllBound
      BY <1>6, <1>b DEF IssueCommit
    <2>2. /\ code' \in [Codes -> {"absent", "live", "used"}]
          /\ owner' \in [Codes -> Users \cup {NoUser}]
          /\ raced' \subseteq Sessions
          /\ latest' \in [Users -> Sessions \cup {NoUser}]
      BY <1>0, <1>6 DEF IssueCommit, Codes
    <2>3. UNCHANGED <<stale, link, standing>>
      BY <1>6 DEF IssueCommit
    <2> QED
      BY <2>1, <2>2, <2>3
  <1>7. ASSUME NEW s \in Sessions, RedeemCommit(s)
        PROVE  LinkInv'
    <2>1. Typed /\ AllBound /\ UNCHANGED <<owner, stale, latest>>
      BY <1>7, <1>b DEF RedeemCommit
    <2> DEFINE me == session[s]
    <2>2. \/ /\ code' = [code EXCEPT ![me.code] = "used"]
             /\ \/ link' = link
                \/ link' = [link EXCEPT ![me.tid] = me.user]
             /\ standing' = [standing EXCEPT ![me.tid] = me.user]
             /\ raced' \subseteq raced \cup Sessions
          \/ UNCHANGED <<code, link, standing, raced>>
      BY <1>7 DEF RedeemCommit, Redeeming
    <2>3. me.user \in Users \cup {NoUser}
      BY <1>0
    <2> HIDE DEF me
    <2> QED
      BY <2>1, <2>2, <2>3
  <1>8. ASSUME NEW s \in Sessions, UnlinkCommit(s)
        PROVE  LinkInv'
    <2>1. Typed /\ AllBound
      BY <1>8, <1>b DEF UnlinkCommit, Delete
    <2> QED
      BY <1>8, <2>1 DEF UnlinkCommit, Delete
  <1>9. ASSUME NEW s \in Sessions, ResetCommit(s)
        PROVE  LinkInv'
    <2>1. Typed /\ AllBound
      BY <1>9, <1>b DEF ResetCommit, Delete
    <2> QED
      BY <1>9, <2>1 DEF ResetCommit, Delete
  <1>10. ASSUME NEW s \in Sessions, Rollback(s)
         PROVE  Typed /\ AllBound /\ UNCHANGED Tables
    BY <1>10, <1>b DEF Rollback, histories
  <1>11. ASSUME NEW c \in Codes, CodeAges(c)
         PROVE  LinkInv'
    BY <1>11 DEF CodeAges, histories, Bound, Committing
  <1>12. CASE UNCHANGED linkVars
    BY <1>12 DEF linkVars, histories, Bound, Committing
  <1>13. ASSUME Typed, AllBound, UNCHANGED Tables PROVE LinkInv'
    BY <1>13
  <1> QED
    BY <1>1, <1>2, <1>3, <1>4, <1>5, <1>6, <1>7, <1>8, <1>9, <1>10, <1>11, <1>12,
       <1>13 DEF LinkingNext

\* The tables and the sessions have the shape the code gives them.
THEOREM LinkingTypeCorrect == LinkingSpec => []LinkingTypeOK
  <1>1. LinkInv => LinkingTypeOK
    BY DEF LinkInv
  <1> QED
    BY <1>1, LinkInitially, LinkStep, PTL DEF LinkingSpec

-----------------------------------------------------------------------------
\* A step that links nobody leaves what the sessions know of the links.
LEMMA KnowledgeKept ==
    ASSUME LinkInv, CurrentInv, crossed \subseteq crossed',
           \A t \in Tids : link'[t] \in {link[t], NoUser},
           \A q \in Sessions :
              \/ session'[q] = session[q]
              \/ session'[q].pc # "commit"
              \/ FoundStands(q)' /\ RowsComplete(q)'
    PROVE  \A q \in Sessions : FoundStands(q)' /\ RowsComplete(q)'
  <1> SUFFICES ASSUME NEW q \in Sessions PROVE FoundStands(q)' /\ RowsComplete(q)'
    OBVIOUS
  <1>1. CASE session'[q] = session[q]
    <2>1. FoundStands(q)'
      BY <1>1 DEF CurrentInv, FoundStands, Committing, LinkInv, Bound
    <2>2. RowsComplete(q)'
      BY <1>1 DEF CurrentInv, RowsComplete, AnswersFor, Committing
    <2> QED
      BY <2>1, <2>2
  <1>2. CASE session'[q].pc # "commit"
    BY <1>2 DEF FoundStands, RowsComplete, AnswersFor, Committing
  <1> QED
    BY <1>1, <1>2

LEMMA CurrentStep == LinkInv /\ CurrentInv /\ [LinkingNext]_linkVars => CurrentInv'
  <1> SUFFICES ASSUME LinkInv, CurrentInv, [LinkingNext]_linkVars PROVE CurrentInv'
    OBVIOUS
  <1>0. session \in [Sessions -> SessionType]
    BY DEF LinkInv
  <1> DEFINE Links == <<link, standing, crossed, mixed>>
  \* A session starts or goes on, and the links stay.
  <1>a. ASSUME NEW s \in Sessions, NEW fields, UNCHANGED Links,
               session' = [session EXCEPT ![s] = fields],
               \/ fields.pc # "commit"
               \/ FoundStands(s)' /\ RowsComplete(s)'
        PROVE  CurrentInv'
    <2>1. \A q \in Sessions :
              \/ session'[q] = session[q]
              \/ session'[q].pc # "commit"
              \/ FoundStands(q)' /\ RowsComplete(q)'
      BY <1>0, <1>a
    <2>2. \A q \in Sessions : FoundStands(q)' /\ RowsComplete(q)'
      BY <1>a, <2>1, KnowledgeKept
    <2> QED
      BY <1>a, <2>2 DEF CurrentInv, LinkIsCurrent
  <1>b. ASSUME NEW s \in Sessions, NEW how \in {"done", "failed"}, End(s, how)
        PROVE  \E fields : fields.pc # "commit" /\ session' = [session EXCEPT ![s] = fields]
    BY <1>b, SessionTyped DEF End
  \* Links are deleted: those the session read, among them all it answers for.
  <1>c. ASSUME NEW s \in Sessions, NEW ids, NEW unlinked, Delete(s, ids, unlinked),
               UNCHANGED <<crossed, mixed>>,
               \A t \in Tids : t \in unlinked /\ <<s, t>> \notin crossed /\ t \notin ids
                  => link[t] = NoUser \/ link[t] # standing[t]
        PROVE  CurrentInv'
    <2>1. \A q \in Sessions : session'[q] = session[q] \/ session'[q].pc # "commit"
      BY <1>0, <1>c, SessionTyped DEF Delete, End
    <2>2. \A t \in Tids :
             /\ link'[t] = IF t \in ids THEN NoUser ELSE link[t]
             /\ standing'[t] = IF t \in unlinked /\ <<s, t>> \notin crossed
                                   THEN NoUser ELSE standing[t]
      BY <1>c DEF Delete
    <2>3. \A q \in Sessions : FoundStands(q)' /\ RowsComplete(q)'
      BY <1>c, <2>1, <2>2, KnowledgeKept
    <2>4. LinkIsCurrent'
      <3> SUFFICES ASSUME NEW t \in Tids, t \notin mixed
                   PROVE  link'[t] \in {NoUser, standing'[t]}
        BY <1>c DEF LinkIsCurrent
      <3>1. link[t] \in {NoUser, standing[t]}
        BY DEF CurrentInv, LinkIsCurrent
      <3> QED
        BY <1>c, <2>2, <3>1
    <2> QED
      BY <2>3, <2>4 DEF CurrentInv
  <1>1. ASSUME NEW s \in Sessions, NEW u \in Users, IssueRead(s, u)
        PROVE  CurrentInv'
    <2> DEFINE f == [NoSession EXCEPT !.pc = "commit", !.kind = "issue", !.user = u,
                            !.rows = LiveCodes(u)]
    <2>1. session' = [session EXCEPT ![s] = f] /\ UNCHANGED Links
      BY <1>1 DEF IssueRead, Begin, histories
    <2>2. f.kind = "issue"
      BY DEF NoSession
    <2> HIDE DEF f
    <2>3. session'[s] = f
      BY <1>0, <2>1
    <2>4. FoundStands(s)' /\ RowsComplete(s)'
      BY <2>2, <2>3 DEF FoundStands, RowsComplete, AnswersFor, Committing
    <2> QED
      BY <2>1, <2>4, <1>a
  <1>2. ASSUME NEW s \in Sessions, NEW u \in Users, UnlinkRead(s, u)
        PROVE  CurrentInv'
    <2> DEFINE f == [NoSession EXCEPT !.pc = "commit", !.kind = "unlink", !.user = u,
                            !.rows = Linked(u)]
    <2>1. session' = [session EXCEPT ![s] = f] /\ UNCHANGED Links
      BY <1>2 DEF UnlinkRead, Begin, histories
    <2>2. f.kind = "unlink" /\ f.user = u /\ f.rows = Linked(u)
      BY DEF NoSession
    <2> HIDE DEF f
    <2>3. session'[s] = f
      BY <1>0, <2>1
    <2>4. FoundStands(s)' /\ RowsComplete(s)'
      BY <2>1, <2>2, <2>3 DEF FoundStands, RowsComplete, AnswersFor, Committing, Linked
    <2> QED
      BY <2>1, <2>4, <1>a
  <1>3. ASSUME NEW s \in Sessions, ResetRead(s)
        PROVE  CurrentInv'
    <2> DEFINE f == [NoSession EXCEPT !.pc = "commit", !.kind = "reset",
                                  !.rows = {t \in Tids : link[t] # NoUser}]
    <2>1. session' = [session EXCEPT ![s] = f] /\ UNCHANGED Links
      BY <1>3 DEF ResetRead, Begin, histories
    <2>2. f.kind = "reset" /\ f.rows = {t \in Tids : link[t] # NoUser}
      BY DEF NoSession
    <2> HIDE DEF f
    <2>3. session'[s] = f
      BY <1>0, <2>1
    <2>4. FoundStands(s)' /\ RowsComplete(s)'
      BY <2>1, <2>2, <2>3 DEF FoundStands, RowsComplete, AnswersFor, Committing
    <2> QED
      BY <2>1, <2>4, <1>a
  <1>4. ASSUME NEW s \in Sessions, NEW c \in Codes, NEW t \in Tids, RedeemRead(s, c, t)
        PROVE  CurrentInv'
    <2> DEFINE f == [NoSession EXCEPT !.pc = "flush", !.kind = "redeem",
                                       !.user = owner[c], !.tid = t, !.code = c]
               g == [NoSession EXCEPT !.pc = "failed"]
    <2>1. /\ \/ session' = [session EXCEPT ![s] = f]
             \/ session' = [session EXCEPT ![s] = g]
          /\ UNCHANGED Links
      BY <1>4 DEF RedeemRead, Begin, histories
    <2>2. f.pc # "commit" /\ g.pc # "commit"
      BY DEF NoSession
    <2> HIDE DEF f, g
    <2> QED
      BY <2>1, <2>2, <1>a
  <1>5. ASSUME NEW s \in Sessions, RedeemFlush(s)
        PROVE  CurrentInv'
    <2> DEFINE f == Merged(s)
    <2>1. /\ End(s, "failed") \/ session' = [session EXCEPT ![s] = f]
          /\ session[s].pc = "flush" /\ UNCHANGED Links
      BY <1>5 DEF RedeemFlush, histories, Merged
    <2>2. CASE End(s, "failed")
      BY <2>1, <2>2, <1>a, <1>b
    <2>3. CASE session' = [session EXCEPT ![s] = f]
      <3>2. f.kind = "redeem" /\ f.tid = session[s].tid /\ f.had = link[session[s].tid]
        BY <2>1, SessionMerges
      <3> HIDE DEF f
      <3>3. session'[s] = f
        BY <1>0, <2>3
      <3>4. FoundStands(s)' /\ RowsComplete(s)'
        BY <2>1, <3>2, <3>3 DEF FoundStands, RowsComplete, AnswersFor, Committing
      <3> QED
        BY <2>1, <2>3, <3>4, <1>a
    <2> QED
      BY <2>1, <2>2, <2>3
  <1>6. ASSUME NEW s \in Sessions, IssueCommit(s)
        PROVE  CurrentInv'
    <2>1. End(s, "done") /\ UNCHANGED Links
      BY <1>6 DEF IssueCommit
    <2> QED
      BY <2>1, <1>a, <1>b
  <1>7. ASSUME NEW s \in Sessions, RedeemCommit(s)
        PROVE  CurrentInv'
    <2> DEFINE me == session[s]
               t == me.tid
    <2>0. /\ Committing(s, "redeem") /\ t \in Tids
          /\ <<s, t>> \notin crossed => link[t] \in {me.had, NoUser}
      BY <1>7 DEF RedeemCommit, LinkInv, Bound, CurrentInv, FoundStands
    <2>1. CASE End(s, "failed") /\ UNCHANGED Links
      BY <2>1, <1>a, <1>b
    <2>2. CASE /\ (me.had = NoUser) = (link[t] = NoUser)
               /\ link' = IF me.had = me.user THEN link
                                             ELSE [link EXCEPT ![t] = me.user]
               /\ standing' = [standing EXCEPT ![t] = me.user]
               /\ crossed' = crossed \cup {<<q, t>> : q \in {r \in Sessions : ReadLinks(r)}}
               /\ mixed' = IF <<s, t>> \in crossed THEN mixed \cup {t} ELSE mixed \ {t}
               /\ End(s, "done")
      <3>1. /\ session'[s].pc = "done"
            /\ \A q \in Sessions \ {s} : session'[q] = session[q]
        BY <1>0, <2>2, SessionTyped DEF End
      <3>2. /\ link \in [Tids -> Users \cup {NoUser}]
            /\ standing \in [Tids -> Users \cup {NoUser}]
        BY DEF LinkInv, LinkingTypeOK
      <3> HIDE DEF me, t
      <3>3. /\ \A r \in Tids \ {t} : link'[r] = link[r] /\ standing'[r] = standing[r]
            /\ standing'[t] = me.user
            /\ <<s, t>> \notin crossed => link'[t] = me.user
        BY <2>0, <2>2, <3>2
      <3>4. LinkIsCurrent'
        <4> SUFFICES ASSUME NEW r \in Tids, r \notin mixed'
                     PROVE  link'[r] \in {NoUser, standing'[r]}
          BY DEF LinkIsCurrent
        <4>1. CASE r = t
          BY <2>2, <3>3, <4>1
        <4>2. CASE r # t
          <5>1. r \notin mixed
            BY <2>2, <4>2
          <5> QED
            BY <3>3, <4>2, <5>1 DEF CurrentInv, LinkIsCurrent
        <4> QED
          BY <4>1, <4>2
      <3>5. ASSUME NEW q \in Sessions PROVE FoundStands(q)' /\ RowsComplete(q)'
        <4>1. CASE q = s
          BY <3>1, <4>1 DEF FoundStands, RowsComplete, AnswersFor, Committing
        <4>2. CASE q # s
          <5>1. session'[q] = session[q] /\ crossed \subseteq crossed'
            BY <2>2, <3>1, <4>2
          <5>2. ReadLinks(q) => <<q, t>> \in crossed'
            BY <2>2
          <5>3. FoundStands(q)'
            BY <3>3, <5>1, <5>2 DEF CurrentInv, FoundStands, Committing, ReadLinks,
               LinkInv, Bound
          <5>4. RowsComplete(q)'
            <6> SUFFICES ASSUME NEW r \in Tids, AnswersFor(q, r)'
                         PROVE  r \in session'[q].rows \/ <<q, r>> \in crossed'
              BY DEF RowsComplete
            <6>1. CASE r = t
              BY <5>1, <5>2, <6>1 DEF AnswersFor, Committing, ReadLinks
            <6>2. CASE r # t
              <7>1. AnswersFor(q, r)
                BY <3>3, <5>1, <6>2 DEF AnswersFor, Committing
              <7> QED
                BY <5>1, <7>1 DEF CurrentInv, RowsComplete
            <6> QED
              BY <6>1, <6>2
          <5> QED
            BY <5>3, <5>4
        <4> QED
          BY <4>1, <4>2
      <3> QED
        BY <3>4, <3>5 DEF CurrentInv
    <2> QED
      BY <1>7, <2>1, <2>2 DEF RedeemCommit
  <1>8. ASSUME NEW s \in Sessions, UnlinkCommit(s)
        PROVE  CurrentInv'
    <2> DEFINE me == session[s]
    <2>1. /\ Committing(s, "unlink") /\ UNCHANGED <<crossed, mixed>>
          /\ Delete(s, me.rows, {t \in Tids : standing[t] = me.user})
      BY <1>8 DEF UnlinkCommit
    <2>2. ASSUME NEW t \in Tids, standing[t] = me.user, <<s, t>> \notin crossed,
                 t \notin me.rows
          PROVE  link[t] = NoUser \/ link[t] # standing[t]
      BY <2>1, <2>2 DEF CurrentInv, RowsComplete, AnswersFor
    <2> HIDE DEF me
    <2> QED
      BY <2>1, <2>2, <1>c
  <1>9. ASSUME NEW s \in Sessions, ResetCommit(s)
        PROVE  CurrentInv'
    <2>1. /\ Committing(s, "reset") /\ UNCHANGED <<crossed, mixed>>
          /\ Delete(s, session[s].rows, Tids)
      BY <1>9 DEF ResetCommit
    <2>2. ASSUME NEW t \in Tids, <<s, t>> \notin crossed, t \notin session[s].rows
          PROVE  link[t] = NoUser
      BY <2>1, <2>2 DEF CurrentInv, RowsComplete, AnswersFor
    <2> QED
      BY <2>1, <2>2, <1>c
  <1>10. ASSUME NEW s \in Sessions, Rollback(s)
         PROVE  CurrentInv'
    <2>1. End(s, "failed") /\ UNCHANGED Links
      BY <1>10 DEF Rollback, histories
    <2> QED
      BY <2>1, <1>a, <1>b
  <1>11. ASSUME UNCHANGED <<session, Links>>
         PROVE  CurrentInv'
    BY <1>11 DEF CurrentInv, LinkIsCurrent, FoundStands, RowsComplete, AnswersFor,
       Committing
  <1>12. ASSUME NEW c \in Codes, CodeAges(c)
         PROVE  CurrentInv'
    BY <1>11, <1>12 DEF CodeAges, histories
  <1>13. CASE UNCHANGED linkVars
    BY <1>11, <1>13 DEF linkVars, histories
  <1> QED
    BY <1>1, <1>2, <1>3, <1>4, <1>5, <1>6, <1>7, <1>8, <1>9, <1>10, <1>12, <1>13
       DEF LinkingNext

\* A Telegram id acts for the account it redeemed last and for none it was
\* unlinked from since: a merge that nobody crossed writes over the link it
\* found, and an unlink or a reset deletes every link it answers for, because
\* whatever was linked after its read is known to have crossed it.
THEOREM LinksAreCurrent == LinkingSpec => []LinkIsCurrent
  <1>1. CurrentInv => LinkIsCurrent
    BY DEF CurrentInv
  <1> QED
    BY <1>1, LinkInitially, LinkStep, CurrentStep, PTL DEF LinkingSpec

-----------------------------------------------------------------------------
\* A step that redeems nothing and makes a code live only for the first time.
LEMMA RedeemKept ==
    ASSUME RedeemInv, raced \subseteq raced', redeemed' = redeemed,
           \A c \in Codes : Redeeming(c)' \subseteq Redeeming(c),
           \A c \in Codes : session[c].pc = "done" => session'[c].pc = "done",
           \A c \in Codes :
              \/ code'[c] \in {code[c], "absent"}
              \/ session[c].pc # "done" /\ session'[c].pc = "done"
    PROVE  RedeemInv'
  <1>1. IssuedOnce'
    <2> SUFFICES ASSUME NEW c \in Codes, session'[c].pc # "done"
                 PROVE  /\ code'[c] = "absent" /\ Redeeming(c)' = {}
                        /\ \A s \in Sessions : <<c, s>> \notin redeemed'
      BY DEF IssuedOnce
    <2> QED
      BY DEF RedeemInv, IssuedOnce
  <1>2. SpentOnce'
    <2> SUFFICES ASSUME NEW c \in Codes, NEW s \in Sessions, <<c, s>> \in redeemed'
                 PROVE  code'[c] # "live" /\ Redeeming(c)' \subseteq raced'
      BY DEF SpentOnce
    <2>1. session[c].pc = "done"
      BY DEF RedeemInv, IssuedOnce
    <2> QED
      BY <2>1 DEF RedeemInv, SpentOnce
  <1>3. OneFairRedemption'
    BY DEF RedeemInv, OneFairRedemption
  <1> QED
    BY <1>1, <1>2, <1>3 DEF RedeemInv

LEMMA RedeemStep == LinkInv /\ RedeemInv /\ [LinkingNext]_linkVars => RedeemInv'
  <1> SUFFICES ASSUME LinkInv, RedeemInv, [LinkingNext]_linkVars PROVE RedeemInv'
    OBVIOUS
  <1> USE DEF Codes
  <1>0. /\ session \in [Sessions -> SessionType]
        /\ code \in [Codes -> {"absent", "live", "used"}]
    BY DEF LinkInv, LinkingTypeOK
  \* A session that starts, but not to redeem.
  <1>1. ASSUME NEW s \in Sessions, NEW fields, Begin(s, fields),
               fields.kind # "redeem",
               UNCHANGED <<code, redeemed, raced>>
        PROVE  RedeemInv'
    <2>1. session[s].pc = "idle" /\ session' = [session EXCEPT ![s] = fields]
      BY <1>1 DEF Begin
    <2>2. \A c \in Codes : Redeeming(c)' \subseteq Redeeming(c)
      BY <1>0, <1>1, <2>1 DEF Redeeming
    <2>3. \A c \in Codes : session[c].pc = "done" => session'[c].pc = "done"
      BY <1>0, <2>1
    <2> QED
      BY <1>1, <2>2, <2>3, RedeemKept
  \* A session that ends without having redeemed.
  <1>2. ASSUME NEW s \in Sessions, NEW how, End(s, how), how \in {"done", "failed"},
               session[s].pc \in {"flush", "commit"}, redeemed' = redeemed,
               raced \subseteq raced',
               \A c \in Codes : \/ code'[c] \in {code[c], "absent"}
                                \/ c = s /\ how = "done"
        PROVE  RedeemInv'
    <2>1. /\ session'[s].pc = how
          /\ \A q \in Sessions \ {s} : session'[q] = session[q]
      BY <1>0, <1>2, SessionTyped DEF End
    <2>2. \A c \in Codes : Redeeming(c)' \subseteq Redeeming(c)
      BY <1>2, <2>1 DEF Redeeming
    <2>3. \A c \in Codes : session[c].pc = "done" => session'[c].pc = "done"
      BY <1>2, <2>1
    <2> QED
      BY <1>2, <2>1, <2>2, <2>3, RedeemKept
  <1>3. ASSUME NEW s \in Sessions, NEW u \in Users, IssueRead(s, u)
        PROVE  RedeemInv'
    BY <1>1, <1>3 DEF IssueRead, NoSession, histories
  <1>4. ASSUME NEW s \in Sessions, NEW u \in Users, UnlinkRead(s, u)
        PROVE  RedeemInv'
    BY <1>1, <1>4 DEF UnlinkRead, NoSession, histories
  <1>r. ASSUME NEW s \in Sessions, ResetRead(s)
        PROVE  RedeemInv'
    BY <1>1, <1>r DEF ResetRead, NoSession, histories
  <1>5. ASSUME NEW s \in Sessions, NEW c \in Codes, NEW t \in Tids,
               RedeemRead(s, c, t)
        PROVE  RedeemInv'
    <2>1. CASE ~(code[c] = "live" /\ c \notin stale)
      BY <1>1, <1>5, <2>1 DEF RedeemRead, NoSession, histories
    <2>2. CASE code[c] = "live" /\ c \notin stale
      <3> DEFINE fields == [NoSession EXCEPT !.pc = "flush", !.kind = "redeem",
                                       !.user = owner[c], !.tid = t, !.code = c]
      <3>1. /\ session[s].pc = "idle" /\ session' = [session EXCEPT ![s] = fields]
            /\ UNCHANGED <<code, redeemed, raced>>
        BY <1>5, <2>2 DEF RedeemRead, Begin, histories
      <3>2. fields.pc = "flush" /\ fields.kind = "redeem" /\ fields.code = c
        BY DEF NoSession
      <3> HIDE DEF fields
      <3>3. /\ session[c].pc = "done" /\ \A q \in Sessions : <<c, q>> \notin redeemed
            /\ c # s
        BY <2>2, <3>1 DEF RedeemInv, IssuedOnce, SpentOnce
      <3>4. /\ session'[s] = fields
            /\ \A q \in Sessions \ {s} : session'[q] = session[q]
        BY <1>0, <3>1
      <3>5. /\ \A d \in Codes \ {c} : Redeeming(d)' = Redeeming(d)
            /\ session'[c].pc = "done"
        BY <3>1, <3>2, <3>3, <3>4 DEF Redeeming
      <3>6. IssuedOnce'
        BY <3>1, <3>2, <3>4, <3>5 DEF RedeemInv, IssuedOnce
      <3>7. SpentOnce'
        BY <3>1, <3>3, <3>5 DEF RedeemInv, SpentOnce
      <3>8. OneFairRedemption'
        BY <3>1 DEF RedeemInv, OneFairRedemption
      <3> QED
        BY <3>6, <3>7, <3>8 DEF RedeemInv
    <2> QED
      BY <2>1, <2>2
  <1>6. ASSUME NEW s \in Sessions, IssueCommit(s)
        PROVE  RedeemInv'
    <2>1. \A c \in Codes : code'[c] \in {code[c], "absent"} \/ c = s
      BY <1>0, <1>6 DEF IssueCommit
    <2> QED
      BY <1>2, <1>6, <2>1 DEF IssueCommit, Committing
  <1>f. ASSUME NEW s \in Sessions, RedeemFlush(s)
        PROVE  RedeemInv'
    <2> DEFINE f == Merged(s)
    <2>1. /\ End(s, "failed") \/ session' = [session EXCEPT ![s] = f]
          /\ session[s].pc = "flush" /\ UNCHANGED <<code, redeemed, raced>>
      BY <1>f DEF RedeemFlush, histories, Merged
    <2>2. CASE End(s, "failed")
      BY <1>2, <2>1, <2>2
    <2>3. CASE session' = [session EXCEPT ![s] = f]
      <3>1. f.pc = "commit" /\ f.kind = session[s].kind /\ f.code = session[s].code
        BY <2>1, SessionMerges
      <3> HIDE DEF f
      <3>2. session'[s] = f /\ \A q \in Sessions \ {s} : session'[q] = session[q]
        BY <1>0, <2>3
      <3>3. \A c \in Codes : Redeeming(c)' \subseteq Redeeming(c)
        BY <2>1, <3>1, <3>2 DEF Redeeming
      <3>4. \A c \in Codes : session[c].pc = "done" => session'[c].pc = "done"
        BY <2>1, <3>2
      <3> QED
        BY <2>1, <3>3, <3>4, RedeemKept
    <2> QED
      BY <2>1, <2>2, <2>3
  <1>7. ASSUME NEW s \in Sessions, UnlinkCommit(s)
        PROVE  RedeemInv'
    BY <1>2, <1>7 DEF UnlinkCommit, Delete, Committing
  <1>d. ASSUME NEW s \in Sessions, ResetCommit(s)
        PROVE  RedeemInv'
    BY <1>2, <1>d DEF ResetCommit, Delete, Committing
  <1>b. ASSUME NEW s \in Sessions, Rollback(s)
        PROVE  RedeemInv'
    BY <1>2, <1>b DEF Rollback, histories
  <1>8. ASSUME NEW s \in Sessions, RedeemCommit(s)
        PROVE  RedeemInv'
    <2> DEFINE me == session[s]
               c == me.code
    <2>0. s \in Redeeming(c) /\ me.pc = "commit"
      BY <1>8 DEF RedeemCommit, Redeeming, Committing
    <2>1. CASE End(s, "failed") /\ UNCHANGED <<code, redeemed, raced>>
      BY <1>2, <2>0, <2>1
    <2>2. CASE /\ code' = [code EXCEPT ![c] = "used"]
               /\ redeemed' = redeemed \cup {<<c, s>>}
               /\ raced' = raced \cup (Redeeming(c) \ {s})
               /\ End(s, "done")
      <3>1. /\ session'[s].pc = "done"
            /\ \A q \in Sessions \ {s} : session'[q] = session[q]
        BY <1>0, <2>2, SessionTyped DEF End
      <3> HIDE DEF c
      <3>2. \A d \in Codes : Redeeming(d)' \subseteq Redeeming(d) \ {s}
        BY <2>0, <3>1 DEF Redeeming
      <3>3. c \in Codes => session[c].pc = "done" /\ session'[c].pc = "done"
        BY <2>0, <3>1 DEF RedeemInv, IssuedOnce
      <3>4. IssuedOnce'
        BY <1>0, <2>0, <2>2, <3>1, <3>2, <3>3 DEF RedeemInv, IssuedOnce
      <3>5. SpentOnce'
        <4> SUFFICES ASSUME NEW d \in Codes, NEW q \in Sessions, <<d, q>> \in redeemed'
                     PROVE  code'[d] # "live" /\ Redeeming(d)' \subseteq raced'
          BY DEF SpentOnce
        <4>1. CASE d = c
          BY <1>0, <2>2, <3>2, <4>1
        <4>2. CASE d # c
          BY <1>0, <2>2, <3>2, <4>2 DEF RedeemInv, SpentOnce
        <4> QED
          BY <4>1, <4>2
      <3>6. OneFairRedemption'
        <4> SUFFICES ASSUME NEW d \in Codes, NEW p \in Sessions \ raced',
                            NEW q \in Sessions \ raced',
                            <<d, p>> \in redeemed', <<d, q>> \in redeemed'
                     PROVE  p = q
          BY DEF OneFairRedemption
        <4>1. d = c /\ (\E x \in Sessions : <<c, x>> \in redeemed) => s \in raced
          BY <2>0 DEF RedeemInv, SpentOnce
        <4> QED
          BY <2>2, <4>1 DEF RedeemInv, OneFairRedemption
      <3> QED
        BY <3>4, <3>5, <3>6 DEF RedeemInv
    <2> QED
      BY <1>8, <2>1, <2>2 DEF RedeemCommit
  <1>9. ASSUME UNCHANGED <<session, redeemed, raced>>,
               \A c \in Codes : code'[c] \in {code[c], "absent"}
        PROVE  RedeemInv'
    <2>1. \A c \in Codes : Redeeming(c)' = Redeeming(c)
      BY <1>9 DEF Redeeming
    <2> QED
      BY <1>9, <2>1, RedeemKept
  <1>10. ASSUME NEW c \in Codes, CodeAges(c)
         PROVE  RedeemInv'
    BY <1>9, <1>10 DEF CodeAges, histories
  <1>11. CASE UNCHANGED linkVars
    BY <1>9, <1>11 DEF linkVars, histories
  <1> QED
    BY <1>3, <1>4, <1>r, <1>5, <1>f, <1>6, <1>7, <1>d, <1>b, <1>8, <1>10, <1>11
       DEF LinkingNext

\* Of the redemptions of one code at most one committed without another having
\* committed between its read and its commit: a code that was redeemed is never
\* live again, and who read it earlier counts as overtaken.
THEOREM CodesAreSingleUse == LinkingSpec => []SingleUse
  <1>1. RedeemInv => SingleUse
    <2> SUFFICES ASSUME RedeemInv, NEW c \in Codes
                 PROVE  Cardinality({s \in Sessions \ raced : <<c, s>> \in redeemed}) <= 1
      BY DEF SingleUse
    <2>1. \A p, q \in {s \in Sessions \ raced : <<c, s>> \in redeemed} : p = q
      BY DEF RedeemInv, OneFairRedemption
    <2> QED
      BY <2>1, AtMostOne
  <1> QED
    BY <1>1, LinkInitially, LinkStep, RedeemStep, PTL DEF LinkingSpec

-----------------------------------------------------------------------------
\* A step by which no code becomes live, and nobody comes to issue without
\* having read all that are.
LEMMA IssueKept ==
    ASSUME IssueInv, raced \subseteq raced', latest' = latest,
           \A c \in Codes : code'[c] = "live" =>
              code[c] = "live" /\ owner'[c] = owner[c],
           \A s \in Sessions : Committing(s, "issue")' =>
              \/ Committing(s, "issue") /\ session'[s] = session[s]
              \/ SeesAll(s)'
    PROVE  IssueInv'
  <1>1. IssuersSee'
    <2> SUFFICES ASSUME NEW s \in Sessions, Committing(s, "issue")', s \notin raced'
                 PROVE  SeesAll(s)'
      BY DEF IssuersSee
    <2>1. CASE Committing(s, "issue") /\ session'[s] = session[s]
      <3>1. SeesAll(s)
        BY <2>1 DEF IssueInv, IssuersSee
      <3> QED
        BY <2>1, <3>1 DEF SeesAll, LiveCodes
    <2> QED
      BY <2>1
  <1>2. OnlyLatestWorks'
    BY DEF IssueInv, OnlyLatestWorks, LiveCodes
  <1> QED
    BY <1>1, <1>2 DEF IssueInv

LEMMA IssueStep == LinkInv /\ IssueInv /\ [LinkingNext]_linkVars => IssueInv'
  <1> SUFFICES ASSUME LinkInv, IssueInv, [LinkingNext]_linkVars PROVE IssueInv'
    OBVIOUS
  <1> USE DEF Codes
  <1>0. /\ session \in [Sessions -> SessionType]
        /\ code \in [Codes -> {"absent", "live", "used"}]
        /\ owner \in [Codes -> Users \cup {NoUser}]
    BY DEF LinkInv, LinkingTypeOK
  \* A session that starts or goes on, if to issue then with all live codes read.
  <1>1. ASSUME NEW s \in Sessions, NEW fields, session' = [session EXCEPT ![s] = fields],
               \/ fields.pc # "commit" \/ fields.kind # "issue"
               \/ LiveCodes(fields.user) \subseteq fields.rows,
               UNCHANGED <<code, owner, raced, latest>>
        PROVE  IssueInv'
    <2>2. ASSUME NEW q \in Sessions, Committing(q, "issue")'
          PROVE  \/ Committing(q, "issue") /\ session'[q] = session[q]
                 \/ SeesAll(q)'
      <3>1. CASE q = s
        <4>1. LiveCodes(fields.user) \subseteq fields.rows /\ session'[s] = fields
          BY <1>0, <1>1, <2>2, <3>1 DEF Committing
        <4> QED
          BY <1>1, <3>1, <4>1 DEF SeesAll, LiveCodes
      <3>2. CASE q # s
        BY <1>0, <1>1, <2>2, <3>2 DEF Committing
      <3> QED
        BY <3>1, <3>2
    <2> QED
      BY <1>1, <2>2, IssueKept
  \* A session that ends without having issued.
  <1>2. ASSUME NEW s \in Sessions, NEW how \in {"done", "failed"}, End(s, how),
               raced \subseteq raced', latest' = latest,
               \A c \in Codes : code'[c] = "live" =>
                  code[c] = "live" /\ owner'[c] = owner[c]
        PROVE  IssueInv'
    <2>1. /\ session'[s].pc = how
          /\ \A q \in Sessions \ {s} : session'[q] = session[q]
      BY <1>0, <1>2, SessionTyped DEF End
    <2>2. \A q \in Sessions : Committing(q, "issue")' =>
             Committing(q, "issue") /\ session'[q] = session[q]
      BY <1>2, <2>1 DEF Committing
    <2> QED
      BY <1>2, <2>2, IssueKept
  <1>3. ASSUME NEW s \in Sessions, NEW u \in Users, IssueRead(s, u)
        PROVE  IssueInv'
    BY <1>1, <1>3 DEF IssueRead, Begin, NoSession, histories
  <1>4. ASSUME NEW s \in Sessions, NEW u \in Users, UnlinkRead(s, u)
        PROVE  IssueInv'
    BY <1>1, <1>4 DEF UnlinkRead, Begin, NoSession, histories
  <1>r. ASSUME NEW s \in Sessions, ResetRead(s)
        PROVE  IssueInv'
    BY <1>1, <1>r DEF ResetRead, Begin, NoSession, histories
  <1>5. ASSUME NEW s \in Sessions, NEW c \in Codes, NEW t \in Tids,
               RedeemRead(s, c, t)
        PROVE  IssueInv'
    BY <1>1, <1>5 DEF RedeemRead, Begin, NoSession, histories
  <1>f. ASSUME NEW s \in Sessions, RedeemFlush(s)
        PROVE  IssueInv'
    <2> DEFINE f == Merged(s)
    <2>1. /\ End(s, "failed") \/ session' = [session EXCEPT ![s] = f]
          /\ session[s].pc = "flush" /\ UNCHANGED <<code, owner, raced, latest>>
      BY <1>f DEF RedeemFlush, histories, Merged
    <2>2. f.kind = "redeem"
      BY <2>1, SessionMerges
    <2> HIDE DEF f
    <2> QED
      BY <1>1, <1>2, <2>1, <2>2
  <1>6. ASSUME NEW s \in Sessions, IssueCommit(s)
        PROVE  IssueInv'
    <2> DEFINE u == session[s].user
    <2>1. /\ code' = [c \in Codes |-> IF c = s THEN "live"
                                      ELSE IF c \in session[s].rows THEN "absent"
                                      ELSE code[c]]
          /\ owner' = [owner EXCEPT ![s] = u]
          /\ latest' = [latest EXCEPT ![u] = s]
          /\ raced' = raced \cup {q \in Sessions \ {s} :
                          Committing(q, "issue") /\ session[q].user = u}
          /\ End(s, "done")
      BY <1>6 DEF IssueCommit
    <2>2. /\ session'[s].pc = "done"
          /\ \A q \in Sessions \ {s} : session'[q] = session[q]
      BY <1>0, <2>1, SessionTyped DEF End
    <2>3. IssuersSee'
      <3> SUFFICES ASSUME NEW q \in Sessions, Committing(q, "issue")', q \notin raced'
                   PROVE  SeesAll(q)'
        BY DEF IssuersSee
      <3>1. q # s /\ session'[q] = session[q] /\ Committing(q, "issue")
        BY <2>2 DEF Committing
      <3>2. session[q].user # u /\ q \notin raced
        BY <2>1, <3>1
      <3>3. SeesAll(q)
        BY <3>1, <3>2 DEF IssueInv, IssuersSee
      <3> QED
        BY <1>0, <2>1, <3>1, <3>2, <3>3 DEF SeesAll, LiveCodes
    <2>4. OnlyLatestWorks'
      <3> SUFFICES ASSUME NEW v \in Users, latest'[v] \notin raced',
                          NEW c \in LiveCodes(v)'
                   PROVE  c = latest'[v]
        BY DEF OnlyLatestWorks
      <3>1. \/ c \in LiveCodes(v) /\ c \notin session[s].rows /\ c # s
            \/ c = s /\ v = u
        BY <1>0, <2>1 DEF LiveCodes
      <3>2. latest \in [Users -> Sessions \cup {NoUser}]
        BY DEF LinkInv, LinkingTypeOK
      <3>3. CASE v = u
        <4>1. latest'[v] = s
          BY <2>1, <3>2, <3>3
        <4>2. LiveCodes(u) \subseteq session[s].rows
          BY <1>6, <2>1, <4>1 DEF IssueCommit, IssueInv, IssuersSee, SeesAll
        <4> QED
          BY <3>1, <3>3, <4>1, <4>2
      <3>4. CASE v # u
        <4>1. latest'[v] = latest[v] /\ latest[v] \notin raced
          BY <2>1, <3>2, <3>4
        <4> QED
          BY <3>1, <3>4, <4>1 DEF IssueInv, OnlyLatestWorks
      <3> QED
        BY <3>3, <3>4
    <2> QED
      BY <2>3, <2>4 DEF IssueInv
  <1>7. ASSUME NEW s \in Sessions, UnlinkCommit(s)
        PROVE  IssueInv'
    BY <1>2, <1>7 DEF UnlinkCommit, Delete
  <1>d. ASSUME NEW s \in Sessions, ResetCommit(s)
        PROVE  IssueInv'
    BY <1>2, <1>d DEF ResetCommit, Delete
  <1>b. ASSUME NEW s \in Sessions, Rollback(s)
        PROVE  IssueInv'
    BY <1>2, <1>b DEF Rollback, histories
  <1>8. ASSUME NEW s \in Sessions, RedeemCommit(s)
        PROVE  IssueInv'
    <2>1. /\ \E how \in {"done", "failed"} : End(s, how)
          /\ raced \subseteq raced' /\ UNCHANGED <<owner, latest>>
          /\ \/ code' = code
             \/ code' = [code EXCEPT ![session[s].code] = "used"]
      BY <1>8 DEF RedeemCommit
    <2> QED
      BY <1>0, <1>2, <2>1
  <1>9. ASSUME UNCHANGED <<session, owner, raced, latest>>,
               \A c \in Codes : code'[c] \in {code[c], "absent"}
        PROVE  IssueInv'
    <2>1. \A q \in Sessions : Committing(q, "issue")' =>
             Committing(q, "issue") /\ session'[q] = session[q]
      BY <1>9 DEF Committing
    <2> QED
      BY <1>9, <2>1, IssueKept
  <1>10. ASSUME NEW c \in Codes, CodeAges(c)
         PROVE  IssueInv'
    BY <1>9, <1>10 DEF CodeAges, histories
  <1>11. CASE UNCHANGED linkVars
    BY <1>9, <1>11 DEF linkVars, histories
  <1> QED
    BY <1>3, <1>4, <1>r, <1>5, <1>f, <1>6, <1>7, <1>d, <1>b, <1>8, <1>10, <1>11
       DEF LinkingNext

\* The code an account was issued last is its only live one, also when earlier
\* sessions that overtook each other left several: a session nobody overtook
\* deletes at its commit every other live code of the account, because it read
\* them all and none was added since.
THEOREM OnlyTheLatestCodeWorks == LinkingSpec => []OnlyLatestWorks
  <1>1. IssueInv => OnlyLatestWorks
    BY DEF IssueInv
  <1> QED
    BY <1>1, LinkInitially, LinkStep, IssueStep, PTL DEF LinkingSpec
=============================================================================
