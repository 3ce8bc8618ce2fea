--------------------------- MODULE TelegramLinking ---------------------------
(***************************************************************************)
(* One-time codes that bind a Telegram id to an account.                   *)
(*                                                                         *)
(* Every operation is a database session at READ COMMITTED: it reads rows  *)
(* and later commits what it made of them, and what it read is locked only *)
(* once it has been written.  Issuing and unlinking write at their commit: *)
(* deleting a row that is gone already is no error.  Redeeming writes the  *)
(* code first, because merge flushes the session before it looks up the    *)
(* link, and so holds the code's row until it ends; updating a row that is *)
(* gone, or inserting a key that exists, raises and rolls everything back. *)
(***************************************************************************)
EXTENDS Integers, FiniteSets

CONSTANTS
    Users,      \* AgentPay accounts
    Tids,       \* Telegram ids
    Sessions,   \* calls of the linking endpoints and of dev_reset
    NoUser      \* no account

ASSUME LinkingAssumption == NoUser \notin Users

\* A code is named after the session that issues it.
Codes == Sessions

VARIABLES
    code,       \* telegram_link_codes: "absent", "live" or "used"
    owner,      \* its user_id
    stale,      \* codes older than CODE_TTL
    link,       \* telegram_links: the account of a Telegram id
    session,    \* progress of each call
    redeemed,   \* (history) committed redemptions, as <<code, session>>
    latest,     \* (history) the code an account was issued last
    standing,   \* (history) the account an id redeemed last and was not unlinked from
    raced,      \* (history) sessions overtaken between read and commit, by
                \* another issue for the account or redemption of the code
    crossed,    \* (history) <<s, t>>: t was linked after s had read the links
    mixed       \* (history) ids whose last redemption was so crossed

histories == <<redeemed, latest, standing, raced, crossed, mixed>>

linkVars == <<code, owner, stale, link, session, histories>>

NoSession == [pc |-> "idle", kind |-> "none", user |-> NoUser, tid |-> NoUser,
              code |-> NoUser, rows |-> {}, had |-> NoUser]

LinkingInit ==
    /\ code = [c \in Codes |-> "absent"]
    /\ owner = [c \in Codes |-> NoUser]
    /\ stale = {}
    /\ link = [t \in Tids |-> NoUser]
    /\ session = [s \in Sessions |-> NoSession]
    /\ redeemed = {}
    /\ latest = [u \in Users |-> NoUser]
    /\ standing = [t \in Tids |-> NoUser]
    /\ raced = {}
    /\ crossed = {}
    /\ mixed = {}

Linked(u) == {t \in Tids : link[t] = u}

LiveCodes(u) == {c \in Codes : code[c] = "live" /\ owner[c] = u}

Begin(s, fields) ==
    /\ session[s].pc = "idle"
    /\ session' = [session EXCEPT ![s] = fields]

End(s, how) == session' = [session EXCEPT ![s] = [NoSession EXCEPT !.pc = how]]

Committing(s, kind) == session[s].pc = "commit" /\ session[s].kind = kind

\* A redemption that has flushed holds the row of its code, and a reset the
\* links it has deleted, until it commits or rolls back.
CodeLocked(c) == \E q \in Sessions : Committing(q, "redeem") /\ session[q].code = c

LinkLocked(t) == \E q \in Sessions : Committing(q, "reset") /\ t \in session[q].rows

-----------------------------------------------------------------------------
\* issue_code: select the account's unused codes.
IssueRead(s, u) ==
    /\ Begin(s, [NoSession EXCEPT !.pc = "commit", !.kind = "issue", !.user = u,
                                  !.rows = LiveCodes(u)])
    /\ UNCHANGED <<code, owner, stale, link, histories>>

\* Adds the new code and leaves the earlier ones.
IssueCommit_bug(s) ==
    LET u == session[s].user
    IN  /\ Committing(s, "issue")
        /\ code' = [code EXCEPT ![s] = "live"]
        /\ owner' = [owner EXCEPT ![s] = u]
        /\ latest' = [latest EXCEPT ![u] = s]
        /\ raced' = raced \cup {q \in Sessions \ {s} : Committing(q, "issue")
                                                      /\ session[q].user = u}
        /\ End(s, "done")
        /\ UNCHANGED <<stale, link, redeemed, standing, crossed, mixed>>

\* Delete them (one that was used meanwhile goes too, one that is gone stays
\* gone) and add the new one.
IssueCommit(s) ==
    LET u == session[s].user
    IN  /\ Committing(s, "issue")
        /\ \A c \in session[s].rows : ~CodeLocked(c)
        /\ code' = [c \in Codes |-> IF c = s THEN "live"
                                    ELSE IF c \in session[s].rows THEN "absent"
                                    ELSE code[c]]
        /\ owner' = [owner EXCEPT ![s] = u]
        /\ latest' = [latest EXCEPT ![u] = s]
        /\ raced' = raced \cup {q \in Sessions \ {s} : Committing(q, "issue")
                                                      /\ session[q].user = u}
        /\ End(s, "done")
        /\ UNCHANGED <<stale, link, redeemed, standing, crossed, mixed>>

-----------------------------------------------------------------------------
\* redeem_code up to its checks: unknown (404), spent (409), expired (410).
RedeemRead_bug(s, c, t) ==
    /\ IF code[c] # "absent" /\ c \notin stale
       THEN Begin(s, [NoSession EXCEPT !.pc = "flush", !.kind = "redeem",
                                       !.user = owner[c], !.tid = t, !.code = c])
       ELSE Begin(s, [NoSession EXCEPT !.pc = "failed"])
    /\ UNCHANGED <<code, owner, stale, link, histories>>

RedeemRead(s, c, t) ==
    /\ IF code[c] = "live" /\ c \notin stale
       THEN Begin(s, [NoSession EXCEPT !.pc = "flush", !.kind = "redeem",
                                       !.user = owner[c], !.tid = t, !.code = c])
       ELSE Begin(s, [NoSession EXCEPT !.pc = "failed"])
    /\ UNCHANGED <<code, owner, stale, link, histories>>

\* Sessions that have checked the code c and not ended.
Redeeming(c) ==
    {s \in Sessions : /\ session[s].kind = "redeem" /\ session[s].code = c
                      /\ session[s].pc \in {"flush", "commit"}}

\* merge: flush used_at (it waits for whoever holds the code, and raises if the
\* code is gone), then look up the link.
RedeemFlush(s) ==
    LET me == session[s]
    IN  /\ me.pc = "flush"
        /\ ~CodeLocked(me.code)
        /\ IF code[me.code] = "absent" THEN End(s, "failed")
           ELSE session' = [session EXCEPT ![s] =
                               [@ EXCEPT !.pc = "commit", !.had = link[me.tid]]]
        /\ UNCHANGED <<code, owner, stale, link, histories>>

\* Sessions that have read the links and not ended.
ReadLinks(s) ==
    session[s].pc = "commit" /\ session[s].kind \in {"redeem", "unlink", "reset"}

\* The commit: the link is inserted if none was found, else its columns that
\* differ from what was found are written, so that another session's account
\* may stay.
RedeemCommit(s) ==
    LET me == session[s]
        t == me.tid
        lost == (me.had = NoUser) # (link[t] = NoUser)
    IN  /\ Committing(s, "redeem")
        /\ ~LinkLocked(t)
        /\ \/ /\ ~lost
              /\ code' = [code EXCEPT ![me.code] = "used"]
              /\ link' = IF me.had = me.user THEN link
                                             ELSE [link EXCEPT ![t] = me.user]
              /\ redeemed' = redeemed \cup {<<me.code, s>>}
              /\ standing' = [standing EXCEPT ![t] = me.user]
              /\ raced' = raced \cup (Redeeming(me.code) \ {s})
              /\ crossed' = crossed \cup {<<q, t>> : q \in {r \in Sessions : ReadLinks(r)}}
              /\ mixed' = IF <<s, t>> \in crossed THEN mixed \cup {t} ELSE mixed \ {t}
              /\ End(s, "done")
           \/ /\ lost
              /\ End(s, "failed")
              /\ UNCHANGED <<code, link, redeemed, standing, raced, crossed, mixed>>
        /\ UNCHANGED <<owner, stale, latest>>

-----------------------------------------------------------------------------
\* Reads one link of the account, as status_for_user does.
UnlinkRead_bug(s, u) ==
    /\ Begin(s, [NoSession EXCEPT !.pc = "commit", !.kind = "unlink", !.user = u,
                    !.rows = IF Linked(u) = {} THEN {}
                             ELSE {CHOOSE t \in Linked(u) : TRUE}])
    /\ UNCHANGED <<code, owner, stale, link, histories>>

\* unlink_user: read the account's links, then delete those rows by their id,
\* whatever account they have by now.
UnlinkRead(s, u) ==
    /\ Begin(s, [NoSession EXCEPT !.pc = "commit", !.kind = "unlink", !.user = u,
                                  !.rows = Linked(u)])
    /\ UNCHANGED <<code, owner, stale, link, histories>>

\* The ids in ids are without a link, and were unlinked unless linked meanwhile.
Delete(s, ids, unlinked) ==
    /\ link' = [t \in Tids |-> IF t \in ids THEN NoUser ELSE link[t]]
    /\ standing' = [t \in Tids |-> IF t \in unlinked /\ <<s, t>> \notin crossed
                                   THEN NoUser ELSE standing[t]]
    /\ End(s, "done")

UnlinkCommit(s) ==
    LET me == session[s]
    IN  /\ Committing(s, "unlink")
        /\ \A t \in me.rows : ~LinkLocked(t)
        /\ Delete(s, me.rows, {t \in Tids : standing[t] = me.user})
        /\ UNCHANGED <<code, owner, stale, redeemed, latest, raced, crossed, mixed>>

\* dev_reset deletes the links, then the codes, and commits.
ResetRead(s) ==
    /\ Begin(s, [NoSession EXCEPT !.pc = "commit", !.kind = "reset",
                                  !.rows = {t \in Tids : link[t] # NoUser}])
    /\ \A t \in Tids : ~LinkLocked(t)
    /\ UNCHANGED <<code, owner, stale, link, histories>>

ResetCommit(s) ==
    /\ Committing(s, "reset")
    /\ \A c \in Codes : ~CodeLocked(c)
    /\ Delete(s, session[s].rows, Tids)
    /\ code' = [c \in Codes |-> "absent"]
    /\ UNCHANGED <<owner, stale, redeemed, latest, raced, crossed, mixed>>

-----------------------------------------------------------------------------
\* The session raises or its connection breaks before the commit.
Rollback(s) ==
    /\ session[s].pc \in {"flush", "commit"}
    /\ End(s, "failed")
    /\ UNCHANGED <<code, owner, stale, link, histories>>

CodeAges(c) ==
    /\ code[c] = "live" /\ c \notin stale
    /\ stale' = stale \cup {c}
    /\ UNCHANGED <<code, owner, link, session, histories>>

LinkingNext ==
    \/ \E s \in Sessions :
          \/ \E u \in Users : IssueRead(s, u) \/ UnlinkRead(s, u)
          \/ \E c \in Codes, t \in Tids : RedeemRead(s, c, t)
          \/ IssueCommit(s) \/ RedeemFlush(s) \/ RedeemCommit(s) \/ UnlinkCommit(s)
          \/ ResetRead(s) \/ ResetCommit(s) \/ Rollback(s)
    \/ \E c \in Codes : CodeAges(c)

LinkingSpec == LinkingInit /\ [][LinkingNext]_linkVars

LinkingTypeOK ==
    /\ code \in [Codes -> {"absent", "live", "used"}]
    /\ owner \in [Codes -> Users \cup {NoUser}]
    /\ stale \subseteq Codes
    /\ link \in [Tids -> Users \cup {NoUser}]
    /\ standing \in [Tids -> Users \cup {NoUser}]
    /\ latest \in [Users -> Sessions \cup {NoUser}]
    /\ \A s \in Sessions :
          session[s].pc \in {"idle", "flush", "commit", "done", "failed"}
    /\ raced \subseteq Sessions

\* A Telegram id acts for the account whose code it redeemed last, and for no
\* account it was unlinked from since, although a session may merge or delete
\* links it read before others changed them.  An unlink answers for the links
\* that were there when it read; an id whose last redemption read the link
\* before another one wrote it is left out until its next redemption.
LinkIsCurrent == \A t \in Tids \ mixed : link[t] \in {NoUser, standing[t]}

\* "Codes are single-use": of the redemptions of one code all but one had read
\* it before another committed.
SingleUse ==
    \A c \in Codes :
        Cardinality({s \in Sessions \ raced : <<c, s>> \in redeemed}) <= 1

\* "only the latest one works": when an account has been issued a code, that is
\* its only live one, whatever sessions left behind earlier, unless another
\* issue committed between that session's read and its commit.
OnlyLatestWorks ==
    \A u \in Users : latest[u] \notin raced => LiveCodes(u) \subseteq {latest[u]}
=============================================================================
