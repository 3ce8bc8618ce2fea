------------------------------ MODULE AuditChain ------------------------------
(***************************************************************************)
(* The hash-chained audit log and its independent anchor: record_event,    *)
(* verify_chain and chain_head of gateway/audit.py, anchor_checkpoint and  *)
(* verify_against_checkpoints of gateway/checkpoint.py, and the two routes *)
(* that call them.                                                         *)
(*                                                                         *)
(* A writer is one call of record_event and names the event it appends.    *)
(* SHA-256 is taken to be free of collisions, so a hash is the sequence of *)
(* the events it commits to: H_n determines event_n and H_(n-1), and so on *)
(* down to the genesis hash, the empty sequence.                           *)
(***************************************************************************)
EXTENDS Naturals, Sequences

CONSTANTS
    Writers,      \* calls of record_event
    Verifiers,    \* callers of GET /v1/audit/verify
    Anchorers,    \* callers of POST /v1/audit/checkpoint
    MaxAnchors,   \* bound on the checkpoints laid down
    Faults,       \* what the environment may do wrong
    None          \* the absent value

FaultKinds == { "lock_expiry",      \* a writer outlives the TTL of its lock
                "outage",           \* a database await of a writer raises
                "crash",            \* a writer's process dies
                "anchor_outage" }   \* the checkpoint store is unreachable

ASSUME ChainAssumption ==
    /\ None \notin Writers
    /\ Verifiers \cap Anchorers = {}
    /\ MaxAnchors \in Nat
    /\ Faults \subseteq FaultKinds

VARIABLES
    events,     \* the audit_events table, by seq
    lock,       \* agentpay:lock:audit_chain
    pc,         \* where each writer is in record_event
    seen,       \* prev_hash as a writer read it
    receipt,    \* the event_hash a writer returned
    anchors,    \* the audit_checkpoints table, by seq
    apc,        \* where each auditor is in its route
    count,      \* chain_head: events
    head,       \* chain_head: head_hash
    latest,     \* the checkpoint the log is compared to
    valid,      \* verify_chain's answer
    report      \* verify_against_checkpoints' answer

Auditors == Verifiers \cup Anchorers

writerVars == <<lock, pc, seen, receipt>>
auditorVars == <<apc, count, head, latest, valid, report>>
vars == <<events, writerVars, anchors, auditorVars>>

GENESIS_HASH == <<>>

\* Mutant: the hash leaves out its predecessor.
compute_hash_bug(body, prev) == Append(GENESIS_HASH, body)

compute_hash(body, prev) == Append(prev, body)

\* Mutant: an empty log has no head to chain to.
HeadHash_bug(log) == IF log = <<>> THEN None ELSE log[Len(log)].hash

HeadHash(log) == IF log = <<>> THEN GENESIS_HASH ELSE log[Len(log)].hash

\* verify_chain walks the log and fails at the first link that does not hold.
Valid(log) ==
    \A i \in 1..Len(log) :
        /\ log[i].prev = IF i = 1 THEN GENESIS_HASH ELSE log[i - 1].hash
        /\ log[i].hash = compute_hash(log[i].id, log[i].prev)

\* Mutant: the last row of the prefix is left out.
Prefix_bug(log, limit) ==
    IF limit = 0 \/ limit > Len(log) THEN log ELSE SubSeq(log, 1, limit - 1)

\* The rows verify_chain(limit) reads: a limit of 0 is no limit.
Prefix(log, limit) ==
    IF limit = 0 \/ limit > Len(log) THEN log ELSE SubSeq(log, 1, limit)

\* The prefix the checkpoint counted verifies, and its head is the anchored one.
Matches(log, c) ==
    LET prefix == Prefix(log, c.count) IN
    Valid(prefix) /\ HeadHash(prefix) = c.head

Init ==
    /\ events = <<>>
    /\ lock = None
    /\ pc = [w \in Writers |-> "new"]
    /\ seen = [w \in Writers |-> GENESIS_HASH]
    /\ receipt = [w \in Writers |-> GENESIS_HASH]
    /\ anchors = <<>>
    /\ apc = [a \in Auditors |-> "idle"]
    /\ count = [a \in Auditors |-> 0]
    /\ head = [a \in Auditors |-> GENESIS_HASH]
    /\ latest = [a \in Auditors |-> None]
    /\ valid = [a \in Auditors |-> TRUE]
    /\ report = [a \in Auditors |-> "none"]

-----------------------------------------------------------------------------
(***************************************************************************)
(* record_event.                                                           *)
(***************************************************************************)
Goto(w, label) == pc' = [pc EXCEPT ![w] = label]

\* Mutant: the lock is not waited for.
Acquire_bug(w) ==
    /\ pc[w] = "new"
    /\ lock' = w
    /\ Goto(w, "read")
    /\ UNCHANGED <<events, seen, receipt, anchors, auditorVars>>

Acquire(w) ==
    /\ pc[w] = "new"
    /\ lock = None
    /\ lock' = w
    /\ Goto(w, "read")
    /\ UNCHANGED <<events, seen, receipt, anchors, auditorVars>>

\* Fifty polls found the lock taken: TimeoutError, nothing is written.
AcquireTimeout(w) ==
    /\ pc[w] = "new"
    /\ lock # None
    /\ Goto(w, "failed")
    /\ UNCHANGED <<events, lock, seen, receipt, anchors, auditorVars>>

ReadHead(w) ==
    /\ pc[w] = "read"
    /\ seen' = [seen EXCEPT ![w] = HeadHash(events)]
    /\ Goto(w, "commit")
    /\ UNCHANGED <<events, lock, receipt, anchors, auditorVars>>

Appended(w) ==
    Append(events, [id |-> w, prev |-> seen[w],
                    hash |-> compute_hash(w, seen[w])])

\* Mutant: the hash is returned from outside the transaction, committed or not.
Commit_bug(w) ==
    /\ pc[w] = "commit"
    /\ \/ events' = Appended(w)
       \/ "outage" \in Faults /\ UNCHANGED events
    /\ receipt' = [receipt EXCEPT ![w] = compute_hash(w, seen[w])]
    /\ Goto(w, "release")
    /\ UNCHANGED <<lock, seen, anchors, auditorVars>>

Commit(w) ==
    /\ pc[w] = "commit"
    /\ events' = Appended(w)
    /\ receipt' = [receipt EXCEPT ![w] = compute_hash(w, seen[w])]
    /\ Goto(w, "release")
    /\ UNCHANGED <<lock, seen, anchors, auditorVars>>

\* An await raised: session_scope rolls back and the exception goes up.
Rollback(w) ==
    /\ "outage" \in Faults
    /\ pc[w] \in {"read", "commit"}
    /\ Goto(w, "abort")
    /\ UNCHANGED <<events, lock, seen, receipt, anchors, auditorVars>>

\* The database committed but its answer was lost: recorded, reported failed.
CommitUnacknowledged(w) ==
    /\ "outage" \in Faults
    /\ pc[w] = "commit"
    /\ events' = Appended(w)
    /\ Goto(w, "abort")
    /\ UNCHANGED <<lock, seen, receipt, anchors, auditorVars>>

\* Leaving the lock: it is deleted if it still holds our token.
Release(w) ==
    /\ pc[w] \in {"release", "abort"}
    /\ lock' = IF lock = w THEN None ELSE lock
    /\ Goto(w, IF pc[w] = "release" THEN "done" ELSE "failed")
    /\ UNCHANGED <<events, seen, receipt, anchors, auditorVars>>

Crash(w) ==
    /\ "crash" \in Faults
    /\ pc[w] \in {"read", "commit", "release", "abort"}
    /\ Goto(w, "crashed")
    /\ UNCHANGED <<events, lock, seen, receipt, anchors, auditorVars>>

\* The TTL of a lock whose holder died, or is slower than the TTL.
LockLapses ==
    /\ lock # None
    /\ pc[lock] = "crashed" \/ "lock_expiry" \in Faults
    /\ lock' = None
    /\ UNCHANGED <<events, pc, seen, receipt, anchors, auditorVars>>

-----------------------------------------------------------------------------
(***************************************************************************)
(* GET /v1/audit/verify runs verify_chain, chain_head, the comparison with *)
(* the latest checkpoint and the laying of a new one; POST                 *)
(* /v1/audit/checkpoint runs chain_head and lays a new one.                *)
(***************************************************************************)
AGoto(a, label) == apc' = [apc EXCEPT ![a] = label]

AuditStarts(a) ==
    /\ apc[a] = "idle"
    /\ Len(anchors) < MaxAnchors

VerifyChain(a) ==
    /\ a \in Verifiers
    /\ AuditStarts(a)
    /\ valid' = [valid EXCEPT ![a] = Valid(events)]
    /\ latest' = [latest EXCEPT ![a] = None]
    /\ report' = [report EXCEPT ![a] = "none"]
    /\ AGoto(a, "count")
    /\ UNCHANGED <<events, writerVars, anchors, count, head>>

ForceCheckpoint(a) ==
    /\ a \in Anchorers
    /\ AuditStarts(a)
    /\ AGoto(a, "count")
    /\ UNCHANGED <<events, writerVars, anchors, count, head, latest, valid,
                   report>>

CountEvents(a) ==
    /\ apc[a] = "count"
    /\ count' = [count EXCEPT ![a] = Len(events)]
    /\ AGoto(a, "head")
    /\ UNCHANGED <<events, writerVars, anchors, head, latest, valid, report>>

\* Mutant: the head is computed from the events of writers still at work.
ReadChainHead_bug(a) ==
    /\ apc[a] = "head"
    /\ \E w \in Writers :
          /\ pc[w] = "commit"
          /\ head' = [head EXCEPT ![a] = compute_hash(w, seen[w])]
    /\ AGoto(a, IF a \in Verifiers THEN "latest" ELSE "anchor")
    /\ UNCHANGED <<events, writerVars, anchors, count, latest, valid, report>>

\* The second SELECT of chain_head: under READ COMMITTED it also sees what was
\* committed since the first.
ReadChainHead(a) ==
    /\ apc[a] = "head"
    /\ head' = [head EXCEPT ![a] = HeadHash(events)]
    /\ AGoto(a, IF a \in Verifiers THEN "latest" ELSE "anchor")
    /\ UNCHANGED <<events, writerVars, anchors, count, latest, valid, report>>

LatestCheckpoint(a) ==
    /\ apc[a] = "latest"
    /\ IF anchors = <<>>
       THEN AGoto(a, "anchor") /\ UNCHANGED latest
       ELSE /\ latest' = [latest EXCEPT ![a] = anchors[Len(anchors)]]
            /\ AGoto(a, "prefix")
    /\ UNCHANGED <<events, writerVars, anchors, count, head, valid, report>>

\* Reading the checkpoint is not guarded: the exception fails the request.
LatestUnreachable(a) ==
    /\ "anchor_outage" \in Faults
    /\ apc[a] = "latest"
    /\ count' = [count EXCEPT ![a] = 0]
    /\ head' = [head EXCEPT ![a] = GENESIS_HASH]
    /\ AGoto(a, "idle")
    /\ UNCHANGED <<events, writerVars, anchors, latest, valid, report>>

VerifyAgainst(a) ==
    /\ apc[a] = "prefix"
    /\ report' = [report EXCEPT ![a] =
          IF Matches(events, latest[a]) THEN "match" ELSE "mismatch"]
    /\ AGoto(a, "anchor")
    /\ UNCHANGED <<events, writerVars, anchors, count, head, latest, valid>>

AnchorCheckpoint(a) ==
    /\ apc[a] = "anchor"
    /\ \/ anchors' = Append(anchors, [count |-> count[a], head |-> head[a]])
       \/ "anchor_outage" \in Faults /\ UNCHANGED anchors
    /\ count' = [count EXCEPT ![a] = 0]
    /\ head' = [head EXCEPT ![a] = GENESIS_HASH]
    /\ AGoto(a, "idle")
    /\ UNCHANGED <<events, writerVars, latest, valid, report>>

-----------------------------------------------------------------------------
WriterStep(w) ==
    \/ Acquire(w) \/ AcquireTimeout(w) \/ ReadHead(w) \/ Commit(w)
    \/ Release(w)

AuditorStep(a) ==
    \/ VerifyChain(a) \/ ForceCheckpoint(a) \/ CountEvents(a)
    \/ ReadChainHead(a) \/ LatestCheckpoint(a) \/ LatestUnreachable(a)
    \/ VerifyAgainst(a) \/ AnchorCheckpoint(a)

Next ==
    \/ \E w \in Writers : \/ WriterStep(w) \/ Rollback(w)
                          \/ CommitUnacknowledged(w) \/ Crash(w)
    \/ \E a \in Auditors : AuditorStep(a)
    \/ LockLapses

Spec == Init /\ [][Next]_vars

-----------------------------------------------------------------------------
Labels == {"new", "read", "commit", "release", "abort", "done", "failed",
           "crashed"}

Hashes == Seq(Writers)

EventType == [id: Writers, prev: Hashes, hash: Hashes]

CheckpointType == [count: Nat, head: Hashes]

\* Every variable has the shape the code gives it.
TypeOK ==
    /\ events \in Seq(EventType)
    /\ lock \in Writers \cup {None}
    /\ pc \in [Writers -> Labels]
    /\ seen \in [Writers -> Hashes]
    /\ receipt \in [Writers -> Hashes]
    /\ anchors \in Seq(CheckpointType)
    /\ apc \in [Auditors -> {"idle", "count", "head", "latest", "prefix",
                              "anchor"}]
    /\ count \in [Auditors -> Nat]
    /\ head \in [Auditors -> Hashes]
    /\ latest \in [Auditors -> CheckpointType \cup {None}]
    /\ valid \in [Auditors -> BOOLEAN]
    /\ report \in [Auditors -> {"none", "match", "mismatch"}]

\* No two calls of record_event build on one predecessor: whatever interleaving,
\* rollback, crash or lost acknowledgement wrote it, the table passes
\* verify_chain.
ChainIntact == Valid(events)

\* The hash record_event returned stands for the whole log up to its event: the
\* event is recorded, once, behind exactly the events the hash commits to.
ReceiptStands ==
    \A w \in Writers : pc[w] = "done" =>
        /\ Len(receipt[w]) \in 1..Len(events)
        /\ \A i \in 1..Len(receipt[w]) : events[i].id = receipt[w][i]
        /\ \A i \in 1..Len(events) :
              events[i].id = w <=> i = Len(receipt[w])

\* A checkpoint anchors a head the log really had, no older than its count.
AnchorsAreHistory ==
    \A i \in 1..Len(anchors) :
        \E n \in anchors[i].count..Len(events) :
            anchors[i].head = HeadHash(SubSeq(events, 1, n))

\* A checkpoint whose count and head belong together.
Whole(c) == c.count > 0 /\ Len(c.head) = c.count

\* Events appended while an audit runs, or since the checkpoint it compares
\* with, never look like tampering: verify_chain succeeds on every snapshot and
\* a checkpoint of a non-empty log whose count and head belong together is
\* always matched.
GrowthIsNotTampering ==
    \A a \in Auditors :
        /\ valid[a]
        /\ report[a] = "mismatch" => ~Whole(latest[a])

\* What the callers that were answered know.
Told == [w \in Writers |-> IF pc[w] = "done" THEN receipt[w] ELSE GENESIS_HASH]

History == INSTANCE AuditHistory WITH
    Callers <- Writers, history <- HeadHash(events), told <- Told,
    anchored <- anchors

\* The log implements an append-only history: its head hash is that history, a
\* step adds at most one event nobody recorded before, a returned hash is the
\* history up to the caller's event, and a checkpoint anchors a moment of it.
ImplementsHistory == History!HistorySpec

\* Nobody alters the log here, so no audit may say that somebody did.
NoFalseAlarm == \A a \in Auditors : report[a] # "mismatch"
=============================================================================
