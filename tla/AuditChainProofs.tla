--------------------------- MODULE AuditChainProofs ---------------------------
(***************************************************************************)
(* Theorems about AuditChain, for any writers, auditors and bounds, as     *)
(* long as no writer outlives the TTL of its lock.                         *)
(***************************************************************************)
EXTENDS AuditChain, SequenceTheorems, WellFoundedInduction, NaturalsInduction,
        TLAPS

\* The head of the log is a hash, and the newest checkpoint a checkpoint.
LEMMA HeadTyped ==
    ASSUME TypeOK
    PROVE  /\ HeadHash(events) \in Hashes
           /\ anchors # <<>> => anchors[Len(anchors)] \in CheckpointType
  <1>1. ASSUME events # <<>> PROVE events[Len(events)].hash \in Hashes
    <2>1. Len(events) \in 1..Len(events)
      BY <1>1, EmptySeq DEF TypeOK
    <2>2. events[Len(events)] \in EventType
      BY <2>1 DEF TypeOK
    <2> QED
      BY <2>2 DEF EventType
  <1>2. GENESIS_HASH \in Hashes
    BY DEF GENESIS_HASH, Hashes
  <1>3. ASSUME anchors # <<>> PROVE anchors[Len(anchors)] \in CheckpointType
    BY <1>3, EmptySeq DEF TypeOK
  <1> QED
    BY <1>1, <1>2, <1>3 DEF HeadHash

\* The tables and the locals an action writes keep their types.
LEMMA ChainTyped ==
    ASSUME TypeOK, NEW w \in Writers
    PROVE  /\ HeadHash(events) \in Hashes
           /\ compute_hash(w, seen[w]) \in Hashes
           /\ Appended(w) \in Seq(EventType)
  <1>1. HeadHash(events) \in Hashes
    BY HeadTyped
  <1>2. compute_hash(w, seen[w]) \in Hashes
    BY DEF TypeOK, compute_hash, Hashes
  <1>3. [id |-> w, prev |-> seen[w], hash |-> compute_hash(w, seen[w])]
            \in EventType
    BY <1>2 DEF TypeOK, EventType
  <1>4. Appended(w) \in Seq(EventType)
    BY <1>3 DEF TypeOK, Appended
  <1> QED
    BY <1>1, <1>2, <1>4

LEMMA TypeInit == Init => TypeOK
  BY DEF Init, TypeOK, Labels, Hashes, GENESIS_HASH

\* No step of a writer, an auditor or a failure breaks the types.
LEMMA TypeStep == TypeOK /\ [Next]_vars => TypeOK'
  <1> SUFFICES ASSUME TypeOK, [Next]_vars PROVE TypeOK'
    OBVIOUS
  <1> USE DEF writerVars, auditorVars
  <1>1. CASE UNCHANGED vars
    BY <1>1 DEF vars, TypeOK
  <1>2. ASSUME NEW w \in Writers,
               WriterStep(w) \/ Rollback(w) \/ CommitUnacknowledged(w) \/ Crash(w)
        PROVE  TypeOK'
    <2>1. CASE Acquire(w)
      BY <2>1 DEF Acquire, Goto, TypeOK, Labels
    <2>2. CASE AcquireTimeout(w)
      BY <2>2 DEF AcquireTimeout, Goto, TypeOK, Labels
    <2>3. CASE ReadHead(w)
      BY <2>3, ChainTyped DEF ReadHead, Goto, TypeOK, Labels
    <2>4. CASE Commit(w)
      <3>1. events' \in Seq(EventType)
        BY <2>4, ChainTyped DEF Commit
      <3>2. receipt' \in [Writers -> Hashes]
        BY <2>4, ChainTyped DEF Commit, TypeOK
      <3> QED
        BY <2>4, <3>1, <3>2 DEF Commit, Goto, TypeOK, Labels
    <2>5. CASE Release(w)
      BY <2>5 DEF Release, Goto, TypeOK, Labels
    <2>6. CASE Rollback(w)
      BY <2>6 DEF Rollback, Goto, TypeOK, Labels
    <2>7. CASE CommitUnacknowledged(w)
      <3>1. events' \in Seq(EventType)
        BY <2>7, ChainTyped DEF CommitUnacknowledged
      <3> QED
        BY <2>7, <3>1 DEF CommitUnacknowledged, Goto, TypeOK, Labels
    <2>8. CASE Crash(w)
      BY <2>8 DEF Crash, Goto, TypeOK, Labels
    <2> QED
      BY <1>2, <2>1, <2>2, <2>3, <2>4, <2>5, <2>6, <2>7, <2>8 DEF WriterStep
  <1>3. ASSUME NEW a \in Auditors, AuditorStep(a)
        PROVE  TypeOK'
    <2>1. CASE VerifyChain(a)
      <3>1. Valid(events) \in BOOLEAN
        BY DEF Valid
      <3> QED
        BY <2>1, <3>1 DEF VerifyChain, AGoto, TypeOK
    <2>2. CASE ForceCheckpoint(a)
      BY <2>2 DEF ForceCheckpoint, AGoto, TypeOK
    <2>3. CASE CountEvents(a)
      BY <2>3 DEF CountEvents, AGoto, TypeOK
    <2>4. CASE ReadChainHead(a)
      BY <2>4, HeadTyped DEF ReadChainHead, AGoto, TypeOK
    <2>5. CASE LatestCheckpoint(a)
      BY <2>5, HeadTyped DEF LatestCheckpoint, AGoto, TypeOK
    <2>6. CASE LatestUnreachable(a)
      <3>1. count' \in [Auditors -> Nat] /\ head' \in [Auditors -> Hashes]
        BY <2>6 DEF LatestUnreachable, TypeOK, Hashes, GENESIS_HASH
      <3> QED
        BY <2>6, <3>1 DEF LatestUnreachable, AGoto, TypeOK
    <2>7. CASE VerifyAgainst(a)
      BY <2>7 DEF VerifyAgainst, AGoto, TypeOK
    <2>8. CASE AnchorCheckpoint(a)
      <3>1. [count |-> count[a], head |-> head[a]] \in CheckpointType
        BY DEF TypeOK, CheckpointType
      <3>2. anchors' \in Seq(CheckpointType)
        <4>1. anchors \in Seq(CheckpointType)
          BY DEF TypeOK
        <4>2. Append(anchors, [count |-> count[a], head |-> head[a]])
                  \in Seq(CheckpointType)
          BY <3>1, <4>1, AppendProperties
        <4> QED
          BY <2>8, <4>1, <4>2 DEF AnchorCheckpoint
      <3>3. count' \in [Auditors -> Nat] /\ head' \in [Auditors -> Hashes]
        BY <2>8 DEF AnchorCheckpoint, TypeOK, Hashes, GENESIS_HASH
      <3> QED
        BY <2>8, <3>2, <3>3 DEF AnchorCheckpoint, AGoto, TypeOK
    <2> QED
      BY <1>3, <2>1, <2>2, <2>3, <2>4, <2>5, <2>6, <2>7, <2>8 DEF AuditorStep
  <1>4. CASE LockLapses
    BY <1>4 DEF LockLapses, TypeOK
  <1> QED
    BY <1>1, <1>2, <1>3, <1>4 DEF Next

-----------------------------------------------------------------------------
(***************************************************************************)
(* The chain.  A writer inside the section holds the lock, so the head it  *)
(* read is still the head when it commits; the hashes then list the events *)
(* before them, and an event is written by its own writer, once.           *)
(***************************************************************************)
Inside == {"read", "commit", "release", "abort"}

Exclusive == \A w \in Writers : pc[w] \in Inside => lock = w

Fresh ==
    \A w \in Writers : pc[w] = "commit" => seen[w] = HeadHash(events)

\* The hash of the i-th event lists the first i events.
HashIsHistory ==
    \A i \in 1..Len(events) :
        /\ Len(events[i].hash) = i
        /\ \A j \in 1..i : events[i].hash[j] = events[j].id

\* An event is there only if its writer got past the commit, and only once.
WrittenOnce ==
    /\ \A i \in 1..Len(events) :
          pc[events[i].id] \notin {"new", "read", "commit"}
    /\ \A i, j \in 1..Len(events) : events[i].id = events[j].id => i = j

Receipts ==
    \A w \in Writers : pc[w] \in {"release", "done"} =>
        \E i \in 1..Len(events) :
            events[i].id = w /\ receipt[w] = events[i].hash

ChainInv ==
    /\ TypeOK /\ ChainIntact /\ Exclusive /\ Fresh /\ HashIsHistory
    /\ WrittenOnce /\ Receipts

LEMMA ChainInit == Init => ChainInv
  <1> SUFFICES ASSUME Init PROVE ChainInv
    OBVIOUS
  <1>1. TypeOK
    BY TypeInit
  <1>2. Len(events) = 0
    BY DEF Init
  <1> QED
    BY <1>1, <1>2 DEF Init, ChainInv, ChainIntact, Valid, Exclusive, Inside,
                      Fresh, HashIsHistory, WrittenOnce, Receipts

\* Appending to an intact chain behind the head that was read keeps it intact.
LEMMA AppendKeepsChain ==
    ASSUME ChainInv, NEW w \in Writers, pc[w] = "commit",
           events' = Appended(w)
    PROVE  /\ ChainIntact' /\ HashIsHistory'
           /\ Len(events') = Len(events) + 1
           /\ \A i \in 1..Len(events) : events'[i] = events[i]
           /\ events'[Len(events')].id = w
           /\ events'[Len(events')].hash = compute_hash(w, seen[w])
  <1> DEFINE n == Len(events)
             e == [id |-> w, prev |-> seen[w], hash |-> compute_hash(w, seen[w])]
  <1>1. n \in Nat /\ events \in Seq(EventType) /\ seen[w] \in Seq(Writers)
    BY DEF ChainInv, TypeOK, Hashes
  <1>2. e \in EventType
    BY <1>1, ChainTyped DEF ChainInv, EventType, Hashes
  <1>3. /\ Len(events') = n + 1 /\ events'[n + 1] = e
        /\ \A i \in 1..n : events'[i] = events[i]
    BY <1>1, <1>2 DEF Appended
  <1>4. seen[w] = IF n = 0 THEN GENESIS_HASH ELSE events[n].hash
    BY <1>1 DEF ChainInv, Fresh, HeadHash
  <1>5. Len(seen[w]) = n /\ \A j \in 1..n : seen[w][j] = events[j].id
    BY <1>1, <1>4 DEF ChainInv, HashIsHistory, GENESIS_HASH
  <1>6. /\ Len(e.hash) = n + 1 /\ e.hash[n + 1] = w
        /\ \A j \in 1..n : e.hash[j] = events[j].id
    BY <1>1, <1>5 DEF compute_hash
  <1>7. ChainIntact'
    <2> SUFFICES ASSUME NEW i \in 1..(n + 1)
                 PROVE  /\ events'[i].prev = IF i = 1 THEN GENESIS_HASH
                                                      ELSE events'[i - 1].hash
                        /\ events'[i].hash = compute_hash(events'[i].id, events'[i].prev)
      BY <1>3 DEF ChainIntact, Valid, compute_hash
    <2>1. CASE i \in 1..n
      <3>1. i # 1 => i - 1 \in 1..n
        BY <1>1, <2>1
      <3> QED
        BY <1>3, <2>1, <3>1 DEF ChainInv, ChainIntact, Valid, compute_hash
    <2>2. CASE i = n + 1
      BY <1>1, <1>3, <1>4, <2>2
    <2> QED
      BY <1>1, <2>1, <2>2
  <1>8. HashIsHistory'
    <2> SUFFICES ASSUME NEW i \in 1..(n + 1)
                 PROVE  /\ Len(events'[i].hash) = i
                        /\ \A j \in 1..i : events'[i].hash[j] = events'[j].id
      BY <1>3 DEF HashIsHistory
    <2>1. CASE i \in 1..n
      BY <1>1, <1>3, <2>1 DEF ChainInv, HashIsHistory
    <2>2. CASE i = n + 1
      BY <1>1, <1>3, <1>6, <2>2
    <2> QED
      BY <1>1, <2>1, <2>2
  <1> QED
    BY <1>3, <1>7, <1>8

\* Every step of a writer, an auditor or a failure keeps the chain.
LEMMA ChainStep ==
    ASSUME "lock_expiry" \notin Faults
    PROVE  ChainInv /\ [Next]_vars => ChainInv'
  <1> SUFFICES ASSUME ChainInv, [Next]_vars PROVE ChainInv'
    OBVIOUS
  <1>0. TypeOK /\ TypeOK'
    BY TypeStep DEF ChainInv
  <1> USE <1>0 DEF ChainInv, ChainIntact, Exclusive, Inside, Fresh,
                   HashIsHistory, WrittenOnce, Receipts, writerVars, auditorVars
  <1>1. CASE UNCHANGED <<events, writerVars>>
    BY <1>1
  <1>2. ASSUME NEW w \in Writers,
               WriterStep(w) \/ Rollback(w) \/ CommitUnacknowledged(w) \/ Crash(w)
        PROVE  ChainInv'
    <2>0. /\ pc \in [Writers -> Labels] /\ None \notin Writers
          /\ \A i \in 1..Len(events) : events[i].id \in Writers
      <3>1. ASSUME NEW i \in 1..Len(events) PROVE events[i].id \in Writers
        <4>1. events[i] \in EventType
          BY DEF TypeOK
        <4> QED
          BY <4>1 DEF EventType
      <3> QED
        BY <3>1, ChainAssumption DEF TypeOK
    <2>1. CASE Acquire(w)
      BY <2>0, <2>1 DEF Acquire, Goto
    <2>2. CASE AcquireTimeout(w)
      BY <2>0, <2>2 DEF AcquireTimeout, Goto
    <2>3. CASE ReadHead(w)
      BY <2>0, <2>3 DEF ReadHead, Goto, TypeOK
    <2>4. CASE Commit(w)
      <3>1. /\ pc[w] = "commit" /\ events' = Appended(w)
            /\ pc' = [pc EXCEPT ![w] = "release"]
            /\ UNCHANGED <<lock, seen>>
        BY <2>4 DEF Commit, Goto
      <3>2. /\ ChainIntact' /\ HashIsHistory'
            /\ Len(events') = Len(events) + 1
            /\ \A i \in 1..Len(events) : events'[i] = events[i]
            /\ events'[Len(events')].id = w
            /\ events'[Len(events')].hash = compute_hash(w, seen[w])
        BY <3>1, AppendKeepsChain
      <3>3. Len(events) \in Nat
        BY DEF TypeOK
      <3>4. Exclusive' /\ Fresh'
        BY <2>0, <3>1
      <3>5. WrittenOnce'
        <4>1. ASSUME NEW i \in 1..Len(events)
              PROVE  events[i].id \in Writers \ {w} /\ events'[i] = events[i]
          BY <2>0, <3>1, <3>2
        <4>2. \A i \in 1..Len(events') : i \in 1..Len(events) \/ i = Len(events')
          BY <3>2, <3>3
        <4>3. ASSUME NEW i \in 1..Len(events')
              PROVE  pc'[events'[i].id] \notin {"new", "read", "commit"}
          <5>1. CASE i \in 1..Len(events)
            BY <2>0, <3>1, <4>1, <5>1
          <5>2. CASE i = Len(events')
            BY <2>0, <3>1, <3>2, <5>2
          <5> QED
            BY <4>2, <5>1, <5>2
        <4>4. ASSUME NEW i \in 1..Len(events'), NEW j \in 1..Len(events'),
                     events'[i].id = events'[j].id
              PROVE  i = j
          BY <3>2, <4>1, <4>2, <4>4
        <4> QED
          BY <4>3, <4>4
      <3>6. Receipts'
        <4> SUFFICES ASSUME NEW v \in Writers, pc'[v] \in {"release", "done"}
                     PROVE  \E i \in 1..Len(events') :
                               events'[i].id = v /\ receipt'[v] = events'[i].hash
          OBVIOUS
        <4>1. CASE v = w
          <5>1. receipt'[w] = compute_hash(w, seen[w])
            BY <2>4 DEF Commit, TypeOK
          <5>2. Len(events') \in 1..Len(events')
            BY <3>2, <3>3
          <5> QED
            BY <3>2, <4>1, <5>1, <5>2
        <4>2. CASE v # w
          <5>1. receipt'[v] = receipt[v] /\ pc'[v] = pc[v]
            BY <2>0, <2>4, <3>1, <4>2 DEF Commit, TypeOK
          <5>2. PICK i \in 1..Len(events) :
                   events[i].id = v /\ receipt[v] = events[i].hash
            BY <5>1
          <5>3. i \in 1..Len(events')
            BY <3>2, <3>3
          <5> QED
            BY <3>2, <5>1, <5>2, <5>3
        <4> QED
          BY <4>1, <4>2
      <3> QED
        BY <3>2, <3>4, <3>5, <3>6
    <2>5. CASE Release(w)
      BY <2>0, <2>5 DEF Release, Goto
    <2>6. CASE Rollback(w)
      BY <2>0, <2>6 DEF Rollback, Goto
    <2>7. CASE CommitUnacknowledged(w)
      <3>1. /\ pc[w] = "commit" /\ events' = Appended(w)
            /\ pc' = [pc EXCEPT ![w] = "abort"]
            /\ UNCHANGED <<lock, seen>>
        BY <2>7 DEF CommitUnacknowledged, Goto
      <3>2. /\ ChainIntact' /\ HashIsHistory'
            /\ Len(events') = Len(events) + 1
            /\ \A i \in 1..Len(events) : events'[i] = events[i]
            /\ events'[Len(events')].id = w
            /\ events'[Len(events')].hash = compute_hash(w, seen[w])
        BY <3>1, AppendKeepsChain
      <3>3. Len(events) \in Nat
        BY DEF TypeOK
      <3>4. Exclusive' /\ Fresh'
        BY <2>0, <3>1
      <3>5. WrittenOnce'
        <4>1. ASSUME NEW i \in 1..Len(events)
              PROVE  events[i].id \in Writers \ {w} /\ events'[i] = events[i]
          BY <2>0, <3>1, <3>2
        <4>2. \A i \in 1..Len(events') : i \in 1..Len(events) \/ i = Len(events')
          BY <3>2, <3>3
        <4>3. ASSUME NEW i \in 1..Len(events')
              PROVE  pc'[events'[i].id] \notin {"new", "read", "commit"}
          <5>1. CASE i \in 1..Len(events)
            BY <2>0, <3>1, <4>1, <5>1
          <5>2. CASE i = Len(events')
            BY <2>0, <3>1, <3>2, <5>2
          <5> QED
            BY <4>2, <5>1, <5>2
        <4>4. ASSUME NEW i \in 1..Len(events'), NEW j \in 1..Len(events'),
                     events'[i].id = events'[j].id
              PROVE  i = j
          BY <3>2, <4>1, <4>2, <4>4
        <4> QED
          BY <4>3, <4>4
      <3>6. Receipts'
        <4> SUFFICES ASSUME NEW v \in Writers, pc'[v] \in {"release", "done"}
                     PROVE  \E i \in 1..Len(events') :
                               events'[i].id = v /\ receipt'[v] = events'[i].hash
          OBVIOUS
        <4>1. CASE v = w
          BY <2>0, <3>1, <4>1
        <4>2. CASE v # w
          <5>1. receipt'[v] = receipt[v] /\ pc'[v] = pc[v]
            BY <2>0, <2>7, <3>1, <4>2 DEF CommitUnacknowledged, TypeOK
          <5>2. PICK i \in 1..Len(events) :
                   events[i].id = v /\ receipt[v] = events[i].hash
            BY <5>1
          <5>3. i \in 1..Len(events')
            BY <3>2, <3>3
          <5> QED
            BY <3>2, <5>1, <5>2, <5>3
        <4> QED
          BY <4>1, <4>2
      <3> QED
        BY <3>2, <3>4, <3>5, <3>6
    <2>8. CASE Crash(w)
      BY <2>0, <2>8 DEF Crash, Goto
    <2> QED
      BY <1>2, <2>1, <2>2, <2>3, <2>4, <2>5, <2>6, <2>7, <2>8 DEF WriterStep
  <1>3. ASSUME NEW a \in Auditors, AuditorStep(a)
        PROVE  UNCHANGED <<events, writerVars>>
    BY <1>3 DEF AuditorStep, VerifyChain, ForceCheckpoint, CountEvents,
                ReadChainHead, LatestCheckpoint, LatestUnreachable,
                VerifyAgainst, AnchorCheckpoint
  <1>4. CASE LockLapses
    BY <1>4 DEF LockLapses
  <1> QED
    BY <1>1, <1>2, <1>3, <1>4 DEF Next, vars

\* The table keeps its types in every behaviour.
THEOREM ChainTypeCorrect == Spec => []TypeOK
  BY TypeInit, TypeStep, PTL DEF Spec

\* However calls of record_event interleave, fail or die, the log they write
\* passes verify_chain, provided no section outlives the lock's TTL.
THEOREM ChainStaysIntact ==
    ASSUME "lock_expiry" \notin Faults
    PROVE  Spec => []ChainIntact
  <1>1. Spec => []ChainInv
    BY ChainInit, ChainStep, PTL DEF Spec
  <1>2. ChainInv => ChainIntact
    BY DEF ChainInv
  <1> QED
    BY <1>1, <1>2, PTL

\* The hash a caller of record_event got fixes its event and everything that
\* was recorded before it.
THEOREM ReceiptsStand ==
    ASSUME "lock_expiry" \notin Faults
    PROVE  Spec => []ReceiptStands
  <1>1. Spec => []ChainInv
    BY ChainInit, ChainStep, PTL DEF Spec
  <1>2. ChainInv => ReceiptStands
    <2> SUFFICES ASSUME ChainInv, NEW w \in Writers, pc[w] = "done"
                 PROVE  /\ Len(receipt[w]) \in 1..Len(events)
                        /\ \A i \in 1..Len(receipt[w]) :
                              events[i].id = receipt[w][i]
                        /\ \A i \in 1..Len(events) :
                              events[i].id = w <=> i = Len(receipt[w])
      BY DEF ReceiptStands
    <2>1. PICK k \in 1..Len(events) :
             events[k].id = w /\ receipt[w] = events[k].hash
      BY DEF ChainInv, Receipts
    <2>2. Len(receipt[w]) = k /\ \A j \in 1..k : receipt[w][j] = events[j].id
      BY <2>1 DEF ChainInv, HashIsHistory
    <2>3. \A i \in 1..Len(events) : events[i].id = w => i = k
      BY <2>1 DEF ChainInv, WrittenOnce
    <2> QED
      BY <2>1, <2>2, <2>3
  <1> QED
    BY <1>1, <1>2, PTL

-----------------------------------------------------------------------------
(***************************************************************************)
(* Checkpoints.  chain_head counts the events and then reads the head, in  *)
(* two statements; what it got, what it anchored and what an audit later   *)
(* compares with is a head the log once had, at or after that count (Had). *)
(* The log only grows, so it stays one.                                    *)
(***************************************************************************)
HeadAt(log, n) == IF n = 0 THEN GENESIS_HASH ELSE log[n].hash

Had(log, c, h) == \E n \in Nat : c <= n /\ n <= Len(log) /\ h = HeadAt(log, n)

AuditorsRead ==
    \A a \in Auditors :
        /\ apc[a] = "head" => count[a] <= Len(events)
        /\ apc[a] \in {"latest", "prefix", "anchor"} =>
              Had(events, count[a], head[a])
        /\ apc[a] = "prefix" =>
              /\ latest[a] \in CheckpointType
              /\ Had(events, latest[a].count, latest[a].head)

AnchorsHad ==
    \A i \in 1..Len(anchors) : Had(events, anchors[i].count, anchors[i].head)

HistoryInv == AuditorsRead /\ AnchorsHad

\* The head of the first n events.
LEMMA HeadOfPrefix ==
    ASSUME NEW log \in Seq(EventType), NEW n \in Nat, n <= Len(log)
    PROVE  HeadHash(SubSeq(log, 1, n)) = HeadAt(log, n)
  <1>1. Len(SubSeq(log, 1, n)) = n
    BY SubSeqProperties
  <1>2. CASE n = 0
    BY <1>2, SubSeqEmpty DEF HeadHash, HeadAt
  <1>3. CASE n # 0
    <2>1. SubSeq(log, 1, n)[n] = log[n]
      BY <1>3, SubSeqProperties
    <2>2. SubSeq(log, 1, n) # <<>>
      BY <1>1, <1>3
    <2> QED
      BY <1>1, <1>3, <2>1, <2>2 DEF HeadHash, HeadAt
  <1> QED
    BY <1>2, <1>3

\* What a log had, a longer one with the same beginning had too.
LEMMA HadStays ==
    ASSUME NEW log \in Seq(EventType), NEW longer \in Seq(EventType),
           Len(log) <= Len(longer),
           \A i \in 1..Len(log) : longer[i] = log[i],
           NEW c \in Nat, NEW h, Had(log, c, h)
    PROVE  Had(longer, c, h)
  <1>1. PICK n \in Nat : c <= n /\ n <= Len(log) /\ h = HeadAt(log, n)
    BY DEF Had
  <1>2. n <= Len(longer) /\ HeadAt(longer, n) = HeadAt(log, n)
    BY <1>1 DEF HeadAt
  <1> QED
    BY <1>1, <1>2 DEF Had

\* The head a log has now is one it had.
LEMMA HadNow ==
    ASSUME NEW log \in Seq(EventType), NEW c \in Nat, c <= Len(log)
    PROVE  Had(log, c, HeadHash(log))
  <1>1. HeadHash(log) = HeadAt(log, Len(log))
    BY EmptySeq DEF HeadHash, HeadAt
  <1> QED
    BY <1>1 DEF Had

\* Committed events are never rewritten or removed.
LEMMA EventsAreKept ==
    ASSUME TypeOK, [Next]_vars
    PROVE  /\ Len(events) <= Len(events')
           /\ \A i \in 1..Len(events) : events'[i] = events[i]
  <1> DEFINE Kept == /\ Len(events) <= Len(events')
                     /\ \A i \in 1..Len(events) : events'[i] = events[i]
  <1>0. events \in Seq(EventType) /\ Len(events) \in Nat
    BY DEF TypeOK
  <1>1. CASE UNCHANGED events
    BY <1>0, <1>1
  <1>2. ASSUME NEW w \in Writers, events' = Appended(w)
        PROVE  Kept
    <2>1. [id |-> w, prev |-> seen[w], hash |-> compute_hash(w, seen[w])]
              \in EventType
      BY ChainTyped DEF TypeOK, EventType
    <2> QED
      BY <1>0, <1>2, <2>1 DEF Appended
  <1>3. UNCHANGED events \/ \E w \in Writers : events' = Appended(w)
    BY DEF Next, vars, WriterStep, Acquire, AcquireTimeout, ReadHead, Commit,
           Release, Rollback, CommitUnacknowledged, Crash, AuditorStep,
           VerifyChain, ForceCheckpoint, CountEvents, ReadChainHead,
           LatestCheckpoint, LatestUnreachable, VerifyAgainst,
           AnchorCheckpoint, LockLapses
  <1> QED
    BY <1>1, <1>2, <1>3

LEMMA HistoryInit == Init => HistoryInv
  BY DEF Init, HistoryInv, AuditorsRead, AnchorsHad

\* No append outdates what an auditor read, and no auditor keeps more than it
\* read.
LEMMA HistoryStep == TypeOK /\ HistoryInv /\ [Next]_vars => HistoryInv'
  <1> SUFFICES ASSUME TypeOK, HistoryInv, [Next]_vars PROVE HistoryInv'
    OBVIOUS
  <1>0. /\ TypeOK' /\ events \in Seq(EventType) /\ events' \in Seq(EventType)
        /\ Len(events) \in Nat /\ Len(events') \in Nat
        /\ Len(events) <= Len(events')
        /\ \A i \in 1..Len(events) : events'[i] = events[i]
    BY TypeStep, EventsAreKept DEF TypeOK
  <1>1. \A a \in Auditors : /\ count[a] \in Nat
                            /\ latest[a] \in CheckpointType =>
                                  latest[a].count \in Nat
    BY DEF TypeOK, CheckpointType
  <1>2. ASSUME NEW i \in 1..Len(anchors)
        PROVE  anchors[i] \in CheckpointType /\ anchors[i].count \in Nat
    <2>1. anchors[i] \in CheckpointType
      BY DEF TypeOK
    <2> QED
      BY <2>1 DEF CheckpointType
  \* What was so of the log before the step is so of the log after it.
  <1>3. \A a \in Auditors :
           /\ apc[a] = "head" => count[a] <= Len(events')
           /\ apc[a] \in {"latest", "prefix", "anchor"} =>
                 Had(events', count[a], head[a])
           /\ apc[a] = "prefix" =>
                 /\ latest[a] \in CheckpointType
                 /\ Had(events', latest[a].count, latest[a].head)
    BY <1>0, <1>1, HadStays DEF HistoryInv, AuditorsRead
  <1>4. \A i \in 1..Len(anchors) :
           Had(events', anchors[i].count, anchors[i].head)
    BY <1>0, <1>2, HadStays DEF HistoryInv, AnchorsHad
  <1>5. /\ apc \in [Auditors -> {"idle", "count", "head", "latest", "prefix",
                                  "anchor"}]
        /\ count \in [Auditors -> Nat] /\ head \in [Auditors -> Hashes]
        /\ latest \in [Auditors -> CheckpointType \cup {None}]
        /\ anchors \in Seq(CheckpointType)
    BY DEF TypeOK
  <1> USE <1>3, <1>4, <1>5
      DEF HistoryInv, AuditorsRead, AnchorsHad, writerVars, auditorVars
  <1>6. CASE UNCHANGED <<anchors, auditorVars>>
    BY <1>6
  <1>7. ASSUME NEW w \in Writers,
               WriterStep(w) \/ Rollback(w) \/ CommitUnacknowledged(w) \/ Crash(w)
        PROVE  UNCHANGED <<anchors, auditorVars>>
    BY <1>7 DEF WriterStep, Acquire, AcquireTimeout, ReadHead, Commit, Release,
                Rollback, CommitUnacknowledged, Crash
  <1>8. ASSUME NEW a \in Auditors, AuditorStep(a)
        PROVE  HistoryInv'
    <2>0. events' = events
      BY <1>8 DEF AuditorStep, VerifyChain, ForceCheckpoint, CountEvents,
                  ReadChainHead, LatestCheckpoint, LatestUnreachable,
                  VerifyAgainst, AnchorCheckpoint
    <2>1. CASE VerifyChain(a)
      BY <2>1 DEF VerifyChain, AGoto
    <2>2. CASE ForceCheckpoint(a)
      BY <2>2 DEF ForceCheckpoint, AGoto
    <2>3. CASE CountEvents(a)
      BY <1>0, <2>0, <2>3 DEF CountEvents, AGoto
    <2>4. CASE ReadChainHead(a)
      <3>1. Had(events', count[a], HeadHash(events))
        BY <1>0, <1>1, <2>0, <2>4, HadNow DEF ReadChainHead
      <3> QED
        BY <2>4, <3>1 DEF ReadChainHead, AGoto
    <2>5. CASE LatestCheckpoint(a)
      <3>1. anchors # <<>> =>
              /\ Len(anchors) \in 1..Len(anchors)
              /\ anchors[Len(anchors)] \in CheckpointType
        BY EmptySeq
      <3> QED
        BY <2>5, <3>1 DEF LatestCheckpoint, AGoto
    <2>6. CASE LatestUnreachable(a)
      BY <2>6 DEF LatestUnreachable, AGoto
    <2>7. CASE VerifyAgainst(a)
      BY <2>7 DEF VerifyAgainst, AGoto
    <2>8. CASE AnchorCheckpoint(a)
      <3> DEFINE c == [count |-> count[a], head |-> head[a]]
      <3>1. Had(events', c.count, c.head)
        BY <2>8 DEF AnchorCheckpoint
      <3>2. c \in CheckpointType
        BY DEF CheckpointType
      <3>3. AnchorsHad'
        <4>1. CASE UNCHANGED anchors
          BY <4>1
        <4>2. CASE anchors' = Append(anchors, c)
          <5>1. /\ Len(anchors') = Len(anchors) + 1
                /\ anchors'[Len(anchors) + 1] = c
                /\ \A i \in 1..Len(anchors) : anchors'[i] = anchors[i]
            BY <3>2, <4>2, AppendProperties
          <5>2. ASSUME NEW i \in 1..Len(anchors')
                PROVE  Had(events', anchors'[i].count, anchors'[i].head)
            <6>1. CASE i \in 1..Len(anchors)
              BY <5>1, <6>1
            <6>2. CASE i = Len(anchors) + 1
              BY <3>1, <5>1, <6>2
            <6> QED
              BY <5>1, <5>2, <6>1, <6>2
          <5> QED
            BY <5>2
        <4> QED
          BY <2>8, <4>1, <4>2 DEF AnchorCheckpoint
      <3>4. AuditorsRead'
        BY <2>8 DEF AnchorCheckpoint, AGoto
      <3> QED
        BY <3>3, <3>4
    <2> QED
      BY <1>8, <2>1, <2>2, <2>3, <2>4, <2>5, <2>6, <2>7, <2>8 DEF AuditorStep
  <1>9. CASE LockLapses
    BY <1>6, <1>9 DEF LockLapses
  <1> QED
    BY <1>6, <1>7, <1>8, <1>9 DEF Next, vars

\* A checkpoint anchors a head the log really had, no older than its count,
\* although chain_head reads the two in separate statements: under every fault,
\* locks that lapse under a writer included.
THEOREM AnchorsStayHistory == Spec => []AnchorsAreHistory
  <1>1. Spec => [](TypeOK /\ HistoryInv)
    BY TypeInit, TypeStep, HistoryInit, HistoryStep, PTL DEF Spec
  <1>2. TypeOK /\ HistoryInv => AnchorsAreHistory
    <2> SUFFICES ASSUME TypeOK, HistoryInv, NEW i \in 1..Len(anchors)
                 PROVE  \E n \in anchors[i].count..Len(events) :
                            anchors[i].head = HeadHash(SubSeq(events, 1, n))
      BY DEF AnchorsAreHistory
    <2>1. /\ events \in Seq(EventType) /\ Len(events) \in Nat
          /\ anchors[i] \in CheckpointType
      BY DEF TypeOK
    <2>2. PICK n \in Nat : /\ anchors[i].count <= n /\ n <= Len(events)
                           /\ anchors[i].head = HeadAt(events, n)
      BY DEF HistoryInv, AnchorsHad, Had
    <2>3. HeadHash(SubSeq(events, 1, n)) = HeadAt(events, n)
      BY <2>1, <2>2, HeadOfPrefix
    <2>4. anchors[i].count \in Nat
      BY <2>1 DEF CheckpointType
    <2> QED
      BY <2>1, <2>2, <2>3, <2>4
  <1> QED
    BY <1>1, <1>2, PTL

-----------------------------------------------------------------------------
(***************************************************************************)
(* Audits of a log nobody altered.  A report belongs to the checkpoint the *)
(* auditor holds, because a new audit clears it before it looks for one;   *)
(* and a checkpoint whose count and head belong together is the head of    *)
(* exactly its count of events, so its prefix of the log verifies.         *)
(***************************************************************************)
ReportsFit ==
    \A a \in Auditors :
        /\ valid[a]
        /\ report[a] = "mismatch" => ~Whole(latest[a])
        /\ a \in Verifiers /\ apc[a] \in {"count", "head", "latest", "prefix"} =>
              report[a] = "none"
        /\ a \notin Verifiers => apc[a] \notin {"latest", "prefix"}

LEMMA ReportsInit == Init => ReportsFit
  BY DEF Init, ReportsFit

\* Comparing an intact log with a whole checkpoint of its history matches.
LEMMA WholeMatches ==
    ASSUME ChainInv, NEW c \in CheckpointType, Whole(c),
           Had(events, c.count, c.head)
    PROVE  Matches(events, c)
  <1>1. /\ events \in Seq(EventType) /\ Len(events) \in Nat
        /\ c.count \in Nat /\ c.count > 0 /\ Len(c.head) = c.count
    BY DEF ChainInv, TypeOK, CheckpointType, Whole
  <1>2. PICK n \in Nat : /\ c.count <= n /\ n <= Len(events)
                         /\ c.head = HeadAt(events, n)
    BY DEF Had
  <1>3. Len(HeadAt(events, n)) = n
    BY <1>1, <1>2 DEF HeadAt, ChainInv, HashIsHistory
  <1>4. n = c.count /\ n > 0
    BY <1>1, <1>2, <1>3
  <1> DEFINE prefix == SubSeq(events, 1, n)
  <1>5. Prefix(events, c.count) = prefix
    BY <1>1, <1>2, <1>4 DEF Prefix
  <1>6. HeadHash(prefix) = c.head
    BY <1>1, <1>2, HeadOfPrefix
  <1>7. Len(prefix) = n /\ \A i \in 1..n : prefix[i] = events[i]
    BY <1>1, <1>2, <1>4, SubSeqProperties
  <1>8. Valid(prefix)
    <2> SUFFICES ASSUME NEW i \in 1..n
                 PROVE  /\ prefix[i].prev = IF i = 1 THEN GENESIS_HASH
                                                     ELSE prefix[i - 1].hash
                        /\ prefix[i].hash = compute_hash(prefix[i].id, prefix[i].prev)
      BY <1>7 DEF Valid
    <2>1. /\ prefix[i] = events[i] /\ i \in 1..Len(events)
          /\ i # 1 => prefix[i - 1] = events[i - 1]
      BY <1>1, <1>2, <1>7
    <2> QED
      BY <2>1 DEF ChainInv, ChainIntact, Valid
  <1> QED
    BY <1>5, <1>6, <1>8 DEF Matches

LEMMA ReportsStep ==
    ASSUME ChainInv, HistoryInv, ReportsFit, [Next]_vars
    PROVE  ReportsFit'
  <1>0. /\ apc \in [Auditors -> {"idle", "count", "head", "latest", "prefix",
                                  "anchor"}]
        /\ latest \in [Auditors -> CheckpointType \cup {None}]
        /\ valid \in [Auditors -> BOOLEAN]
        /\ report \in [Auditors -> {"none", "match", "mismatch"}]
    BY DEF ChainInv, TypeOK
  <1> USE <1>0, ChainAssumption
      DEF ReportsFit, Auditors, writerVars, auditorVars
  <1>1. CASE UNCHANGED auditorVars
    BY <1>1
  <1>2. ASSUME NEW w \in Writers,
               WriterStep(w) \/ Rollback(w) \/ CommitUnacknowledged(w) \/ Crash(w)
        PROVE  UNCHANGED auditorVars
    BY <1>2 DEF WriterStep, Acquire, AcquireTimeout, ReadHead, Commit, Release,
                Rollback, CommitUnacknowledged, Crash
  <1>3. ASSUME NEW a \in Auditors, AuditorStep(a)
        PROVE  ReportsFit'
    <2>1. CASE VerifyChain(a)
      <3>1. Valid(events) = TRUE
        BY DEF ChainInv, ChainIntact, Valid
      <3> QED
        BY <2>1, <3>1 DEF VerifyChain, AGoto
    <2>2. CASE ForceCheckpoint(a)
      BY <2>2 DEF ForceCheckpoint, AGoto
    <2>3. CASE CountEvents(a)
      BY <2>3 DEF CountEvents, AGoto
    <2>4. CASE ReadChainHead(a)
      BY <2>4 DEF ReadChainHead, AGoto
    <2>5. CASE LatestCheckpoint(a)
      BY <2>5 DEF LatestCheckpoint, AGoto
    <2>6. CASE LatestUnreachable(a)
      BY <2>6 DEF LatestUnreachable, AGoto
    <2>7. CASE VerifyAgainst(a)
      <3>1. latest[a] \in CheckpointType /\ latest' = latest
        BY <2>7 DEF VerifyAgainst, HistoryInv, AuditorsRead
      <3>2. Had(events, latest[a].count, latest[a].head)
        BY <2>7 DEF VerifyAgainst, HistoryInv, AuditorsRead
      <3>3. Whole(latest[a]) => report'[a] = "match"
        BY <2>7, <3>1, <3>2, WholeMatches DEF VerifyAgainst
      <3> QED
        BY <2>7, <3>1, <3>3 DEF VerifyAgainst, AGoto
    <2>8. CASE AnchorCheckpoint(a)
      BY <2>8 DEF AnchorCheckpoint, AGoto
    <2> QED
      BY <1>3, <2>1, <2>2, <2>3, <2>4, <2>5, <2>6, <2>7, <2>8 DEF AuditorStep
  <1>4. CASE LockLapses
    BY <1>1, <1>4 DEF LockLapses
  <1> QED
    BY <1>1, <1>2, <1>3, <1>4 DEF Next, vars

\* Events appended while an audit runs never look like tampering: verify_chain
\* succeeds on every snapshot it reads, and verify_against_checkpoints matches
\* every checkpoint whose count and head belong together.
THEOREM GrowthNeverLooksLikeTampering ==
    ASSUME "lock_expiry" \notin Faults
    PROVE  Spec => []GrowthIsNotTampering
  <1>1. Spec => [](TypeOK /\ ChainInv /\ HistoryInv /\ ReportsFit)
    BY TypeInit, TypeStep, ChainInit, ChainStep, HistoryInit, HistoryStep,
       ReportsInit, ReportsStep, PTL DEF Spec
  <1>2. ReportsFit => GrowthIsNotTampering
    BY DEF ReportsFit, GrowthIsNotTampering
  <1> QED
    BY <1>1, <1>2, PTL

-----------------------------------------------------------------------------
(***************************************************************************)
(* The log implements AuditHistory.  The history is the head hash; what    *)
(* was a head before is a prefix of it.  The step that commits an event is *)
(* Record, the one that leaves the lock after a commit is Answer, the one  *)
(* that stores a checkpoint is Anchor, and every other one is silent.      *)
(***************************************************************************)

\* The head lists the recorded calls, and an earlier head is a prefix of it.
LEMMA HeadLists ==
    ASSUME ChainInv
    PROVE  /\ HeadHash(events) \in Seq(Writers)
           /\ Len(HeadHash(events)) = Len(events)
           /\ \A j \in 1..Len(events) : HeadHash(events)[j] = events[j].id
           /\ \A n \in 0..Len(events) :
                 HeadAt(events, n) = SubSeq(HeadHash(events), 1, n)
  <1>1. /\ events \in Seq(EventType) /\ Len(events) \in Nat
        /\ HeadHash(events) \in Seq(Writers)
    BY HeadTyped DEF ChainInv, TypeOK, Hashes
  <1>2. HeadHash(events) = HeadAt(events, Len(events))
    BY <1>1, EmptySeq DEF HeadHash, HeadAt
  <1>3. ASSUME NEW n \in 0..Len(events)
        PROVE  /\ HeadAt(events, n) \in Seq(Writers)
               /\ Len(HeadAt(events, n)) = n
               /\ \A j \in 1..n : HeadAt(events, n)[j] = events[j].id
    <2>1. CASE n = 0
      BY <2>1 DEF HeadAt, GENESIS_HASH
    <2>2. CASE n # 0
      <3>1. n \in 1..Len(events)
        BY <1>1, <2>2
      <3>2. events[n] \in EventType
        BY <1>1, <3>1
      <3>3. events[n].hash \in Seq(Writers)
        BY <3>2 DEF EventType, Hashes
      <3> QED
        BY <2>2, <3>1, <3>3 DEF HeadAt, ChainInv, HashIsHistory
    <2> QED
      BY <2>1, <2>2
  <1>4. /\ Len(HeadHash(events)) = Len(events)
        /\ \A j \in 1..Len(events) : HeadHash(events)[j] = events[j].id
    BY <1>1, <1>2, <1>3
  <1>5. ASSUME NEW n \in 0..Len(events)
        PROVE  HeadAt(events, n) = SubSeq(HeadHash(events), 1, n)
    <2> DEFINE s == HeadAt(events, n)
               t == SubSeq(HeadHash(events), 1, n)
    <2>1. \A i \in 1..n : HeadHash(events)[i] \in Writers
      BY <1>1, <1>4
    <2>2. /\ t \in Seq(Writers) /\ Len(t) = n
          /\ \A i \in 1..n : t[i] = HeadHash(events)[i]
      BY <1>1, <2>1, SubSeqProperties
    <2>3. s \in Seq(Writers) /\ Len(s) = Len(t) /\ \A i \in 1..Len(s) : s[i] = t[i]
      BY <1>1, <1>3, <1>4, <2>2
    <2> HIDE DEF s, t
    <2>4. s = t
      BY <2>2, <2>3, SeqEqual
    <2> QED
      BY <2>4 DEF s, t
  <1> QED
    BY <1>1, <1>4, <1>5

\* A caller that was not answered knows nothing.
LEMMA ToldStays ==
    ASSUME TypeOK, TypeOK', NEW w \in Writers, pc[w] # "done", pc'[w] # "done",
           \A v \in Writers \ {w} : pc'[v] = pc[v] /\ receipt'[v] = receipt[v]
    PROVE  Told' = Told
  BY DEF Told

LEMMA HistoryStarts == Init => History!HistoryInit
  BY DEF Init, History!HistoryInit, HeadHash, Told, GENESIS_HASH

\* A committed event is recorded: nobody else's, behind the head it was read.
LEMMA CommitRecords ==
    ASSUME ChainInv, TypeOK', NEW w \in Writers, pc[w] = "commit",
           events' = Appended(w), pc'[w] # "done", UNCHANGED anchors,
           \A v \in Writers \ {w} : pc'[v] = pc[v] /\ receipt'[v] = receipt[v]
    PROVE  History!Record(w)
  <1>1. Told' = Told
    BY ToldStays DEF ChainInv
  <1>2. /\ Len(events) \in Nat /\ events' \in Seq(EventType)
    BY DEF ChainInv, TypeOK
  <1>3. /\ Len(events') = Len(events) + 1
        /\ events'[Len(events')].hash = compute_hash(w, seen[w])
    BY AppendKeepsChain
  <1>4. HeadHash(events') = Append(HeadHash(events), w)
    <2>1. events' # <<>>
      BY <1>2, <1>3
    <2>2. seen[w] = HeadHash(events)
      BY DEF ChainInv, Fresh
    <2> QED
      BY <1>3, <2>1, <2>2 DEF HeadHash, compute_hash
  <1>5. ASSUME NEW i \in 1..Len(HeadHash(events))
        PROVE  HeadHash(events)[i] # w
    <2>1. i \in 1..Len(events) /\ HeadHash(events)[i] = events[i].id
      BY HeadLists
    <2> QED
      BY <2>1 DEF ChainInv, WrittenOnce
  <1> QED
    BY <1>1, <1>4, <1>5 DEF History!Record

\* A caller that leaves the lock after its commit is answered.
LEMMA ReleaseAnswers ==
    ASSUME ChainInv, NEW w \in Writers, pc[w] = "release", Release(w)
    PROVE  History!Answer(w)
  <1>1. PICK i \in 1..Len(events) :
           events[i].id = w /\ receipt[w] = events[i].hash
    BY DEF ChainInv, Receipts
  <1>2. Len(events) \in Nat /\ pc \in [Writers -> Labels]
    BY DEF ChainInv, TypeOK
  <1>3. /\ HeadHash(events)[i] = w /\ i \in 1..Len(HeadHash(events))
        /\ receipt[w] = SubSeq(HeadHash(events), 1, i)
    <2>1. HeadAt(events, i) = receipt[w]
      BY <1>1, <1>2 DEF HeadAt
    <2>2. i \in 0..Len(events)
      BY <1>1, <1>2
    <2> QED
      BY <1>1, <2>1, <2>2, HeadLists
  <1>4. /\ pc' = [pc EXCEPT ![w] = "done"]
        /\ UNCHANGED <<events, receipt, anchors>>
    BY DEF Release, Goto
  <1>5. Told[w] = <<>> /\ Told' = [Told EXCEPT ![w] = receipt[w]]
    BY <1>2, <1>4 DEF Told, GENESIS_HASH
  <1>6. HeadHash(events)' = HeadHash(events)
    BY <1>4 DEF HeadHash
  <1>7. Told' = [Told EXCEPT ![w] = SubSeq(HeadHash(events), 1, i)]
    BY <1>3, <1>5
  <1> QED
    BY <1>3, <1>4, <1>5, <1>6, <1>7 DEF History!Answer

\* A stored checkpoint anchors a moment of the history, counted before it.
LEMMA CheckpointAnchors ==
    ASSUME ChainInv, HistoryInv, NEW a \in Auditors, AnchorCheckpoint(a),
           anchors' = Append(anchors, [count |-> count[a], head |-> head[a]])
    PROVE  History!Anchor
  <1>1. Had(events, count[a], head[a])
    BY DEF AnchorCheckpoint, HistoryInv, AuditorsRead
  <1>2. PICK n \in Nat : /\ count[a] <= n /\ n <= Len(events)
                         /\ head[a] = HeadAt(events, n)
    BY <1>1 DEF Had
  <1>3. Len(events) \in Nat /\ count[a] \in Nat
    BY DEF ChainInv, TypeOK
  <1>4. /\ n \in 0..Len(HeadHash(events)) /\ count[a] \in 0..n
        /\ head[a] = SubSeq(HeadHash(events), 1, n)
    BY <1>2, <1>3, HeadLists
  <1>5. HeadHash(events)' = HeadHash(events) /\ Told' = Told
    BY DEF AnchorCheckpoint, writerVars, HeadHash, Told
  <1> QED
    BY <1>4, <1>5 DEF History!Anchor

\* Every step of a writer, an auditor or a failure is a step of the history or
\* a silent one.
LEMMA StepIsHistory ==
    ChainInv /\ TypeOK' /\ HistoryInv /\ [Next]_vars
        => [History!HistoryNext]_(History!historyVars)
  <1> SUFFICES ASSUME ChainInv, TypeOK', HistoryInv, [Next]_vars
               PROVE  History!HistoryNext \/ UNCHANGED History!historyVars
    OBVIOUS
  <1> DEFINE Silent == UNCHANGED <<HeadHash(events), Told, anchors>>
  <1> SUFFICES History!HistoryNext \/ Silent
    BY DEF History!historyVars
  <1> USE DEF writerVars, auditorVars
  <1>0. pc \in [Writers -> Labels] /\ TypeOK
    BY DEF ChainInv, TypeOK
  <1>1. CASE UNCHANGED <<events, pc, receipt, anchors>>
    BY <1>1 DEF HeadHash, Told
  <1>2. ASSUME NEW w \in Writers,
               WriterStep(w) \/ Rollback(w) \/ CommitUnacknowledged(w) \/ Crash(w)
        PROVE  History!HistoryNext \/ Silent
    <2>1. ASSUME UNCHANGED <<events, receipt, anchors>>, pc[w] # "done",
                 NEW l \in Labels \ {"done"}, Goto(w, l)
          PROVE  Silent
      <3>1. Told' = Told
        BY <1>0, <2>1, ToldStays DEF Goto
      <3> QED
        BY <2>1, <3>1 DEF HeadHash
    <2>2. CASE Acquire(w)
      BY <2>1, <2>2 DEF Acquire, Labels
    <2>3. CASE AcquireTimeout(w)
      BY <2>1, <2>3 DEF AcquireTimeout, Labels
    <2>4. CASE ReadHead(w)
      BY <2>1, <2>4 DEF ReadHead, Labels
    <2>5. CASE Commit(w)
      <3>1. \A v \in Writers \ {w} : pc'[v] = pc[v] /\ receipt'[v] = receipt[v]
        BY <1>0, <2>5 DEF Commit, Goto, TypeOK
      <3>2. pc'[w] # "done"
        BY <1>0, <2>5 DEF Commit, Goto
      <3>3. History!Record(w)
        BY <2>5, <3>1, <3>2, CommitRecords DEF Commit
      <3> QED
        BY <3>3 DEF History!HistoryNext
    <2>6. CASE Release(w)
      <3>1. CASE pc[w] = "release"
        BY <2>6, <3>1, ReleaseAnswers DEF History!HistoryNext
      <3>2. CASE pc[w] = "abort"
        BY <2>1, <2>6, <3>2 DEF Release, Labels
      <3> QED
        BY <2>6, <3>1, <3>2 DEF Release
    <2>7. CASE Rollback(w)
      BY <2>1, <2>7 DEF Rollback, Labels
    <2>8. CASE CommitUnacknowledged(w)
      <3>1. \A v \in Writers \ {w} : pc'[v] = pc[v] /\ receipt'[v] = receipt[v]
        BY <1>0, <2>8 DEF CommitUnacknowledged, Goto, TypeOK
      <3>2. pc'[w] # "done"
        BY <1>0, <2>8 DEF CommitUnacknowledged, Goto
      <3>3. History!Record(w)
        BY <2>8, <3>1, <3>2, CommitRecords DEF CommitUnacknowledged
      <3> QED
        BY <3>3 DEF History!HistoryNext
    <2>9. CASE Crash(w)
      BY <2>1, <2>9 DEF Crash, Labels
    <2> QED
      BY <1>2, <2>2, <2>3, <2>4, <2>5, <2>6, <2>7, <2>8, <2>9 DEF WriterStep
  <1>3. ASSUME NEW a \in Auditors, AuditorStep(a)
        PROVE  History!HistoryNext \/ Silent
    <2>1. CASE AnchorCheckpoint(a)
      <3>1. CASE anchors' = Append(anchors, [count |-> count[a], head |-> head[a]])
        BY <2>1, <3>1, CheckpointAnchors DEF History!HistoryNext
      <3>2. CASE UNCHANGED anchors
        BY <1>1, <2>1, <3>2 DEF AnchorCheckpoint
      <3> QED
        BY <2>1, <3>1, <3>2 DEF AnchorCheckpoint
    <2>2. CASE ~AnchorCheckpoint(a)
      BY <1>1, <1>3, <2>2
         DEF AuditorStep, VerifyChain, ForceCheckpoint, CountEvents,
             ReadChainHead, LatestCheckpoint, LatestUnreachable, VerifyAgainst
    <2> QED
      BY <2>1, <2>2
  <1>4. CASE LockLapses
    BY <1>1, <1>4 DEF LockLapses
  <1> QED
    BY <1>1, <1>2, <1>3, <1>4 DEF Next, vars

\* The locked, hash-chained, transactional log with its checkpoints implements
\* an append-only history, provided no section outlives the lock's TTL.
THEOREM ChainImplementsHistory ==
    ASSUME "lock_expiry" \notin Faults
    PROVE  Spec => ImplementsHistory
  <1>1. Spec => [](TypeOK /\ ChainInv /\ HistoryInv)
    BY TypeInit, TypeStep, ChainInit, ChainStep, HistoryInit, HistoryStep,
       PTL DEF Spec
  <1> QED
    BY <1>1, HistoryStarts, StepIsHistory, PTL
       DEF Spec, ImplementsHistory, History!HistorySpec

-----------------------------------------------------------------------------
(***************************************************************************)
(* Logs somebody did alter.  Whatever stands in the table when an audit    *)
(* runs, a consistent rewrite from the genesis hash included: if it passes *)
(* the comparison with a checkpoint, its beginning is the log that was     *)
(* anchored.  verify_chain alone does not give this.                       *)
(***************************************************************************)

\* In a log that passes verify_chain, a hash lists the events up to its own.
\* By the first event whose hash does not.
LEMMA ValidListsEvents ==
    ASSUME NEW log \in Seq(EventType), Valid(log)
    PROVE  \A n \in 1..Len(log) :
              /\ Len(log[n].hash) = n
              /\ \A j \in 1..n : log[n].hash[j] = log[j].id
  <1> DEFINE Good(n) == /\ Len(log[n].hash) = n
                        /\ \A j \in 1..n : log[n].hash[j] = log[j].id
             Bad == {n \in 1..Len(log) : ~Good(n)}
             Less == {ss \in Nat \X Nat : ss[1] < ss[2]}
  <1> SUFFICES ASSUME Bad # {} PROVE FALSE
    OBVIOUS
  <1>0. IsWellFoundedOn(Less, Nat)
    BY NatLessThanWellFounded DEF OpToRel
  <1>1. Bad \subseteq Nat /\ Len(log) \in Nat
    OBVIOUS
  <1>2. PICK n \in Bad : \A y \in Bad : ~(<<y, n>> \in Less)
    <2> HIDE DEF Less, Bad
    <2> QED
      BY <1>0, <1>1, WFMin
  <1>3. n \in 1..Len(log) /\ ~Good(n)
    OBVIOUS
  <1>4. ASSUME n # 1 PROVE n - 1 \in 1..Len(log) /\ Good(n - 1)
    <2>1. n - 1 \in 1..Len(log) /\ <<n - 1, n>> \in Less
      BY <1>1, <1>3, <1>4
    <2> QED
      BY <1>2, <2>1
  <1> DEFINE prev == log[n].prev
  <1>5. /\ prev = IF n = 1 THEN GENESIS_HASH ELSE log[n - 1].hash
        /\ log[n].hash = Append(prev, log[n].id)
    BY <1>3 DEF Valid, compute_hash
  <1>6. prev \in Seq(Writers) /\ log[n].id \in Writers
    <2>1. log[n] \in EventType
      BY <1>3
    <2> QED
      BY <2>1 DEF EventType, Hashes
  <1>7. Len(prev) = n - 1 /\ \A j \in 1..(n - 1) : prev[j] = log[j].id
    <2>1. CASE n = 1
      BY <1>5, <2>1 DEF GENESIS_HASH
    <2>2. CASE n # 1
      BY <1>4, <1>5, <2>2
    <2> QED
      BY <2>1, <2>2
  <1>8. Good(n)
    <2> HIDE DEF prev
    <2>1. /\ Len(Append(prev, log[n].id)) = Len(prev) + 1
          /\ \A j \in 1..Len(prev) : Append(prev, log[n].id)[j] = prev[j]
          /\ Append(prev, log[n].id)[Len(prev) + 1] = log[n].id
      BY <1>6, AppendProperties
    <2> QED
      BY <1>1, <1>3, <1>5, <1>7, <2>1
  <1> QED
    BY <1>3, <1>8

\* What the comparison reads is a beginning of the log.
LEMMA PrefixOfLog ==
    ASSUME NEW log \in Seq(EventType), NEW n \in Nat
    PROVE  /\ Prefix(log, n) \in Seq(EventType)
           /\ Len(Prefix(log, n)) <= Len(log)
           /\ \A i \in 1..Len(Prefix(log, n)) : Prefix(log, n)[i] = log[i]
  <1>1. CASE n = 0 \/ n > Len(log)
    BY <1>1 DEF Prefix
  <1>2. CASE n # 0 /\ n <= Len(log)
    <2>1. /\ SubSeq(log, 1, n) \in Seq(EventType)
          /\ Len(SubSeq(log, 1, n)) = n
          /\ \A i \in 1..n : SubSeq(log, 1, n)[i] = log[i]
      BY <1>2, SubSeqProperties
    <2> QED
      BY <1>2, <2>1 DEF Prefix
  <1> QED
    BY <1>1, <1>2

\* A log that matches a checkpoint begins with the events its head commits to,
\* each one under the hash of the events before it.
LEMMA MatchFixesBeginning ==
    ASSUME NEW log \in Seq(EventType), NEW c \in CheckpointType,
           Matches(log, c)
    PROVE  /\ Len(c.head) <= Len(log)
           /\ \A i \in 1..Len(c.head) :
                 /\ log[i].id = c.head[i]
                 /\ log[i].prev = IF i = 1 THEN GENESIS_HASH ELSE log[i - 1].hash
                 /\ log[i].hash = compute_hash(log[i].id, log[i].prev)
  <1> DEFINE p == Prefix(log, c.count)
  <1>1. c.count \in Nat
    BY DEF CheckpointType
  <1>2. /\ p \in Seq(EventType) /\ Len(p) \in Nat /\ Len(p) <= Len(log)
        /\ \A i \in 1..Len(p) : p[i] = log[i]
    BY <1>1, PrefixOfLog
  <1>3. Valid(p) /\ HeadHash(p) = c.head
    BY DEF Matches
  <1> HIDE DEF p
  <1>4. Len(c.head) = Len(p) /\ \A i \in 1..Len(p) : c.head[i] = p[i].id
    <2>1. CASE p = <<>>
      BY <1>2, <1>3, <2>1 DEF HeadHash, GENESIS_HASH
    <2>2. CASE p # <<>>
      <3>1. Len(p) \in 1..Len(p)
        BY <1>2, <2>2, EmptySeq
      <3> QED
        BY <1>2, <1>3, <2>2, <3>1, ValidListsEvents DEF HeadHash
    <2> QED
      BY <2>1, <2>2
  <1>5. ASSUME NEW i \in 1..Len(p)
        PROVE  /\ p[i] = log[i]
               /\ i # 1 => p[i - 1] = log[i - 1]
               /\ p[i].prev = IF i = 1 THEN GENESIS_HASH ELSE p[i - 1].hash
               /\ p[i].hash = compute_hash(p[i].id, p[i].prev)
    BY <1>2, <1>3 DEF Valid
  <1> QED
    BY <1>2, <1>4, <1>5

\* An event is its fields.
LEMMA SameEvent ==
    ASSUME NEW e \in EventType, NEW f \in EventType,
           e.id = f.id, e.prev = f.prev, e.hash = f.hash
    PROVE  e = f
  <1>1. /\ e = [id |-> e.id, prev |-> e.prev, hash |-> e.hash]
        /\ f = [id |-> f.id, prev |-> f.prev, hash |-> f.hash]
    BY DEF EventType
  <1>2. [id |-> e.id, prev |-> e.prev, hash |-> e.hash]
            = [id |-> f.id, prev |-> f.prev, hash |-> f.hash]
    OBVIOUS
  <1> QED
    BY <1>1, <1>2, Zenon

\* A log that passes verify_chain and one that matches a checkpoint of it are
\* the same up to the checkpoint: by the first event in which they differ.
LEMMA SameBeginning ==
    ASSUME NEW log \in Seq(EventType), NEW other \in Seq(EventType),
           NEW m \in Nat, m <= Len(log), m <= Len(other),
           \A i \in 1..m :
              /\ log[i].id = other[i].id
              /\ log[i].prev = IF i = 1 THEN GENESIS_HASH ELSE log[i - 1].hash
              /\ log[i].hash = compute_hash(log[i].id, log[i].prev)
              /\ other[i].prev = IF i = 1 THEN GENESIS_HASH ELSE other[i - 1].hash
              /\ other[i].hash = compute_hash(other[i].id, other[i].prev)
    PROVE  \A i \in 1..m : log[i] = other[i]
  <1> DEFINE Bad == {n \in 1..m : log[n] # other[n]}
             Less == {ss \in Nat \X Nat : ss[1] < ss[2]}
  <1> SUFFICES ASSUME Bad # {} PROVE FALSE
    OBVIOUS
  <1>0. IsWellFoundedOn(Less, Nat)
    BY NatLessThanWellFounded DEF OpToRel
  <1>1. Bad \subseteq Nat
    OBVIOUS
  <1>2. PICK n \in Bad : \A y \in Bad : ~(<<y, n>> \in Less)
    <2> HIDE DEF Less, Bad
    <2> QED
      BY <1>0, <1>1, WFMin
  <1>3. n \in 1..m /\ log[n] # other[n]
    OBVIOUS
  <1>4. ASSUME n # 1 PROVE log[n - 1] = other[n - 1]
    <2>1. n - 1 \in 1..m /\ <<n - 1, n>> \in Less
      BY <1>3, <1>4
    <2> QED
      BY <1>2, <2>1
  <1>5. log[n].prev = other[n].prev
    <2>1. CASE n = 1
      <3>1. log[n].prev = GENESIS_HASH /\ other[n].prev = GENESIS_HASH
        BY <1>3, <2>1
      <3> QED
        BY <3>1
    <2>2. CASE n # 1
      <3>1. log[n].prev = log[n - 1].hash /\ other[n].prev = other[n - 1].hash
        BY <1>3, <2>2
      <3> QED
        BY <1>4, <2>2, <3>1
    <2> QED
      BY <2>1, <2>2
  <1>6. log[n].id = other[n].id /\ log[n].hash = other[n].hash
    BY <1>3, <1>5
  <1>7. log[n] \in EventType /\ other[n] \in EventType
    BY <1>3
  <1> QED
    BY <1>3, <1>5, <1>6, <1>7, SameEvent

\* Whatever log an audit finds in the table, one that passes the comparison with
\* a checkpoint still begins with the events that stood there, unaltered, when
\* the checkpoint was laid, and with at least as many as it counted.
TamperingShows ==
    \A log \in Seq(EventType) : \A i \in 1..Len(anchors) :
        Matches(log, anchors[i]) =>
            /\ anchors[i].count <= Len(anchors[i].head)
            /\ Len(anchors[i].head) <= Len(log)
            /\ \A k \in 1..Len(anchors[i].head) : log[k] = events[k]

\* A rewrite of anchored events never passes verify_against_checkpoints, even
\* one that verify_chain calls valid: what checkpoint.py promises.
THEOREM RewritesAreNoticed ==
    ASSUME "lock_expiry" \notin Faults
    PROVE  Spec => []TamperingShows
  <1>1. Spec => [](TypeOK /\ ChainInv /\ HistoryInv)
    BY TypeInit, TypeStep, ChainInit, ChainStep, HistoryInit, HistoryStep,
       PTL DEF Spec
  <1>2. TypeOK /\ ChainInv /\ HistoryInv => TamperingShows
    <2> SUFFICES ASSUME TypeOK, ChainInv, HistoryInv,
                        NEW log \in Seq(EventType), NEW i \in 1..Len(anchors),
                        Matches(log, anchors[i])
                 PROVE  /\ anchors[i].count <= Len(anchors[i].head)
                        /\ Len(anchors[i].head) <= Len(log)
                        /\ \A k \in 1..Len(anchors[i].head) : log[k] = events[k]
      BY DEF TamperingShows
    <2>1. /\ events \in Seq(EventType) /\ Len(events) \in Nat
          /\ anchors[i] \in CheckpointType /\ anchors[i].count \in Nat
      <3>1. anchors[i] \in CheckpointType
        BY DEF TypeOK
      <3> QED
        BY <3>1 DEF TypeOK, CheckpointType
    <2>2. PICK n \in Nat : /\ anchors[i].count <= n /\ n <= Len(events)
                           /\ anchors[i].head = HeadAt(events, n)
      BY DEF HistoryInv, AnchorsHad, Had
    <2>3. /\ Len(anchors[i].head) = n
          /\ \A j \in 1..n : anchors[i].head[j] = events[j].id
      <3>1. CASE n = 0
        BY <2>2, <3>1 DEF HeadAt, GENESIS_HASH
      <3>2. CASE n # 0
        BY <2>1, <2>2, <3>2 DEF HeadAt, ChainInv, HashIsHistory
      <3> QED
        BY <3>1, <3>2
    <2>4. /\ n <= Len(log)
          /\ \A j \in 1..n :
                /\ log[j].id = anchors[i].head[j]
                /\ log[j].prev = IF j = 1 THEN GENESIS_HASH ELSE log[j - 1].hash
                /\ log[j].hash = compute_hash(log[j].id, log[j].prev)
      BY <2>1, <2>3, MatchFixesBeginning
    <2>5. \A j \in 1..n :
             /\ events[j].prev = IF j = 1 THEN GENESIS_HASH ELSE events[j - 1].hash
             /\ events[j].hash = compute_hash(events[j].id, events[j].prev)
      <3>1. \A j \in 1..n : j \in 1..Len(events)
        BY <2>1, <2>2
      <3>2. \A j \in 1..Len(events) :
               /\ events[j].prev = IF j = 1 THEN GENESIS_HASH
                                            ELSE events[j - 1].hash
               /\ events[j].hash = compute_hash(events[j].id, events[j].prev)
        BY DEF ChainInv, ChainIntact, Valid
      <3> QED
        BY <3>1, <3>2
    <2>6. \A j \in 1..n : log[j] = events[j]
      BY <2>1, <2>2, <2>3, <2>4, <2>5, SameBeginning
    <2> QED
      BY <2>2, <2>3, <2>4, <2>6
  <1> QED
    BY <1>1, <1>2, PTL
=============================================================================
