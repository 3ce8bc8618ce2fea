---------------------------- MODULE AnalyzerProofs ----------------------------
(***************************************************************************)
(* The content analyzer: the classifier's circuit breaker for any number   *)
(* of concurrent calls, any threshold and any cooldown, and the paraphrase *)
(* detector for any facets, positions and window.                          *)
(***************************************************************************)
EXTENDS CircuitBreaker, SimilarityScan, FiniteSetTheorems, FunctionTheorems,
        WellFoundedInduction, TLAPS

-----------------------------------------------------------------------------
(***************************************************************************)
(* The breaker.                                                            *)
(*                                                                         *)
(* The invariant that carries the argument is that the counter never       *)
(* exceeds the failures since the last success: opening clears the counter *)
(* and not the streak, and a late success clears both.                     *)
(***************************************************************************)
BreakerInv ==
    /\ BreakerTypeOK
    /\ OpenIsEarned
    /\ failures <= streak

\* A coerced answer has a confidence in range, whatever the model sent.
LEMMA CoercedInRange ==
    Coerced \subseteq [degraded : BOOLEAN, confidence : 0..1000]
  <1>1. degraded_result \in [degraded : BOOLEAN, confidence : 0..1000]
    BY DEF degraded_result
  <1>2. ASSUME NEW x \in Payloads
        PROVE  _coerce(x) \in [degraded : BOOLEAN, confidence : 0..1000]
    <2>1. x \in Int
      BY <1>2 DEF Payloads
    <2>. QED
      BY <2>1 DEF _coerce
  <1>. QED
    BY <1>1, <1>2 DEF Coerced

LEMMA BreakerInitially == BreakerInit => BreakerInv
  BY BreakerAssumption DEF BreakerInit, BreakerInv, BreakerTypeOK, OpenIsEarned, NoVerdict

LEMMA BreakerStep == BreakerInv /\ [BreakerNext]_breakerVars => BreakerInv'
  <1>. SUFFICES ASSUME BreakerInv, [BreakerNext]_breakerVars
                PROVE  BreakerInv'
    OBVIOUS
  <1>. USE BreakerAssumption DEF BreakerInv
  <1>1. ASSUME NEW c \in Classifications, Classify(c)
        PROVE  BreakerInv'
    <2>1. /\ NoVerdict \in [degraded : BOOLEAN, confidence : 0..1000]
          /\ degraded_result \in [degraded : BOOLEAN, confidence : 0..1000]
      BY DEF NoVerdict, degraded_result
    <2>2. /\ call' \in [Classifications -> {"idle", "waiting"}]
          /\ result' \in [Classifications -> [degraded : BOOLEAN, confidence : 0..1000]]
      BY <1>1, <2>1 DEF Classify, BreakerTypeOK, Answer
    <2>. QED
      BY <1>1, <2>2 DEF Classify, BreakerTypeOK, OpenIsEarned
  <1>2. ASSUME NEW c \in Classifications, TransportFailure(c)
        PROVE  BreakerInv'
    <2>1. BreakerTypeOK'
      BY <1>2 DEF TransportFailure, _record_transport_failure,
                    BreakerTypeOK, Answer, degraded_result, Capped
    <2>2. OpenIsEarned' /\ failures' <= streak'
      BY <1>2 DEF TransportFailure, _record_transport_failure,
                    BreakerTypeOK, OpenIsEarned, Capped
    <2>. QED
      BY <2>1, <2>2
  <1>3. ASSUME NEW c \in Classifications, ApiAnswers(c)
        PROVE  BreakerInv'
    <2>1. PICK r \in Coerced : Answer(c, r)
      BY <1>3 DEF ApiAnswers
    <2>2. r \in [degraded : BOOLEAN, confidence : 0..1000]
      BY CoercedInRange
    <2>. QED
      BY <1>3, <2>1, <2>2 DEF ApiAnswers, _record_success,
                                 BreakerTypeOK, OpenIsEarned, Answer
  <1>4. CASE CooldownPasses
    BY <1>4 DEF CooldownPasses, BreakerTypeOK, OpenIsEarned
  <1>5. CASE UNCHANGED breakerVars
    BY <1>5 DEF breakerVars, BreakerTypeOK, OpenIsEarned
  <1>. QED
    BY <1>1, <1>2, <1>3, <1>4, <1>5 DEF BreakerNext

LEMMA BreakerInvariant == BreakerSpec => []BreakerInv
  BY BreakerInitially, BreakerStep, PTL DEF BreakerSpec

\* classify and the breaker keep the shape of their variables: in particular
\* no caller ever gets a confidence outside 0..1.
THEOREM BreakerTypeCorrect == BreakerSpec => []BreakerTypeOK
  BY BreakerInvariant, PTL DEF BreakerInv

\* _record_transport_failure opens the breaker only after as many transport
\* failures as configured with no success among them, however the calls of
\* classify overlap and whenever those from before the outage end.
THEOREM BreakerOpensOnlyWhenEarned == BreakerSpec => []OpenIsEarned
  BY BreakerInvariant, PTL DEF BreakerInv

-----------------------------------------------------------------------------
(***************************************************************************)
(* The paraphrase detector.                                                *)
(*                                                                         *)
(* The marks are sorted (Sorted), so the marks that leave the window at a  *)
(* turn are a prefix of those in it (WindowMoves), and the counts are the  *)
(* numbers of marks from left to right (SplitCount).  The loop has covered *)
(* every window that ends at a mark up to right, and no facets can be      *)
(* chosen within a window unless one of these covers them                  *)
(* (CoveredIsExact).                                                       *)
(***************************************************************************)
MarksPlaced == positions \in [Facets -> SUBSET Positions]

\* The marks that come before m.
Behind(m) == {n \in Marks : Before(n, m)}

\* The window that ends at the r-th mark has a mark of every matched facet.
Covered(r) ==
    \A f \in Hit :
        \E i \in 1..r :
            marks[i][2] = f /\ marks[r][1] - marks[i][1] <= IntentWindow

\* The window that ends at the r-th mark begins at the l-th.
WindowAt(l, r) ==
    \A i \in 1..r : l <= i <=> marks[r][1] - marks[i][1] <= IntentWindow

\* The indices of a facet's marks in an interval.
OfFacet(f, l, r) == {i \in l..r : marks[i][2] = f}

\* The two pointers and the counts, between two turns.
LoopInv ==
    /\ \A f \in Facets : counts[f] = Cardinality(OfFacet(f, left, right - 1))
    /\ right > 1 => WindowAt(left, right - 1)
    /\ \A r \in 1..(right - 1) : ~Covered(r)

ScanInv ==
    /\ MarksPlaced
    /\ ScanTypeOK
    /\ found \in BOOLEAN
    /\ right \in 1..(Cardinality(Marks) + 1)
    /\ scanPc = "start" => right = 1 /\ counts = [f \in Facets |-> 0]
    /\ scanPc # "done" => ~found
    /\ scanPc = "loop" => LoopInv
    /\ scanPc = "done" /\ Cardinality(Hit) >= 2 =>
          (found <=> \E r \in 1..Cardinality(Marks) : Covered(r))

-----------------------------------------------------------------------------
LEMMA MarksFinite ==
    ASSUME MarksPlaced
    PROVE  /\ IsFiniteSet(Marks)
           /\ \A m \in Marks : /\ m = <<m[1], m[2]>>
                               /\ m[1] \in Positions /\ m[2] \in Facets
                               /\ m[1] \in Nat /\ m[2] \in Nat
                               /\ m[1] \in positions[m[2]]
           /\ \A f \in Facets : \A p \in positions[f] : <<p, f>> \in Marks
  <1>1. ASSUME NEW m \in Marks
        PROVE  /\ m \in Positions \X Facets /\ m[1] \in positions[m[2]]
    BY DEF Marks, MarksPlaced
  <1>2. IsFiniteSet(Positions \X Facets)
    <2>1. IsFiniteSet(Facets)
      BY ScanAssumption, FS_Interval DEF Facets
    <2> QED
      BY <2>1, ScanAssumption, FS_Product
  <1>3. IsFiniteSet(Marks)
    BY <1>1, <1>2, FS_Subset
  <1>4. ASSUME NEW f \in Facets, NEW p \in positions[f]
        PROVE  <<p, f>> \in Marks
    BY DEF Marks
  <1>5. Positions \subseteq Nat /\ Facets \subseteq Nat
    BY ScanAssumption DEF Facets
  <1> QED
    BY <1>1, <1>3, <1>4, <1>5

LEMMA Rank ==
    ASSUME MarksPlaced
    PROVE  /\ \A m \in Marks : Cardinality(Behind(m)) \in 0..(Cardinality(Marks) - 1)
           /\ \A m, n \in Marks :
                 Before(m, n) => Cardinality(Behind(m)) < Cardinality(Behind(n))
           /\ \A m, n \in Marks : m = n \/ Before(m, n) \/ Before(n, m)
  <1>0. /\ IsFiniteSet(Marks) /\ Cardinality(Marks) \in Nat
        /\ \A m \in Marks : m = <<m[1], m[2]>> /\ m[1] \in Nat /\ m[2] \in Nat
    BY MarksFinite, FS_CardinalityType
  <1>1. ASSUME NEW m \in Marks
        PROVE  /\ IsFiniteSet(Behind(m)) /\ Cardinality(Behind(m)) \in Nat
               /\ m \notin Behind(m)
    <2>1. Behind(m) \in SUBSET Marks
      BY DEF Behind
    <2>2. m \notin Behind(m)
      BY <1>0 DEF Behind, Before
    <2> QED
      BY <2>1, <2>2, <1>0, FS_Subset, FS_CardinalityType
  <1>2. ASSUME NEW m \in Marks
        PROVE  Cardinality(Behind(m)) \in 0..(Cardinality(Marks) - 1)
    <2>1. Behind(m) \in SUBSET Marks /\ Behind(m) # Marks
      BY <1>1 DEF Behind
    <2>2. /\ Cardinality(Behind(m)) <= Cardinality(Marks)
          /\ Cardinality(Marks) # Cardinality(Behind(m))
      BY <2>1, <1>0, FS_Subset
    <2> QED
      BY <2>2, <1>0, <1>1
  <1>3. ASSUME NEW m \in Marks, NEW n \in Marks, Before(m, n)
        PROVE  Cardinality(Behind(m)) < Cardinality(Behind(n))
    <2>1. ASSUME NEW o \in Marks, Before(o, m) PROVE Before(o, n)
      BY <1>0, <1>3, <2>1 DEF Before
    <2>2. Behind(m) \in SUBSET Behind(n)
      BY <2>1 DEF Behind
    <2>3. Behind(m) # Behind(n)
      BY <1>1, <1>3 DEF Behind
    <2>4. /\ Cardinality(Behind(m)) <= Cardinality(Behind(n))
          /\ Cardinality(Behind(n)) # Cardinality(Behind(m))
      BY <1>1, <2>2, <2>3, FS_Subset
    <2> QED
      BY <1>1, <2>4
  <1>4. ASSUME NEW m \in Marks, NEW n \in Marks
        PROVE  m = n \/ Before(m, n) \/ Before(n, m)
    BY <1>0 DEF Before
  <1> QED
    BY <1>2, <1>3, <1>4

\* marks lists every mark once, by position.
LEMMA Sorted ==
    ASSUME MarksPlaced
    PROVE  /\ Cardinality(Marks) \in Nat
           /\ \A i \in 1..Cardinality(Marks) : marks[i] \in Marks
           /\ \A m \in Marks : \E i \in 1..Cardinality(Marks) : marks[i] = m
           /\ \A i, j \in 1..Cardinality(Marks) :
                 i <= j => marks[i][1] <= marks[j][1]
  <1> DEFINE N == Cardinality(Marks)
             rank == [m \in Marks |-> Cardinality(Behind(m))]
  <1>0. IsFiniteSet(Marks) /\ N \in Nat
    BY MarksFinite, FS_CardinalityType
  <1>1. \A m, n \in Marks : rank[m] = rank[n] => m = n
    <2> SUFFICES ASSUME NEW m \in Marks, NEW n \in Marks, rank[m] = rank[n], m # n
                 PROVE  FALSE
      OBVIOUS
    <2>1. Cardinality(Behind(m)) \in Int /\ Cardinality(Behind(n)) \in Int
      BY Rank
    <2> QED
      BY <2>1, Rank
  <1>2. rank \in [Marks -> 0..(N - 1)]
    BY Rank
  <1>3. rank \in Injection(Marks, 0..(N - 1))
    BY <1>1, <1>2 DEF Injection, IsInjective
  <1>4. IsFiniteSet(0..(N - 1)) /\ Cardinality(0..(N - 1)) = N
    <2> HIDE DEF N
    <2>1. N - 1 \in Int /\ (IF 0 > N - 1 THEN 0 ELSE (N - 1) - 0 + 1) = N
      BY <1>0
    <2> QED
      BY <2>1, FS_Interval
  <1>5. rank \in Surjection(Marks, 0..(N - 1))
    BY <1>0, <1>3, <1>4, FS_Injection
  <1>6. ASSUME NEW i \in 1..N
        PROVE  marks[i] \in Marks /\ Cardinality(Behind(marks[i])) = i - 1
    <2>1. i - 1 \in 0..(N - 1)
      BY <1>0
    <2>2. \E m \in Marks : Cardinality(Behind(m)) = i - 1
      BY <1>5, <2>1 DEF Surjection
    <2>3. marks[i] = CHOOSE m \in Marks : Cardinality(Behind(m)) = i - 1
      BY DEF marks, Behind
    <2> QED
      BY <2>2, <2>3
  <1>7. ASSUME NEW m \in Marks
        PROVE  \E i \in 1..N : marks[i] = m
    <2> DEFINE i == Cardinality(Behind(m)) + 1
    <2>1. i \in 1..N /\ i - 1 = Cardinality(Behind(m))
      BY <1>0, Rank
    <2>2. marks[i] \in Marks /\ Cardinality(Behind(marks[i])) = Cardinality(Behind(m))
      BY <1>6, <2>1
    <2>3. marks[i] = m
      BY <1>1, <2>2
    <2> QED
      BY <2>1, <2>3
  <1>8. ASSUME NEW i \in 1..N, NEW j \in 1..N, i <= j
        PROVE  marks[i][1] <= marks[j][1]
    <2>1. /\ marks[i] \in Marks /\ Cardinality(Behind(marks[i])) = i - 1
          /\ marks[j] \in Marks /\ Cardinality(Behind(marks[j])) = j - 1
      BY <1>6
    <2>2. ~Before(marks[j], marks[i])
      BY <1>8, <2>1, Rank
    <2>3. marks[i][1] \in Nat /\ marks[j][1] \in Nat
      BY <2>1, MarksFinite
    <2> QED
      BY <2>2, <2>3 DEF Before
  <1> QED
    BY <1>0, <1>6, <1>7, <1>8

\* An interval of integers that is not empty has a least element with a
\* property that one of its elements has.
LEMMA FirstOf ==
    ASSUME NEW a \in Nat, NEW b \in Nat, NEW S, S \subseteq a..b, S # {}
    PROVE  \E k \in S : \A i \in S : k <= i
  <1> DEFINE Less == {ss \in Nat \X Nat : ss[1] < ss[2]}
  <1>0. IsWellFoundedOn(Less, Nat)
    BY NatLessThanWellFounded DEF OpToRel
  <1>1. S \subseteq Nat
    OBVIOUS
  <1> HIDE DEF Less
  <1>2. PICK k \in S : \A i \in S : ~(<<i, k>> \in Less)
    BY <1>0, <1>1, WFMin
  <1>3. ASSUME NEW i \in S PROVE k <= i
    <2>1. i \in Nat /\ k \in Nat
      BY <1>1
    <2>2. i < k => <<i, k>> \in Less
      BY <2>1 DEF Less
    <2> QED
      BY <1>2, <2>1, <2>2
  <1> QED
    BY <1>3

LEMMA LastMark ==
    ASSUME NEW n \in Nat, NEW S, S \subseteq 1..n, S # {}
    PROVE  \E e \in S : \A f \in S : f <= e
  <1> DEFINE Less == {ss \in Nat \X Nat : ss[1] < ss[2]}
             T == {d \in Nat : \E e \in S : d = n - e}
  <1>0. IsWellFoundedOn(Less, Nat)
    BY NatLessThanWellFounded DEF OpToRel
  <1>1. T \subseteq Nat /\ T # {}
    <2>1. PICK e \in S : TRUE
      OBVIOUS
    <2>2. n - e \in Nat
      BY <2>1
    <2> QED
      BY <2>2
  <1> HIDE DEF Less
  <1>2. PICK x \in T : \A y \in T : ~(<<y, x>> \in Less)
    BY <1>0, <1>1, WFMin
  <1>3. PICK e \in S : x = n - e
    OBVIOUS
  <1>4. ASSUME NEW f \in S PROVE f <= e
    <2>1. n - f \in T /\ n - f \in Nat /\ x \in Nat
      OBVIOUS
    <2>2. n - f < x => <<n - f, x>> \in Less
      BY <2>1 DEF Less
    <2> QED
      BY <1>2, <1>3, <2>1, <2>2
  <1> QED
    BY <1>4

LEMMA SplitCount ==
    ASSUME NEW f, NEW l \in Int, NEW k \in Int, NEW r \in Int, l <= k, k <= r + 1
    PROVE  /\ Cardinality(OfFacet(f, l, k - 1)) \in Nat
           /\ Cardinality(OfFacet(f, k, r)) \in Nat
           /\ Cardinality(OfFacet(f, l, r)) =
                 Cardinality(OfFacet(f, l, k - 1)) + Cardinality(OfFacet(f, k, r))
  <1> DEFINE A == OfFacet(f, l, k - 1)
             B == OfFacet(f, k, r)
  <1>1. IsFiniteSet(A) /\ IsFiniteSet(B)
    <2>1. A \in SUBSET (l..(k - 1)) /\ B \in SUBSET (k..r)
      BY DEF OfFacet
    <2>2. IsFiniteSet(l..(k - 1)) /\ IsFiniteSet(k..r)
      BY FS_Interval
    <2> QED
      BY <2>1, <2>2, FS_Subset
  <1>2. OfFacet(f, l, r) = A \cup B
    <2>1. \A i : i \in l..r <=> i \in l..(k - 1) \/ i \in k..r
      OBVIOUS
    <2> QED
      BY <2>1 DEF OfFacet
  <1>3. A \cap B = {}
    <2>1. \A i \in l..(k - 1) : i \notin k..r
      OBVIOUS
    <2> QED
      BY <2>1 DEF OfFacet
  <1> HIDE DEF A, B
  <1>4. Cardinality(A) \in Nat /\ Cardinality(B) \in Nat
    BY <1>1, FS_CardinalityType
  <1>5. Cardinality(A \cup B) = Cardinality(A) + Cardinality(B)
    <2>1. Cardinality(A \cup B) = Cardinality(A) + Cardinality(B) - Cardinality(A \cap B)
      BY <1>1, FS_Union
    <2> QED
      BY <2>1, <1>3, <1>4, FS_EmptySet
  <1> QED
    BY <1>2, <1>4, <1>5 DEF A, B

LEMMA OneMark ==
    ASSUME NEW f, NEW r \in Int
    PROVE  Cardinality(OfFacet(f, r, r)) = IF marks[r][2] = f THEN 1 ELSE 0
  <1>1. r..r = {r}
    OBVIOUS
  <1>2. CASE marks[r][2] = f
    <2>1. OfFacet(f, r, r) = {r}
      BY <1>1, <1>2 DEF OfFacet
    <2> QED
      BY <1>2, <2>1, FS_Singleton
  <1>3. CASE marks[r][2] # f
    <2>1. OfFacet(f, r, r) = {}
      BY <1>1, <1>3 DEF OfFacet
    <2> QED
      BY <1>3, <2>1, FS_EmptySet
  <1> QED
    BY <1>2, <1>3

LEMMA NoMarks ==
    ASSUME NEW f, NEW l \in Int, NEW r \in Int, r < l
    PROVE  Cardinality(OfFacet(f, l, r)) = 0
  <1>1. OfFacet(f, l, r) = {}
    BY DEF OfFacet
  <1> QED
    BY <1>1, FS_EmptySet

\* A facet that has a mark in an interval is counted, and only then.
LEMMA CountedIsThere ==
    ASSUME NEW f, NEW l \in Int, NEW r \in Int
    PROVE  Cardinality(OfFacet(f, l, r)) > 0 <=> \E i \in l..r : marks[i][2] = f
  <1>1. IsFiniteSet(OfFacet(f, l, r))
    <2>1. OfFacet(f, l, r) \in SUBSET (l..r)
      BY DEF OfFacet
    <2> QED
      BY <2>1, FS_Interval, FS_Subset
  <1>2. Cardinality(OfFacet(f, l, r)) \in Nat
    BY <1>1, FS_CardinalityType
  <1>3. Cardinality(OfFacet(f, l, r)) = 0 <=> OfFacet(f, l, r) = {}
    BY <1>1, FS_EmptySet
  <1> QED
    BY <1>2, <1>3 DEF OfFacet

-----------------------------------------------------------------------------
\* The inner while moves the left pointer to the beginning of the new window:
\* marks are sorted, so what it drops is a prefix of what is counted.
LEMMA WindowMoves ==
    ASSUME ScanInv, scanPc = "loop", right <= Cardinality(Marks)
    PROVE  \E k \in left..right :
              /\ Dropped = left..(k - 1)
              /\ Cardinality(Dropped) = k - left
              /\ WindowAt(k, right)
  <1> DEFINE N == Cardinality(Marks)
             Out(i) == marks[right][1] - marks[i][1] > IntentWindow
             Kept == {i \in left..right : ~Out(i)}
  <1>0. /\ N \in Nat /\ right \in 1..N /\ left \in 1..right
        /\ \A i \in 1..N : marks[i] \in Marks
        /\ \A i, j \in 1..N : i <= j => marks[i][1] <= marks[j][1]
    BY Sorted DEF ScanInv, ScanTypeOK
  <1>1. \A i \in 1..N : marks[i][1] \in Nat
    BY <1>0, MarksFinite DEF ScanInv
  <1>2. IntentWindow \in Nat
    BY ScanAssumption
  <1> HIDE DEF N
  <1>3. right \in Kept
    BY <1>0, <1>1, <1>2
  <1>4. PICK k \in Kept : \A i \in Kept : k <= i
    <2>1. Kept \subseteq left..right /\ left \in Nat /\ right \in Nat
      BY <1>0
    <2> HIDE DEF Kept
    <2> QED
      BY <1>3, <2>1, FirstOf
  <1>5. k \in left..right /\ ~Out(k)
    OBVIOUS
  <1>6. ASSUME NEW i \in 1..right, k <= i PROVE ~Out(i)
    <2>1. k \in 1..N /\ i \in 1..N /\ right \in 1..N
      BY <1>0, <1>5
    <2>2. marks[k][1] <= marks[i][1]
      BY <1>0, <1>6, <2>1
    <2> QED
      BY <1>1, <1>2, <1>5, <2>1, <2>2
  <1>7. ASSUME NEW i \in left..right, i < k PROVE Out(i)
    <2>1. i \notin Kept
      BY <1>4, <1>5, <1>7, <1>0
    <2> QED
      BY <2>1
  <1>8. ASSUME NEW i \in 1..right, i < left PROVE Out(i)
    <2>1. right > 1 /\ right - 1 \in 1..N /\ i \in 1..(right - 1) /\ right \in 1..N
          /\ i \in 1..N
      BY <1>0, <1>8
    <2>2. WindowAt(left, right - 1)
      BY <2>1 DEF ScanInv, LoopInv
    <2>3. ~(left <= i)
      BY <1>0, <1>8
    <2>4. ~(marks[right - 1][1] - marks[i][1] <= IntentWindow)
      BY <2>1, <2>2, <2>3 DEF WindowAt
    <2>5. marks[right - 1][1] <= marks[right][1]
      <3>1. right - 1 <= right
        BY <1>0
      <3> QED
        BY <1>0, <2>1, <3>1
    <2> QED
      BY <1>1, <1>2, <2>1, <2>4, <2>5
  <1>9. Dropped = left..(k - 1)
    <2>1. \A i \in left..(right - 1) : Out(i) <=> i < k
      <3> TAKE i \in left..(right - 1)
      <3>1. i \in left..right /\ i \in 1..right /\ (i < k \/ k <= i) /\ ~(i < k /\ k <= i)
        BY <1>0, <1>5
      <3> QED
        BY <1>6, <1>7, <3>1
    <2>2. left..(k - 1) = {i \in left..(right - 1) : i < k}
      BY <1>0, <1>5
    <2> QED
      BY <2>1, <2>2 DEF Dropped
  <1>10. Cardinality(Dropped) = k - left
    <2>1. left \in Int /\ k - 1 \in Int
      BY <1>0, <1>5
    <2>2. (IF left > k - 1 THEN 0 ELSE (k - 1) - left + 1) = k - left
      BY <1>0, <1>5
    <2> QED
      BY <1>9, <2>1, <2>2, FS_Interval
  <1>11. WindowAt(k, right)
    <2> SUFFICES ASSUME NEW i \in 1..right
                 PROVE  k <= i <=> marks[right][1] - marks[i][1] <= IntentWindow
      BY DEF WindowAt
    <2>1. (k <= i \/ i < k) /\ (i < left \/ i \in left..right)
      BY <1>0, <1>5
    <2>2. marks[right][1] - marks[i][1] <= IntentWindow <=> ~Out(i)
      BY <1>0, <1>1, <1>2
    <2>3. i < left => i < k
      BY <1>0, <1>5
    <2>4. ~(i < k /\ k <= i)
      BY <1>0, <1>5
    <2> QED
      BY <1>6, <1>7, <1>8, <2>1, <2>2, <2>3, <2>4
  <1> QED
    BY <1>5, <1>9, <1>10, <1>11

\* Facets are few.
LEMMA FacetsFinite ==
    ASSUME NEW S, S \subseteq Facets
    PROVE  IsFiniteSet(S) /\ Cardinality(S) \in Nat
  <1>1. IsFiniteSet(Facets)
    BY ScanAssumption, FS_Interval DEF Facets
  <1>2. IsFiniteSet(S)
    BY <1>1, FS_Subset
  <1> QED
    BY <1>2, FS_CardinalityType

\* The facets with a mark in the window, and those that lost their last one.
InWindow(c) == {f \in Facets : c[f] > 0}
Emptied(c, d) == {f \in Facets : c[f] > 0 /\ d[f] = 0}

\* What distinct keeps: the number of facets that are counted, as one facet
\* comes in and others are emptied.
LEMMA DistinctMoves ==
    ASSUME NEW old \in [Facets -> Nat], NEW new \in [Facets -> Nat],
           NEW facet \in Facets,
           NEW entered \in [Facets -> Nat],
           \A f \in Facets : entered[f] = old[f] + (IF f = facet THEN 1 ELSE 0),
           \A f \in Facets : new[f] <= entered[f]
    PROVE  Cardinality(InWindow(new))
              = Cardinality(InWindow(old)) + (IF old[facet] = 0 THEN 1 ELSE 0)
                   - Cardinality(Emptied(entered, new))
  <1> DEFINE A == {f \in Facets : old[f] > 0}
             B == {f \in Facets : new[f] > 0}
             E == {f \in Facets : entered[f] > 0}
             Z == {f \in Facets : entered[f] > 0 /\ new[f] = 0}
  <1>1. /\ IsFiniteSet(A) /\ Cardinality(A) \in Nat
        /\ IsFiniteSet(B) /\ Cardinality(B) \in Nat
        /\ IsFiniteSet(E) /\ Cardinality(E) \in Nat
        /\ IsFiniteSet(Z) /\ Cardinality(Z) \in Nat
    BY FacetsFinite
  <1>2. E = A \cup {facet}
    OBVIOUS
  <1>3. B = E \ Z /\ E \cap Z = Z
    OBVIOUS
  <1>4. facet \in A <=> old[facet] # 0
    OBVIOUS
  <1> HIDE DEF A, B, E, Z
  <1>5. Cardinality(E) = IF facet \in A THEN Cardinality(A) ELSE Cardinality(A) + 1
    BY <1>1, <1>2, FS_AddElement
  <1>6. Cardinality(B) = Cardinality(E) - Cardinality(Z)
    <2>1. Cardinality(E \ Z) = Cardinality(E) - Cardinality(E \cap Z)
      BY <1>1, FS_Difference
    <2> QED
      BY <1>3, <2>1
  <1>7. Cardinality(B) = Cardinality(A) + (IF old[facet] = 0 THEN 1 ELSE 0)
                            - Cardinality(Z)
    BY <1>1, <1>4, <1>5, <1>6
  <1> QED
    BY <1>7 DEF A, B, Z, InWindow, Emptied

\* All facets with a hit are counted just when as many are counted as have one.
LEMMA AllCounted ==
    ASSUME ScanInv, NEW k \in 1..right, right <= Cardinality(Marks), WindowAt(k, right)
    PROVE  Cardinality({f \in Facets : Cardinality(OfFacet(f, k, right)) > 0})
              = Cardinality(Hit)  <=>  Covered(right)
  <1> DEFINE B == {f \in Facets : Cardinality(OfFacet(f, k, right)) > 0}
  <1>0. /\ Cardinality(Marks) \in Nat /\ right \in 1..Cardinality(Marks)
        /\ \A i \in 1..Cardinality(Marks) : marks[i] \in Marks
    BY Sorted DEF ScanInv
  <1>1. \A f \in Facets : f \in B <=> \E i \in k..right : marks[i][2] = f
    BY <1>0, CountedIsThere
  <1>2. B \subseteq Hit
    <2> SUFFICES ASSUME NEW f \in B PROVE f \in Hit
      OBVIOUS
    <2>1. PICK i \in k..right : marks[i][2] = f
      BY <1>1
    <2>2. marks[i] \in Marks
      BY <1>0
    <2>3. marks[i][1] \in positions[f]
      BY <2>1, <2>2, MarksFinite DEF ScanInv
    <2> QED
      BY <2>3 DEF Hit
  <1>3. IsFiniteSet(Hit) /\ Hit \subseteq Facets
    BY FacetsFinite DEF Hit
  <1>4. Cardinality(B) = Cardinality(Hit) <=> B = Hit
    BY <1>2, <1>3, FS_Subset
  <1>5. ASSUME NEW f \in Hit
        PROVE  f \in B <=> \E i \in 1..right :
                              /\ marks[i][2] = f
                              /\ marks[right][1] - marks[i][1] <= IntentWindow
    <2>1. \A i \in 1..right :
             marks[right][1] - marks[i][1] <= IntentWindow <=> i \in k..right
      BY <1>0 DEF WindowAt
    <2>2. k..right \subseteq 1..right
      BY <1>0
    <2> QED
      BY <1>1, <1>3, <2>1, <2>2
  <1>6. Covered(right) <=> Hit \subseteq B
    BY <1>5 DEF Covered
  <1> QED
    BY <1>2, <1>4, <1>6

LEMMA TurnStep ==
    ASSUME ScanInv, ScanTurn
    PROVE  ScanInv'
  <1> DEFINE N == Cardinality(Marks)
             facet == marks[right][2]
             entered == [counts EXCEPT ![facet] = @ + 1]
             after == [f \in Facets |->
                         entered[f] - Cardinality({i \in Dropped : marks[i][2] = f})]
             emptied == {f \in Facets : entered[f] > 0 /\ after[f] = 0}
             now == distinct + (IF counts[facet] = 0 THEN 1 ELSE 0)
                             - Cardinality(emptied)
  <1>0. /\ scanPc = "loop" /\ right <= N /\ counts' = after
        /\ left' = left + Cardinality(Dropped) /\ distinct' = now
        /\ \/ now = Cardinality(Hit) /\ found' = TRUE /\ scanPc' = "done"
              /\ UNCHANGED right
           \/ now # Cardinality(Hit) /\ right' = right + 1
              /\ UNCHANGED <<found, scanPc>>
        /\ positions' = positions
    BY DEF ScanTurn
  <1>1. /\ N \in Nat /\ right \in 1..N /\ left \in 1..right
        /\ counts \in [Facets -> Nat]
        /\ distinct = Cardinality({f \in Facets : counts[f] > 0})
        /\ found = FALSE /\ LoopInv /\ MarksPlaced
    BY <1>0, Sorted DEF ScanInv, ScanTypeOK
  <1>2. facet \in Facets
    BY <1>1, Sorted, MarksFinite
  <1>3. PICK k \in left..right : /\ Dropped = left..(k - 1)
                                 /\ Cardinality(Dropped) = k - left
                                 /\ WindowAt(k, right)
    BY <1>0, WindowMoves
  <1>4. left' = k /\ k \in 1..right
    BY <1>0, <1>1, <1>3
  <1>5. Marks' = Marks /\ marks' = marks /\ Hit' = Hit /\ MarksPlaced'
    <2>1. Marks' = Marks
      BY <1>0 DEF Marks
    <2>2. marks' = marks
      BY <2>1 DEF marks
    <2>3. Hit' = Hit /\ MarksPlaced'
      BY <1>0, <1>1 DEF Hit, MarksPlaced
    <2> QED
      BY <2>1, <2>2, <2>3
  <1> HIDE DEF N, facet, entered, after, emptied, now
  <1>6. ASSUME NEW f \in Facets
        PROVE  /\ Cardinality(OfFacet(f, k, right)) \in Nat
               /\ after[f] = Cardinality(OfFacet(f, k, right))
               /\ after[f] <= entered[f]
    <2>1. /\ entered[f] = counts[f] + (IF facet = f THEN 1 ELSE 0)
          /\ counts[f] \in Nat
      BY <1>1, <1>2 DEF entered
    <2>2. counts[f] = Cardinality(OfFacet(f, left, right - 1))
      BY <1>1 DEF LoopInv
    <2>3. Cardinality(OfFacet(f, right, right)) = IF facet = f THEN 1 ELSE 0
      BY <1>1, OneMark DEF facet
    <2>4. Cardinality(OfFacet(f, left, right))
             = Cardinality(OfFacet(f, left, right - 1))
                  + Cardinality(OfFacet(f, right, right))
      <3>1. left \in Int /\ right \in Int /\ left <= right /\ right <= right + 1
        BY <1>1
      <3> QED
        BY <3>1, SplitCount
    <2>5. /\ Cardinality(OfFacet(f, left, k - 1)) \in Nat
          /\ Cardinality(OfFacet(f, k, right)) \in Nat
          /\ Cardinality(OfFacet(f, left, right))
                = Cardinality(OfFacet(f, left, k - 1)) + Cardinality(OfFacet(f, k, right))
      <3>1. left \in Int /\ right \in Int /\ k \in Int /\ left <= k /\ k <= right + 1
        BY <1>1, <1>3
      <3> QED
        BY <3>1, SplitCount
    <2>6. {i \in Dropped : marks[i][2] = f} = OfFacet(f, left, k - 1)
      BY <1>3 DEF OfFacet
    <2>7. after[f] = entered[f] - Cardinality(OfFacet(f, left, k - 1))
      BY <2>6 DEF after
    <2> QED
      BY <2>1, <2>2, <2>3, <2>4, <2>5, <2>7
  <1>7. after \in [Facets -> Nat]
    <2>1. DOMAIN after = Facets /\ after = [f \in Facets |-> after[f]]
      BY DEF after
    <2> QED
      BY <1>6, <2>1
  <1>8. now = Cardinality({f \in Facets : after[f] > 0})
    <2>1. Cardinality(InWindow(after))
             = Cardinality(InWindow(counts)) + (IF counts[facet] = 0 THEN 1 ELSE 0)
                  - Cardinality(Emptied(entered, after))
      <3>1. /\ entered \in [Facets -> Nat]
            /\ \A f \in Facets :
                  entered[f] = counts[f] + (IF f = facet THEN 1 ELSE 0)
        BY <1>1, <1>2 DEF entered
      <3>2. \A f \in Facets : after[f] <= entered[f]
        BY <1>6
      <3> QED
        BY <1>1, <1>2, <1>7, <3>1, <3>2, DistinctMoves
    <2> QED
      BY <1>1, <2>1 DEF now, emptied, InWindow, Emptied
  <1>9. now = Cardinality(Hit) <=> Covered(right)
    <2>1. {f \in Facets : after[f] > 0}
             = {f \in Facets : Cardinality(OfFacet(f, k, right)) > 0}
      BY <1>6
    <2> QED
      BY <1>0, <1>3, <1>4, <1>8, <2>1, AllCounted DEF N
  <1>10. /\ \A r : Covered(r)' <=> Covered(r)
         /\ \A l, r : WindowAt(l, r)' <=> WindowAt(l, r)
         /\ \A f, l, r : OfFacet(f, l, r)' = OfFacet(f, l, r)
         /\ N' = N
    BY <1>5 DEF Covered, WindowAt, OfFacet, N
  <1>11. CASE /\ now = Cardinality(Hit) /\ found' = TRUE /\ scanPc' = "done"
              /\ right' = right
    <2>1. ScanTypeOK'
      BY <1>0, <1>4, <1>7, <1>8, <1>11 DEF ScanTypeOK
    <2>2. \E r \in 1..N' : Covered(r)'
      BY <1>1, <1>9, <1>10, <1>11
    <2>3. right' \in 1..(N' + 1)
      BY <1>1, <1>10, <1>11
    <2> QED
      BY <1>5, <1>11, <2>1, <2>2, <2>3 DEF ScanInv, N
  <1>12. CASE /\ now # Cardinality(Hit) /\ right' = right + 1
              /\ found' = found /\ scanPc' = scanPc
    <2>1. right' \in 1..(N' + 1) /\ left' \in 1..right' /\ right' - 1 = right
      BY <1>1, <1>4, <1>10, <1>12
    <2>2. ScanTypeOK'
      BY <1>0, <1>7, <1>8, <1>12, <2>1 DEF ScanTypeOK
    <2>3. (\A f \in Facets : counts[f] = Cardinality(OfFacet(f, left, right - 1)))'
      <3>1. ASSUME NEW f \in Facets
            PROVE  OfFacet(f, left, right - 1)' = OfFacet(f, k, right)
        BY <1>4, <1>5, <2>1 DEF OfFacet
      <3> QED
        BY <1>0, <1>6, <3>1
    <2>4. WindowAt(left, right - 1)'
      BY <1>3, <1>4, <1>5, <2>1 DEF WindowAt
    <2>5. (\A r \in 1..(right - 1) : ~Covered(r))'
      <3>1. \A r \in 1..right : r \in 1..(right - 1) \/ r = right
        BY <1>1
      <3>2. \A r \in 1..right : ~Covered(r)
        BY <1>1, <1>9, <1>12, <3>1 DEF LoopInv
      <3> QED
        BY <1>10, <2>1, <3>2
    <2>6. LoopInv'
      BY <2>3, <2>4, <2>5 DEF LoopInv
    <2> QED
      BY <1>0, <1>1, <1>5, <1>12, <2>1, <2>2, <2>6 DEF ScanInv, N
  <1> QED
    BY <1>0, <1>11, <1>12

LEMMA ScanStep == ScanInv /\ [ScanNext]_scanVars => ScanInv'
  <1> SUFFICES ASSUME ScanInv, [ScanNext]_scanVars PROVE ScanInv'
    OBVIOUS
  <1>0. Cardinality(Marks) \in Nat /\ right \in 1..(Cardinality(Marks) + 1)
    BY Sorted DEF ScanInv
  <1>1. CASE ScanTurn
    BY <1>1, TurnStep
  <1>2. ASSUME positions' = positions, UNCHANGED <<right, left, counts, distinct, found>>
        PROVE  /\ Marks' = Marks /\ Hit' = Hit /\ MarksPlaced'
               /\ LoopInv' <=> LoopInv
               /\ \A r : Covered(r)' <=> Covered(r)
    <2>1. Marks' = Marks
      BY <1>2 DEF Marks
    <2>2. marks' = marks
      BY <2>1 DEF marks
    <2>3. Hit' = Hit /\ MarksPlaced'
      BY <1>2 DEF Hit, MarksPlaced, ScanInv
    <2>4. \A r : Covered(r)' <=> Covered(r)
      BY <2>2, <2>3 DEF Covered
    <2>5. \A f : OfFacet(f, left, right - 1)' = OfFacet(f, left, right - 1)
      BY <1>2, <2>2 DEF OfFacet
    <2>6. WindowAt(left, right - 1)' <=> WindowAt(left, right - 1)
      BY <1>2, <2>2 DEF WindowAt
    <2> QED
      BY <1>2, <2>1, <2>3, <2>4, <2>5, <2>6 DEF LoopInv
  <1>3. CASE ScanStart
    <2>1. /\ scanPc = "start" /\ positions' = positions
          /\ UNCHANGED <<right, left, counts, distinct, found>>
          /\ scanPc' = IF Cardinality(Hit) < 2 THEN "done" ELSE "loop"
      BY <1>3 DEF ScanStart
    <2>2. right = 1 /\ left = 1 /\ \A f \in Facets : counts[f] = 0
      BY <2>1 DEF ScanInv, ScanTypeOK
    <2>3. LoopInv
      <3>1. \A f \in Facets : Cardinality(OfFacet(f, left, right - 1)) = 0
        BY <2>2, NoMarks
      <3> QED
        BY <2>2, <3>1 DEF LoopInv
    <2>4. Cardinality(Hit) \in Nat
      BY FacetsFinite DEF Hit
    <2>5. ScanTypeOK'
      BY <2>1 DEF ScanInv, ScanTypeOK
    <2> QED
      BY <1>2, <2>1, <2>3, <2>4, <2>5 DEF ScanInv
  <1>4. CASE ScanExhausted
    <2>1. /\ scanPc = "loop" /\ positions' = positions
          /\ UNCHANGED <<right, left, counts, distinct, found>>
          /\ scanPc' = "done" /\ right > Cardinality(Marks)
      BY <1>4 DEF ScanExhausted
    <2>2. right - 1 = Cardinality(Marks)
      BY <1>0, <2>1
    <2>3. ~found /\ \A r \in 1..Cardinality(Marks) : ~Covered(r)
      BY <2>1, <2>2 DEF ScanInv, LoopInv
    <2>4. ScanTypeOK'
      BY <2>1 DEF ScanInv, ScanTypeOK
    <2> QED
      BY <1>2, <2>1, <2>3, <2>4 DEF ScanInv
  <1>5. CASE UNCHANGED scanVars
    <2>1. /\ positions' = positions /\ scanPc' = scanPc
          /\ UNCHANGED <<right, left, counts, distinct, found>>
      BY <1>5 DEF scanVars
    <2>2. ScanTypeOK'
      BY <2>1 DEF ScanInv, ScanTypeOK
    <2> QED
      BY <1>2, <2>1, <2>2 DEF ScanInv
  <1> QED
    BY <1>1, <1>3, <1>4, <1>5 DEF ScanNext

LEMMA ScanInitially == ScanInit => ScanInv
  <1> SUFFICES ASSUME ScanInit PROVE ScanInv
    OBVIOUS
  <1>1. MarksPlaced
    BY DEF ScanInit, MarksPlaced
  <1>2. Cardinality(Marks) \in Nat
    BY <1>1, Sorted
  <1>3. {f \in Facets : counts[f] > 0} = {}
    BY DEF ScanInit
  <1>4. ScanTypeOK
    BY <1>3, FS_EmptySet DEF ScanInit, ScanTypeOK
  <1>5. right \in 1..(Cardinality(Marks) + 1)
    BY <1>2 DEF ScanInit
  <1>6. /\ scanPc = "start" /\ found = FALSE /\ right = 1
        /\ counts = [f \in Facets |-> 0]
    BY DEF ScanInit
  <1> QED
    BY <1>1, <1>4, <1>5, <1>6 DEF ScanInv

LEMMA ScanInvariant == ScanSpec => []ScanInv
  BY ScanInitially, ScanStep, PTL DEF ScanSpec

-----------------------------------------------------------------------------
\* Representatives of the facets within the window exist just when one of the
\* windows that end at a mark has a mark of every facet: the one that ends at
\* the last representative.
LEMMA CoveredIsExact ==
    ASSUME MarksPlaced, Hit # {}
    PROVE  (\E r \in 1..Cardinality(Marks) : Covered(r))
              <=> \E rep \in [Hit -> Positions] :
                     \A f, g \in Hit : /\ rep[f] \in positions[f]
                                       /\ rep[f] - rep[g] <= IntentWindow
  <1> DEFINE N == Cardinality(Marks)
  <1>0. /\ N \in Nat
        /\ \A i \in 1..N : marks[i] \in Marks /\ marks[i][1] \in Nat
        /\ \A m \in Marks : \E i \in 1..N : marks[i] = m
        /\ \A i, j \in 1..N : i <= j => marks[i][1] <= marks[j][1]
    BY Sorted, MarksFinite
  <1>1. IntentWindow \in Nat
    BY ScanAssumption
  <1> HIDE DEF N
  <1>2. ASSUME NEW r \in 1..N, Covered(r)
        PROVE  \E rep \in [Hit -> Positions] :
                  \A f, g \in Hit : /\ rep[f] \in positions[f]
                                    /\ rep[f] - rep[g] <= IntentWindow
    <2> DEFINE Near(f, i) == /\ marks[i][2] = f
                             /\ marks[r][1] - marks[i][1] <= IntentWindow
               at == [f \in Hit |-> CHOOSE i \in 1..r : Near(f, i)]
               rep == [f \in Hit |-> marks[at[f]][1]]
    <2>1. ASSUME NEW f \in Hit PROVE at[f] \in 1..r /\ Near(f, at[f])
      <3>1. \E i \in 1..r : Near(f, i)
        BY <1>2 DEF Covered
      <3> HIDE DEF Near
      <3> QED
        BY <3>1
    <2> HIDE DEF at
    <2>2. ASSUME NEW f \in Hit
          PROVE  /\ marks[at[f]][1] \in positions[f] /\ marks[at[f]][1] \in Positions
                 /\ marks[at[f]][1] <= marks[r][1]
                 /\ marks[r][1] - marks[at[f]][1] <= IntentWindow
      <3>1. at[f] \in 1..N /\ at[f] <= r /\ marks[at[f]][2] = f
            /\ marks[r][1] - marks[at[f]][1] <= IntentWindow
        BY <2>1, <1>0
      <3>2. marks[at[f]] \in Marks
        BY <3>1, <1>0
      <3> QED
        BY <1>0, <3>1, <3>2, MarksFinite
    <2>3. rep \in [Hit -> Positions]
      BY <2>2
    <2>4. ASSUME NEW f \in Hit, NEW g \in Hit
          PROVE  rep[f] \in positions[f] /\ rep[f] - rep[g] <= IntentWindow
      <3>1. marks[at[f]][1] \in Nat /\ marks[at[g]][1] \in Nat /\ marks[r][1] \in Nat
        BY <1>0, <2>2, ScanAssumption
      <3> QED
        BY <1>1, <2>2, <3>1
    <2> QED
      BY <2>3, <2>4
  <1>3. ASSUME NEW rep \in [Hit -> Positions],
               \A f, g \in Hit : /\ rep[f] \in positions[f]
                                 /\ rep[f] - rep[g] <= IntentWindow
        PROVE  \E r \in 1..N : Covered(r)
    <2> DEFINE S == {i \in 1..N : \E f \in Hit : marks[i] = <<rep[f], f>>}
    <2>1. ASSUME NEW f \in Hit PROVE \E i \in S : marks[i] = <<rep[f], f>>
      <3>1. <<rep[f], f>> \in Marks
        BY <1>3, MarksFinite DEF Hit
      <3> QED
        BY <1>0, <3>1
    <2>2. S # {} /\ S \subseteq 1..N
      BY <2>1
    <2>3. PICK r \in S : \A i \in S : i <= r
      BY <1>0, <2>2, LastMark
    <2>4. PICK g \in Hit : marks[r] = <<rep[g], g>>
      OBVIOUS
    <2>5. ASSUME NEW f \in Hit
          PROVE  \E i \in 1..r : /\ marks[i][2] = f
                                 /\ marks[r][1] - marks[i][1] <= IntentWindow
      <3>1. PICK i \in S : marks[i] = <<rep[f], f>>
        BY <2>1
      <3>2. i \in 1..r
        BY <1>0, <2>3
      <3>3. rep[g] - rep[f] <= IntentWindow
        BY <1>3
      <3>4. marks[r][1] = rep[g] /\ marks[i][1] = rep[f] /\ marks[i][2] = f
        BY <2>4, <3>1
      <3> QED
        BY <3>2, <3>3, <3>4
    <2>6. Covered(r)
      BY <2>5 DEF Covered
    <2> QED
      BY <2>2, <2>3, <2>6
  <1> QED
    BY <1>2, <1>3 DEF N

\* _within_window answers TRUE just when one token of every matched facet falls
\* within the window: for any facets, positions and window, the two pointers
\* and the counts compute what the definition by representatives says.
THEOREM WindowIsAlwaysExact == ScanSpec => []WindowIsExact
  <1>1. ScanInv => WindowIsExact
    <2> SUFFICES ASSUME ScanInv, scanPc = "done", Cardinality(Hit) >= 2
                 PROVE  found <=> \E rep \in [Hit -> Positions] :
                                     \A f, g \in Hit :
                                        /\ rep[f] \in positions[f]
                                        /\ rep[f] - rep[g] <= IntentWindow
      BY DEF WindowIsExact
    <2>1. Hit # {}
      BY FS_EmptySet
    <2> QED
      BY <2>1, CoveredIsExact DEF ScanInv
  <1> QED
    BY <1>1, ScanInvariant, PTL

\* The loop of _within_window keeps the shape of its variables; in particular
\* distinct is the number of facets it counts.
THEOREM ScanTypeCorrect == ScanSpec => []ScanTypeOK
  BY ScanInvariant, PTL DEF ScanInv

-----------------------------------------------------------------------------
\* A confidence scaled by a prior, rounded to thousandths.
Scaled(c, p) == (c * p + 5000) \div 10000

\* combine with one layer that fired, and with the rules agreeing.
LEMMA LoneConfidence ==
    ASSUME NEW source \in DOMAIN TRUST, NEW c \in Nat, c <= 1000
    PROVE  combine(0, 0, source, c)
              = Least(1000, Scaled(c, injection_prior(source)))
  <1> DEFINE P == {l \in {"rule", "llm", "similarity"} :
                        \/ l = "rule" /\ 0 > 0
                        \/ l = "llm" /\ 0 > 0
                        \/ l = "similarity" /\ c > 0}
  <1>1. Cardinality(P) \in Nat /\ ~(Cardinality(P) >= 2)
    <2> DEFINE Q == {"similarity"}
    <2>1. P \in SUBSET Q
      OBVIOUS
    <2>2. IsFiniteSet(Q) /\ Cardinality(Q) = 1
      BY FS_Singleton
    <2> HIDE DEF P, Q
    <2>3. IsFiniteSet(P) /\ Cardinality(P) <= 1
      <3>1. IsFiniteSet(P) /\ Cardinality(P) <= Cardinality(Q)
        BY <2>1, <2>2, FS_Subset
      <3> QED
        BY <2>2, <3>1
    <2>4. Cardinality(P) \in Nat
      BY <2>3, FS_CardinalityType
    <2> QED
      BY <2>3, <2>4
  <1>2. Greatest(0, Greatest(0, c)) = c
    BY DEF Greatest
  <1> QED
    BY <1>1, <1>2 DEF combine, Scaled

LEMMA AgreedConfidence ==
    ASSUME NEW source \in DOMAIN TRUST, NEW c \in Nat, 0 < c, c <= 1000
    PROVE  \E base \in c..1000 :
              combine(450, 0, source, c)
                 = Least(1000, Scaled(base, injection_prior(source)))
  <1> DEFINE P == {l \in {"rule", "llm", "similarity"} :
                        \/ l = "rule" /\ 450 > 0
                        \/ l = "llm" /\ 0 > 0
                        \/ l = "similarity" /\ c > 0}
             strongest == Greatest(450, Greatest(0, c))
             base == IF Cardinality(P) >= 2 THEN Least(1000, strongest + 50)
                                            ELSE strongest
  <1>1. strongest \in c..1000
    BY DEF Greatest
  <1>2. base \in c..1000
    <2> HIDE DEF strongest, P
    <2> QED
      BY <1>1 DEF Least
  <1>3. combine(450, 0, source, c)
           = Least(1000, Scaled(base, injection_prior(source)))
    BY DEF combine, Scaled
  <1> QED
    BY <1>2, <1>3

\* The prior of a source, in ten-thousandths: it never lowers a confidence.
LEMMA Priors ==
    ASSUME NEW source \in DOMAIN TRUST
    PROVE  /\ injection_prior(source) \in Nat /\ 10000 <= injection_prior(source)
           /\ source \in {"official_api", "verified_catalog", "user_upload"} =>
                 injection_prior(source) <= 11250
  <1>1. /\ TRUST[source] \in 100..950
        /\ source \in {"official_api", "verified_catalog", "user_upload"} =>
              TRUST[source] >= 500
    BY DEF TRUST
  <1> DEFINE t == TRUST[source]
  <1>2. injection_prior(source) = 10000 + ((1000 - t) * 5) \div 2
    BY DEF injection_prior
  <1> HIDE DEF t
  <1>3. t \in 100..950
    BY <1>1 DEF t
  <1>4. /\ ((1000 - t) * 5) \div 2 \in Nat
        /\ t >= 500 => ((1000 - t) * 5) \div 2 <= 1250
    BY <1>3
  <1> QED
    BY <1>1, <1>2, <1>4 DEF t

\* A larger base gives no smaller confidence, and a base of 500 one of 500.
LEMMA Scaling ==
    ASSUME NEW p \in Nat, 10000 <= p, NEW c \in Nat, NEW d \in Nat, c <= d
    PROVE  /\ Scaled(c, p) \in Nat
           /\ Scaled(c, p) >= c
           /\ Scaled(c, p) <= Scaled(d, p)
           /\ c <= 750 /\ p <= 11250 => Scaled(c, p) < 850
  <1>1. c * p \in Nat /\ d * p \in Nat /\ c * p >= c * 10000 /\ c * p <= d * p
    OBVIOUS
  <1>2. c <= 750 /\ p <= 11250 => c * p <= 8437500
    OBVIOUS
  <1> DEFINE x == c * p
             y == d * p
  <1> HIDE DEF x, y
  <1>3. /\ x \in Nat /\ y \in Nat /\ x >= c * 10000 /\ x <= y
        /\ c <= 750 /\ p <= 11250 => x <= 8437500
    BY <1>1, <1>2 DEF x, y
  <1>4. /\ (x + 5000) \div 10000 \in Nat
        /\ (x + 5000) \div 10000 >= c
        /\ (x + 5000) \div 10000 <= (y + 5000) \div 10000
        /\ x <= 8437500 => (x + 5000) \div 10000 < 850
    BY <1>3
  <1> QED
    BY <1>3, <1>4 DEF x, y, Scaled

\* A lone paraphrase match found by scan leads to a human and not to a block,
\* unless nobody vouches for the source; and a match that scan reports is never
\* below the review threshold of the policy, with or without the rules.
THEOREM LoneMatchIsAlwaysReviewed == ScanSpec => []LoneMatchIsReviewed
  <1>1. ScanInv => LoneMatchIsReviewed
    <2> SUFFICES ASSUME ScanInv PROVE LoneMatchIsReviewed
      OBVIOUS
    <2>0. thresholds.injection_hard_block = 850 /\ thresholds.injection_review = 500
      BY DEF thresholds
    <2>1. _intent_score \in 0..750
      <3>1. Cardinality(Hit) \in Nat
        BY FacetsFinite DEF Hit
      <3>2. FacetCount \in Nat /\ FacetCount > 0
        BY ScanAssumption
      <3>3. (450 * Cardinality(Hit)) \div FacetCount \in Nat
        BY <3>1, <3>2
      <3> QED
        BY <3>3 DEF _intent_score, Least
    <2>2. ASSUME NEW source \in {"official_api", "verified_catalog", "user_upload"}
          PROVE  combine(0, 0, source, _intent_score) < 850
      <3> DEFINE p == injection_prior(source)
                 c == _intent_score
      <3>1. source \in DOMAIN TRUST
        BY DEF TRUST
      <3>2. p \in Nat /\ 10000 <= p /\ p <= 11250
        BY <3>1, Priors
      <3>3. c \in Nat /\ c <= 1000 /\ c <= 750 /\ c <= c
        BY <2>1
      <3> HIDE DEF c
      <3>4. combine(0, 0, source, c) = Least(1000, Scaled(c, p))
        BY <3>1, <3>3, LoneConfidence
      <3> HIDE DEF p
      <3>5. Scaled(c, p) \in Nat /\ Scaled(c, p) < 850
        BY <3>2, <3>3, Scaling
      <3>6. combine(0, 0, source, c) < 850
        BY <3>4, <3>5 DEF Least
      <3> QED
        BY <3>6 DEF c
    <2>3. ASSUME NEW source \in DOMAIN TRUST, NEW c \in 500..1000
          PROVE  /\ combine(0, 0, source, c) >= 500
                 /\ combine(450, 0, source, c) >= combine(0, 0, source, c)
      <3> DEFINE p == injection_prior(source)
      <3>1. p \in Nat /\ 10000 <= p
        BY Priors
      <3>2. combine(0, 0, source, c) = Least(1000, Scaled(c, p))
        BY LoneConfidence
      <3>3. PICK base \in c..1000 :
               combine(450, 0, source, c) = Least(1000, Scaled(base, p))
        BY AgreedConfidence
      <3> HIDE DEF p
      <3>4. /\ Scaled(c, p) \in Nat /\ Scaled(base, p) \in Nat
            /\ Scaled(c, p) >= c
            /\ Scaled(c, p) <= Scaled(base, p)
        <4>1. c \in Nat /\ base \in Nat /\ c <= base /\ base <= base
          OBVIOUS
        <4>2. /\ Scaled(c, p) \in Nat
              /\ Scaled(c, p) >= c
              /\ Scaled(c, p) <= Scaled(base, p)
          BY <3>1, <4>1, Scaling
        <4>3. Scaled(base, p) \in Nat
          BY <3>1, <4>1, Scaling
        <4> QED
          BY <4>2, <4>3
      <3> QED
        BY <3>2, <3>3, <3>4 DEF Least
    <2>4. ASSUME NEW source \in DOMAIN TRUST,
                 NEW jaccard \in {0, 349, 350, 499, 500, 1000},
                 scan_confidence(jaccard) >= 500
          PROVE  /\ combine(0, 0, source, scan_confidence(jaccard)) >= 500
                 /\ combine(450, 0, source, scan_confidence(jaccard))
                       >= combine(0, 0, source, scan_confidence(jaccard))
      <3>1. scan_confidence(jaccard) \in 500..1000
        BY <2>1, <2>4 DEF scan_confidence, jac_conf, Greatest
      <3> QED
        BY <2>3, <3>1
    <2> QED
      BY <2>0, <2>2, <2>4 DEF LoneMatchIsReviewed
  <1> QED
    BY <1>1, ScanInvariant, PTL
=============================================================================
