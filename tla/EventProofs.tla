----------------------------- MODULE EventProofs -----------------------------
(***************************************************************************)
(* From the pipeline to the console: the stage events of a request, for    *)
(* any loss and any order of delivery, and the relay for a stream of any   *)
(* length and buffers of any size.                                         *)
(***************************************************************************)
EXTENDS StageEvents, EventRelay, FiniteSetTheorems, SequenceTheorems,
        WellFoundedInduction, TLAPS

-----------------------------------------------------------------------------
(***************************************************************************)
(* Stage events.                                                           *)
(*                                                                         *)
(* reducePipeline shows a stage as one of its received events has it.  So  *)
(* what may be drawn of a stopped request is what is in its emissions at   *)
(* all (Permitted), what is drawn when everything has arrived is how each  *)
(* stage ends in them (EndsAs), and what is drawn of a handler that raised *)
(* has no holes because a stage is spoken of only once those before it are *)
(* settled (InOrder).  All are shown part by part, as the handler puts the *)
(* sequence together.                                                      *)
(***************************************************************************)
Stages == 1..Len(STAGE_ORDER)

Statuses == {"started", "passed", "blocked", "paused", "skipped", "failed"}

EndStatuses == Statuses \ {"started"}

Events == [stage : Stages, status : Statuses]

\* st is how the i-th stage ends in the sequence s.
EndsAs(s, i, st) ==
    \E e \in 1..Len(s) :
        /\ s[e] = Event(i, st)
        /\ \A f \in 1..Len(s) : s[f].stage = i => f <= e

\* From its e-th event on the sequence s has the i-th stage settled.
SettledFrom(s, e, i) ==
    \E f \in 1..Len(s) :
        /\ f < e /\ s[f].stage = i
        /\ \A g \in 1..Len(s) : f <= g /\ s[g].stage = i => s[g].status # "started"

\* An event of s comes when the stages from a up to its own are settled.
InOrder(s, a) ==
    \A e \in 1..Len(s) : \A i \in a..7 :
        i < s[e].stage => SettledFrom(s, e, i)

\* s is about the first m stages, in order, and v is how each of them ends.
Shows(s, m, v) ==
    /\ s \in Seq(Events)
    /\ \A e \in 1..Len(s) : s[e].stage <= m
    /\ \A i \in 1..m : EndsAs(s, i, v[i])
    /\ \A i \in 1..m : v[i] \in EndStatuses
    /\ InOrder(s, 1)

\* What the console is to draw when it has every event of the request.
View ==
    [identity_refused |-> <<"blocked", "skipped", "skipped", "skipped", "skipped",
                            "skipped", "skipped">>,
     rate_limited |-> <<"blocked", "skipped", "skipped", "skipped", "skipped",
                        "skipped", "skipped">>,
     replay |-> <<"passed", "passed", "skipped", "skipped", "skipped", "skipped",
                  "skipped">>,
     ALLOW |-> <<"passed", "passed", "passed", "passed", "passed", "passed", "passed">>,
     REQUIRE_APPROVAL |-> <<"passed", "passed", "passed", "passed", "paused",
                            "paused", "passed">>,
     BLOCK |-> <<"passed", "passed", "passed", "passed", "blocked", "skipped",
                 "passed">>,
     ALLOW_unaudited |-> <<"passed", "passed", "passed", "passed", "passed",
                           "passed", "failed">>,
     REQUIRE_APPROVAL_unaudited |-> <<"passed", "passed", "passed", "passed",
                                      "paused", "paused", "failed">>,
     BLOCK_unaudited |-> <<"passed", "passed", "passed", "passed", "blocked",
                           "skipped", "failed">>]

\* The events that may be in the emissions of a request that stopped.
Permitted(o) ==
    {e \in Events :
        e.status \in
            {"started"} \cup
            (IF e.stage < StoppedAt[o] THEN {"passed"}
             ELSE IF e.stage = StoppedAt[o] THEN {"passed", StoppedAs[o]}
             ELSE IF e.stage = 7 THEN {"passed", "failed", "skipped"}
             ELSE {"skipped", "paused"})}

-----------------------------------------------------------------------------
LEMMA Orders == Len(STAGE_ORDER) = 7
  BY DEF STAGE_ORDER

LEMMA StageFacts ==
    ASSUME NEW i \in Stages, NEW st \in Statuses
    PROVE  /\ Stage(i, st) \in Seq({Event(i, "started"), Event(i, st)})
           /\ Len(Stage(i, st)) = 2
           /\ Stage(i, st)[1] = Event(i, "started")
           /\ Stage(i, st)[2] = Event(i, st)
           /\ Stage(i, st) \in Seq(Events)
  BY DEF Stage, Event, Events, Statuses

LEMMA SkipFacts ==
    ASSUME NEW m \in 1..6
    PROVE  /\ skip_remaining(m) \in Seq(Events)
           /\ Len(skip_remaining(m)) = 7 - m
           /\ \A i \in 1..(7 - m) : skip_remaining(m)[i] = Event(m + i, "skipped")
  BY Orders DEF skip_remaining, Event, Events, Statuses, Stages

LEMMA Concatenated ==
    ASSUME NEW s \in Seq(Events), NEW t \in Seq(Events)
    PROVE  /\ s \o t \in Seq(Events)
           /\ Len(s \o t) = Len(s) + Len(t)
           /\ Len(s) \in Nat /\ Len(t) \in Nat
           /\ \A e \in 1..Len(s) : e \in 1..Len(s \o t) /\ (s \o t)[e] = s[e]
           /\ \A e \in 1..Len(t) :
                 Len(s) + e \in 1..Len(s \o t) /\ (s \o t)[Len(s) + e] = t[e]
           /\ \A e \in 1..Len(s \o t) :
                 e \in 1..Len(s) \/ \E f \in 1..Len(t) : e = Len(s) + f
  <1>1. /\ s \o t \in Seq(Events)
        /\ Len(s \o t) = Len(s) + Len(t)
        /\ \A e \in 1..(Len(s) + Len(t)) :
              (s \o t)[e] = IF e <= Len(s) THEN s[e] ELSE t[e - Len(s)]
    BY ConcatProperties
  <1>2. Len(s) \in Nat /\ Len(t) \in Nat
    OBVIOUS
  <1>3. ASSUME NEW e \in 1..Len(s)
        PROVE  e \in 1..(Len(s) + Len(t)) /\ (s \o t)[e] = s[e]
    <2>1. e \in 1..(Len(s) + Len(t)) /\ e <= Len(s)
      BY <1>2
    <2> QED
      BY <2>1, <1>1
  <1>4. ASSUME NEW e \in 1..Len(t)
        PROVE  Len(s) + e \in 1..(Len(s) + Len(t)) /\ (s \o t)[Len(s) + e] = t[e]
    <2>1. /\ Len(s) + e \in 1..(Len(s) + Len(t))
          /\ ~(Len(s) + e <= Len(s)) /\ (Len(s) + e) - Len(s) = e
      BY <1>2
    <2> QED
      BY <2>1, <1>1
  <1>5. ASSUME NEW e \in 1..(Len(s) + Len(t)), e \notin 1..Len(s)
        PROVE  \E f \in 1..Len(t) : e = Len(s) + f
    <2>1. e - Len(s) \in 1..Len(t) /\ e = Len(s) + (e - Len(s))
      BY <1>2, <1>5
    <2> QED
      BY <2>1
  <1> QED
    BY <1>1, <1>2, <1>3, <1>4, <1>5

\* A stage's end is the end of the last part that speaks of the stage.
LEMMA EndStands ==
    ASSUME NEW s \in Seq(Events), NEW t \in Seq(Events), NEW i, NEW st,
           EndsAs(s, i, st), \A f \in 1..Len(t) : t[f].stage # i
    PROVE  EndsAs(s \o t, i, st)
  <1> DEFINE c == s \o t
  <1>1. PICK e \in 1..Len(s) :
           /\ s[e] = Event(i, st)
           /\ \A f \in 1..Len(s) : s[f].stage = i => f <= e
    BY DEF EndsAs
  <1>2. e \in 1..Len(c) /\ c[e] = Event(i, st)
    BY <1>1, Concatenated
  <1>3. ASSUME NEW f \in 1..Len(c), c[f].stage = i PROVE f <= e
    <2>1. CASE f \in 1..Len(s)
      BY <2>1, <1>1, <1>3, Concatenated
    <2>2. ASSUME NEW g \in 1..Len(t), f = Len(s) + g PROVE FALSE
      <3>1. c[f] = t[g]
        BY <2>2, Concatenated
      <3> QED
        BY <3>1, <1>3
    <2> QED
      BY <2>1, <2>2, Concatenated
  <1> QED
    BY <1>2, <1>3 DEF EndsAs

LEMMA EndReplaces ==
    ASSUME NEW s \in Seq(Events), NEW t \in Seq(Events), NEW i, NEW st,
           EndsAs(t, i, st)
    PROVE  EndsAs(s \o t, i, st)
  <1> DEFINE c == s \o t
  <1>1. PICK e \in 1..Len(t) :
           /\ t[e] = Event(i, st)
           /\ \A f \in 1..Len(t) : t[f].stage = i => f <= e
    BY DEF EndsAs
  <1>2. Len(s) + e \in 1..Len(c) /\ c[Len(s) + e] = Event(i, st)
    BY <1>1, Concatenated
  <1>3. ASSUME NEW f \in 1..Len(c), c[f].stage = i PROVE f <= Len(s) + e
    <2>1. CASE f \in 1..Len(s)
      BY <2>1, Concatenated
    <2>2. ASSUME NEW g \in 1..Len(t), f = Len(s) + g PROVE f <= Len(s) + e
      <3>1. c[f] = t[g]
        BY <2>2, Concatenated
      <3>2. g <= e
        BY <3>1, <1>1, <1>3
      <3> QED
        BY <2>2, <3>2, Concatenated
    <2> QED
      BY <2>1, <2>2, Concatenated
  <1> QED
    BY <1>2, <1>3 DEF EndsAs

\* A stage that is settled stays so when a part follows that is not about it,
\* and is settled for every event of that part.
LEMMA SettledStands ==
    ASSUME NEW s \in Seq(Events), NEW t \in Seq(Events), NEW i,
           \A f \in 1..Len(t) : t[f].stage # i
    PROVE  /\ \A e \in 1..Len(s) : SettledFrom(s, e, i) => SettledFrom(s \o t, e, i)
           /\ \A st \in EndStatuses : EndsAs(s, i, st) =>
                 \A e \in 1..Len(t) : SettledFrom(s \o t, Len(s) + e, i)
  <1> DEFINE c == s \o t
  <1>1. ASSUME NEW f \in 1..Len(s), s[f].stage = i, NEW e \in Int, f < e,
               \A g \in 1..Len(s) : f <= g /\ s[g].stage = i => s[g].status # "started"
        PROVE  SettledFrom(c, e, i)
    <2>1. f \in 1..Len(c) /\ c[f].stage = i
      BY <1>1, Concatenated
    <2>2. ASSUME NEW g \in 1..Len(c), f <= g, c[g].stage = i
          PROVE  c[g].status # "started"
      <3>1. CASE g \in 1..Len(s)
        <4>1. c[g] = s[g]
          BY <3>1, Concatenated
        <4> QED
          BY <1>1, <2>2, <3>1, <4>1
      <3>2. ASSUME NEW h \in 1..Len(t), g = Len(s) + h PROVE FALSE
        <4>1. c[g] = t[h]
          BY <3>2, Concatenated
        <4> QED
          BY <4>1, <2>2
      <3> QED
        BY <3>1, <3>2, Concatenated
    <2> HIDE DEF c
    <2> QED
      BY <1>1, <2>1, <2>2 DEF SettledFrom
  <1>2. ASSUME NEW e \in 1..Len(s), SettledFrom(s, e, i)
        PROVE  SettledFrom(c, e, i)
    <2>1. PICK f \in 1..Len(s) :
             /\ f < e /\ s[f].stage = i
             /\ \A g \in 1..Len(s) :
                   f <= g /\ s[g].stage = i => s[g].status # "started"
      BY <1>2 DEF SettledFrom
    <2> HIDE DEF c
    <2> QED
      BY <1>1, <2>1
  <1>3. ASSUME NEW st \in EndStatuses, EndsAs(s, i, st), NEW e \in 1..Len(t)
        PROVE  SettledFrom(c, Len(s) + e, i)
    <2>1. PICK f \in 1..Len(s) :
             /\ s[f] = Event(i, st)
             /\ \A g \in 1..Len(s) : s[g].stage = i => g <= f
      BY <1>3 DEF EndsAs
    <2>2. s[f].stage = i /\ s[f].status = st /\ st # "started"
      BY <2>1 DEF Event, EndStatuses
    <2>3. Len(s) \in Nat /\ Len(s) + e \in Int /\ f < Len(s) + e
      OBVIOUS
    <2>4. ASSUME NEW g \in 1..Len(s), f <= g, s[g].stage = i
          PROVE  s[g].status # "started"
      <3>1. g = f
        BY <2>1, <2>4
      <3> QED
        BY <3>1, <2>2
    <2> HIDE DEF c
    <2> QED
      BY <1>1, <2>2, <2>3, <2>4
  <1> QED
    BY <1>2, <1>3

LEMMA SettledWithin ==
    ASSUME NEW s \in Seq(Events), NEW t \in Seq(Events), NEW i,
           NEW e \in 1..Len(t), SettledFrom(t, e, i)
    PROVE  SettledFrom(s \o t, Len(s) + e, i)
  <1> DEFINE c == s \o t
  <1>1. PICK f \in 1..Len(t) :
           /\ f < e /\ t[f].stage = i
           /\ \A g \in 1..Len(t) : f <= g /\ t[g].stage = i => t[g].status # "started"
    BY DEF SettledFrom
  <1>2. /\ Len(s) + f \in 1..Len(c) /\ c[Len(s) + f].stage = i
        /\ Len(s) + f < Len(s) + e
    <2>1. Len(s) \in Nat /\ f \in Int /\ e \in Int /\ f < e
      BY <1>1
    <2>2. Len(s) + f \in 1..Len(c) /\ c[Len(s) + f] = t[f]
      BY Concatenated
    <2>3. Len(s) + f < Len(s) + e
      BY <2>1, SMT
    <2> HIDE DEF c
    <2> QED
      BY <1>1, <2>2, <2>3
  <1>3. ASSUME NEW g \in 1..Len(c), Len(s) + f <= g, c[g].stage = i
        PROVE  c[g].status # "started"
    <2>1. g \notin 1..Len(s)
      BY <1>3, Concatenated
    <2>2. PICK h \in 1..Len(t) : g = Len(s) + h
      BY <2>1, Concatenated
    <2>3. c[g] = t[h] /\ f <= h
      BY <2>2, <1>3, Concatenated
    <2> QED
      BY <1>1, <1>3, <2>3
  <1> HIDE DEF c
  <1>4. SettledFrom(c, Len(s) + e, i)
    BY <1>2, <1>3 DEF SettledFrom
  <1> QED
    BY <1>4 DEF c

\* A part t about the stages a..b, put after one about the first m stages.
LEMMA ShowsMore ==
    ASSUME NEW m \in 0..7, NEW a \in 1..(m + 1), m <= a, NEW b \in m..7,
           NEW s, NEW v, NEW w, Shows(s, m, w),
           \A i \in 1..(a - 1) : w[i] = v[i],
           NEW t \in Seq(Events),
           \A f \in 1..Len(t) : t[f].stage \in a..b,
           \A i \in a..b : EndsAs(t, i, v[i]),
           \A i \in a..b : v[i] \in EndStatuses,
           InOrder(t, a)
    PROVE  Shows(s \o t, b, v)
  <1> DEFINE c == s \o t
  <1>1. s \in Seq(Events) /\ \A e \in 1..Len(s) : s[e].stage <= m
    BY DEF Shows
  <1>2. ASSUME NEW i \in 1..(a - 1) PROVE EndsAs(c, i, v[i])
    <2>1. EndsAs(s, i, v[i])
      BY DEF Shows
    <2>2. \A f \in 1..Len(t) : t[f].stage # i
      OBVIOUS
    <2> QED
      BY <1>1, <2>1, <2>2, EndStands
  <1>3. ASSUME NEW i \in a..b PROVE EndsAs(c, i, v[i])
    BY <1>1, EndReplaces
  <1>4. ASSUME NEW e \in 1..Len(c) PROVE c[e].stage <= b
    <2>1. CASE e \in 1..Len(s)
      <3>1. c[e] = s[e] /\ s[e] \in Events /\ s[e].stage <= m
        BY <2>1, <1>1, Concatenated
      <3>2. s[e].stage \in Int
        BY <3>1, Orders DEF Events, Stages
      <3> QED
        BY <3>1, <3>2
    <2>2. ASSUME NEW f \in 1..Len(t), e = Len(s) + f PROVE c[e].stage <= b
      <3>1. c[e] = t[f]
        BY <1>1, <2>2, Concatenated
      <3> QED
        BY <3>1
    <2> QED
      BY <1>1, <2>1, <2>2, Concatenated
  <1>5. \A i \in 1..b : i \in 1..(a - 1) \/ i \in a..b
    OBVIOUS
  <1>6. InOrder(c, 1)
    <2> SUFFICES ASSUME NEW e \in 1..Len(c), NEW i \in 1..7, i < c[e].stage
                 PROVE  SettledFrom(c, e, i)
      BY DEF InOrder
    <2>1. CASE i < a
      <3>1. \A f \in 1..Len(t) : t[f].stage # i
        BY <2>1
      <3>2. CASE e \in 1..Len(s)
        <4>1. i < s[e].stage
          BY <1>1, <3>2, Concatenated
        <4>2. SettledFrom(s, e, i)
          BY <3>2, <4>1 DEF Shows, InOrder
        <4> QED
          BY <1>1, <3>1, <3>2, <4>2, SettledStands
      <3>3. ASSUME NEW f \in 1..Len(t), e = Len(s) + f PROVE SettledFrom(c, e, i)
        <4>1. i \in 1..m
          BY <2>1
        <4>2. EndsAs(s, i, w[i]) /\ w[i] \in EndStatuses
          BY <4>1 DEF Shows
        <4> QED
          BY <1>1, <3>1, <3>3, <4>2, SettledStands
      <3> QED
        BY <1>1, <3>2, <3>3, Concatenated
    <2>2. CASE ~(i < a)
      <3>1. e \notin 1..Len(s)
        <4> SUFFICES ASSUME e \in 1..Len(s) PROVE FALSE
          OBVIOUS
        <4>1. c[e] = s[e] /\ s[e] \in Events /\ s[e].stage <= m
          BY <1>1, Concatenated
        <4>2. s[e].stage \in Int
          BY <4>1, Orders DEF Events, Stages
        <4> QED
          BY <2>2, <4>1, <4>2
      <3>2. PICK f \in 1..Len(t) : e = Len(s) + f
        BY <1>1, <3>1, Concatenated
      <3>3. c[e] = t[f]
        BY <1>1, <3>2, Concatenated
      <3>4. SettledFrom(t, f, i)
        <4>1. i \in a..7 /\ i < t[f].stage
          BY <2>2, <3>3
        <4> QED
          BY <4>1 DEF InOrder
      <3> QED
        BY <1>1, <3>2, <3>4, SettledWithin
    <2> QED
      BY <2>1, <2>2
  <1>7. \A i \in 1..b : v[i] \in EndStatuses
    <2> SUFFICES ASSUME NEW i \in 1..b PROVE v[i] \in EndStatuses
      OBVIOUS
    <2>1. CASE i \in 1..(a - 1)
      <3>1. w[i] = v[i] /\ i \in 1..m
        BY <2>1
      <3> QED
        BY <3>1 DEF Shows
    <2> QED
      BY <1>5, <2>1
  <1> QED
    BY <1>1, <1>2, <1>3, <1>4, <1>5, <1>6, <1>7, Concatenated DEF Shows

LEMMA ShowsStage ==
    ASSUME NEW m \in 0..6, NEW v, NEW s, Shows(s, m, v), v[m + 1] \in EndStatuses
    PROVE  Shows(s \o Stage(m + 1, v[m + 1]), m + 1, v)
  <1> DEFINE n == m + 1
             t == Stage(n, v[n])
  <1>1. /\ n \in 1..7 /\ n \in Stages /\ n \in 1..(m + 1) /\ n \in m..7 /\ m <= n
        /\ v[n] \in Statuses
    BY Orders DEF Stages, EndStatuses
  <1>2. t \in Seq(Events) /\ Len(t) = 2 /\ t[1] = Event(n, "started")
        /\ t[2] = Event(n, v[n])
    BY <1>1, StageFacts
  <1> HIDE DEF t, n
  <1>3. \A f \in 1..Len(t) : t[f].stage = n
    BY <1>2 DEF Event
  <1>4. EndsAs(t, n, v[n])
    BY <1>2 DEF EndsAs
  <1>5. /\ \A f \in 1..Len(t) : t[f].stage \in n..n
        /\ \A i \in n..n : EndsAs(t, i, v[i])
    <2>1. n..n = {n}
      BY <1>1
    <2> QED
      BY <2>1, <1>3, <1>4
  <1>6. m \in 0..7 /\ \A i \in 1..(n - 1) : v[i] = v[i]
    OBVIOUS
  <1>8. InOrder(t, n) /\ \A i \in n..n : v[i] \in EndStatuses
    BY <1>1, <1>3 DEF InOrder, n
  <1>7. Shows(s \o t, n, v)
    BY <1>1, <1>2, <1>5, <1>6, <1>8, ShowsMore
  <1> QED
    BY <1>7 DEF t, n

LEMMA ShowsAgain ==
    ASSUME NEW m \in 1..7, NEW v, NEW w, NEW s, Shows(s, m, w), v[m] \in EndStatuses,
           \A i \in 1..(m - 1) : w[i] = v[i]
    PROVE  Shows(s \o <<Event(m, v[m])>>, m, v)
  <1> DEFINE t == <<Event(m, v[m])>>
  <1>1. t \in Seq(Events) /\ Len(t) = 1 /\ t[1] = Event(m, v[m])
    BY Orders DEF Stages, Events, Event, EndStatuses
  <1> HIDE DEF t
  <1>2. /\ \A f \in 1..Len(t) : t[f].stage \in m..m
        /\ \A i \in m..m : EndsAs(t, i, v[i])
    <2>1. m..m = {m} /\ 1..Len(t) = {1}
      BY <1>1
    <2>2. t[1].stage = m
      BY <1>1 DEF Event
    <2> QED
      BY <2>1, <2>2, <1>1 DEF EndsAs
  <1>3. m \in 0..7 /\ m \in 1..(m + 1) /\ m <= m /\ m \in m..7
    OBVIOUS
  <1>5. InOrder(t, m) /\ \A i \in m..m : v[i] \in EndStatuses
    BY <1>2 DEF InOrder
  <1>4. Shows(s \o t, m, v)
    BY <1>1, <1>2, <1>3, <1>5, ShowsMore
  <1> QED
    BY <1>4 DEF t

LEMMA ShowsSkipped ==
    ASSUME NEW m \in 1..6, NEW v, NEW s, Shows(s, m, v),
           \A i \in (m + 1)..7 : v[i] = "skipped"
    PROVE  Shows(s \o skip_remaining(m), 7, v)
  <1> DEFINE t == skip_remaining(m)
  <1>1. /\ t \in Seq(Events) /\ Len(t) = 7 - m
        /\ \A i \in 1..(7 - m) : t[i] = Event(m + i, "skipped")
    BY SkipFacts
  <1> HIDE DEF t
  <1>2. ASSUME NEW f \in 1..(7 - m) PROVE t[f].stage = m + f
    <2>1. t[f] = Event(m + f, "skipped")
      BY <1>1
    <2> QED
      BY <2>1 DEF Event
  <1>3. \A f \in 1..Len(t) : t[f].stage \in (m + 1)..7
    BY <1>1, <1>2
  <1>4. ASSUME NEW i \in (m + 1)..7 PROVE EndsAs(t, i, v[i])
    <2>1. i - m \in 1..(7 - m) /\ m + (i - m) = i
      OBVIOUS
    <2>2. i - m \in 1..Len(t) /\ t[i - m] = Event(i, v[i])
      BY <2>1, <1>1
    <2>3. \A f \in 1..Len(t) : t[f].stage = i => f <= i - m
      BY <1>1, <1>2
    <2> QED
      BY <2>2, <2>3 DEF EndsAs
  <1>5. m \in 0..7 /\ m + 1 \in 1..(m + 1) /\ m <= m + 1 /\ 7 \in m..7
        /\ \A i \in 1..((m + 1) - 1) : v[i] = v[i]
    OBVIOUS
  <1>7. InOrder(t, m + 1)
    <2> SUFFICES ASSUME NEW e \in 1..(7 - m), NEW i \in (m + 1)..7, i < m + e
                 PROVE  SettledFrom(t, e, i)
      BY <1>1, <1>2 DEF InOrder
    <2>1. i - m \in 1..(7 - m) /\ i - m < e /\ m + (i - m) = i
      OBVIOUS
    <2>2. t[i - m].stage = i
      BY <2>1, <1>2
    <2>3. ASSUME NEW g \in 1..(7 - m) PROVE t[g].status # "started"
      <3>1. t[g] = Event(m + g, "skipped")
        BY <1>1
      <3> QED
        BY <3>1 DEF Event
    <2> QED
      BY <1>1, <2>1, <2>2, <2>3 DEF SettledFrom
  <1>8. \A i \in (m + 1)..7 : v[i] \in EndStatuses
    BY DEF EndStatuses, Statuses
  <1>6. Shows(s \o t, 7, v)
    BY <1>1, <1>3, <1>4, <1>5, <1>7, <1>8, ShowsMore
  <1> QED
    BY <1>6 DEF t

LEMMA ShowsFirst ==
    ASSUME NEW v, v[1] \in EndStatuses
    PROVE  Shows(Stage(1, v[1]), 1, v)
  <1> DEFINE t == Stage(1, v[1])
  <1>1. t \in Seq(Events) /\ Len(t) = 2 /\ t[1] = Event(1, "started")
        /\ t[2] = Event(1, v[1])
    <2>1. 1 \in Stages /\ v[1] \in Statuses
      BY Orders DEF Stages, EndStatuses
    <2> QED
      BY <2>1, StageFacts
  <1> HIDE DEF t
  <1>2. \A f \in 1..Len(t) : t[f].stage = 1
    BY <1>1 DEF Event
  <1>3. EndsAs(t, 1, v[1])
    BY <1>1 DEF EndsAs
  <1>4. Shows(t, 1, v)
    <2>1. \A i \in 1..1 : i = 1
      OBVIOUS
    <2>2. InOrder(t, 1)
      BY <1>2 DEF InOrder
    <2> QED
      BY <2>1, <2>2, <1>1, <1>2, <1>3 DEF Shows
  <1> QED
    BY <1>4 DEF t

\* Seven stages one after the other.
LEMMA ShowsDecided ==
    ASSUME NEW v, \A i \in 1..7 : v[i] \in EndStatuses,
           \A i \in 1..4 : v[i] = "passed"
    PROVE  Shows(Decided(v[5], v[6], v[7]), 7, v)
  <1> DEFINE s1 == Stage(1, "passed")
             s2 == s1 \o Stage(2, "passed")
             s3 == s2 \o Stage(3, "passed")
             s4 == s3 \o Stage(4, "passed")
             s5 == s4 \o Stage(5, v[5])
             s6 == s5 \o Stage(6, v[6])
             s7 == s6 \o Stage(7, v[7])
  <1>0. /\ v[1] = "passed" /\ v[2] = "passed" /\ v[3] = "passed" /\ v[4] = "passed"
        /\ v[1] \in EndStatuses /\ v[2] \in EndStatuses /\ v[3] \in EndStatuses
        /\ v[4] \in EndStatuses /\ v[5] \in EndStatuses /\ v[6] \in EndStatuses
        /\ v[7] \in EndStatuses
    OBVIOUS
  <1>1. Shows(s1, 1, v)
    BY <1>0, ShowsFirst
  <1> HIDE DEF s1
  <1>2. Shows(s2, 2, v)
    <2>1. Shows(s1 \o Stage(1 + 1, v[1 + 1]), 1 + 1, v)
      BY <1>0, <1>1, ShowsStage
    <2> QED
      BY <1>0, <2>1
  <1> HIDE DEF s2
  <1>3. Shows(s3, 3, v)
    <2>1. Shows(s2 \o Stage(2 + 1, v[2 + 1]), 2 + 1, v)
      BY <1>0, <1>2, ShowsStage
    <2> QED
      BY <1>0, <2>1
  <1> HIDE DEF s3
  <1>4. Shows(s4, 4, v)
    <2>1. Shows(s3 \o Stage(3 + 1, v[3 + 1]), 3 + 1, v)
      BY <1>0, <1>3, ShowsStage
    <2> QED
      BY <1>0, <2>1
  <1> HIDE DEF s4
  <1>5. Shows(s5, 5, v)
    <2>1. Shows(s4 \o Stage(4 + 1, v[4 + 1]), 4 + 1, v)
      BY <1>0, <1>4, ShowsStage
    <2> QED
      BY <2>1
  <1> HIDE DEF s5
  <1>6. Shows(s6, 6, v)
    <2>1. Shows(s5 \o Stage(5 + 1, v[5 + 1]), 5 + 1, v)
      BY <1>0, <1>5, ShowsStage
    <2> QED
      BY <2>1
  <1> HIDE DEF s6
  <1>7. Shows(s7, 7, v)
    <2>1. Shows(s6 \o Stage(6 + 1, v[6 + 1]), 6 + 1, v)
      BY <1>0, <1>6, ShowsStage
    <2> QED
      BY <2>1
  <1> QED
    BY <1>7 DEF Decided, s1, s2, s3, s4, s5, s6, s7

\* Every way through the handler.
LEMMA EmissionsShow ==
    ASSUME NEW o \in Outcomes
    PROVE  Shows(Emissions[o], 7, View[o])
  <1> DEFINE v == View[o]
  <1>0. v[1] \in EndStatuses /\ v[2] \in EndStatuses
    BY DEF View, Outcomes, Statuses, EndStatuses
  <1>1. CASE o \in {"ALLOW", "REQUIRE_APPROVAL", "BLOCK", "ALLOW_unaudited",
                    "REQUIRE_APPROVAL_unaudited", "BLOCK_unaudited"}
    <2>1. (\A i \in 1..7 : v[i] \in EndStatuses) /\ (\A i \in 1..4 : v[i] = "passed")
      BY <1>1 DEF View, Statuses, EndStatuses
    <2>2. Emissions[o] = Decided(v[5], v[6], v[7])
      BY <1>1 DEF Emissions, Outcomes, View
    <2> HIDE DEF v
    <2>3. Shows(Decided(v[5], v[6], v[7]), 7, v)
      BY <2>1, ShowsDecided
    <2> QED
      BY <2>2, <2>3 DEF v
  <1>2. CASE o = "identity_refused"
    <2>1. v[1] = "blocked" /\ \A i \in (1 + 1)..7 : v[i] = "skipped"
      BY <1>2 DEF View
    <2>2. Emissions[o] = Stage(1, v[1]) \o skip_remaining(1)
      BY <1>2, <2>1 DEF Emissions, Outcomes
    <2> HIDE DEF v
    <2>3. Shows(Stage(1, v[1]) \o skip_remaining(1), 7, v)
      BY <1>0, <2>1, ShowsFirst, ShowsSkipped
    <2> QED
      BY <2>2, <2>3 DEF v
  <1>3. CASE o = "rate_limited"
    <2> DEFINE w == <<"passed">>
    <2>1. v[1] = "blocked" /\ \A i \in (1 + 1)..7 : v[i] = "skipped"
      BY <1>3 DEF View
    <2>2. Emissions[o] =
             (Stage(1, w[1]) \o <<Event(1, v[1])>>) \o skip_remaining(1)
      BY <1>3, <2>1 DEF Emissions, Outcomes
    <2>3. w[1] \in EndStatuses
      BY DEF Statuses, EndStatuses
    <2> HIDE DEF v, w
    <2>4. Shows(Stage(1, w[1]), 1, w)
      BY <2>3, ShowsFirst
    <2>5. \A i \in 1..(1 - 1) : w[i] = v[i]
      OBVIOUS
    <2>6. Shows(Stage(1, w[1]) \o <<Event(1, v[1])>>, 1, v)
      BY <1>0, <2>4, <2>5, ShowsAgain
    <2>7. Shows((Stage(1, w[1]) \o <<Event(1, v[1])>>) \o skip_remaining(1), 7, v)
      BY <2>1, <2>6, ShowsSkipped
    <2> QED
      BY <2>2, <2>7 DEF v
  <1>4. CASE o = "replay"
    <2>1. v[1] = "passed" /\ v[2] = "passed" /\ \A i \in (2 + 1)..7 : v[i] = "skipped"
      BY <1>4 DEF View
    <2>2. Emissions[o] =
             ((Stage(1, v[1]) \o Stage(2, v[2])) \o <<Event(2, v[2])>>)
                \o skip_remaining(2)
      BY <1>4, <2>1 DEF Emissions, Outcomes
    <2> HIDE DEF v
    <2>3. Shows(Stage(1, v[1]) \o Stage(2, v[2]), 2, v)
      <3>1. Shows(Stage(1, v[1]) \o Stage(1 + 1, v[1 + 1]), 1 + 1, v)
        BY <1>0, ShowsFirst, ShowsStage
      <3> QED
        BY <3>1
    <2>4. Shows((Stage(1, v[1]) \o Stage(2, v[2])) \o <<Event(2, v[2])>>, 2, v)
      BY <1>0, <2>3, ShowsAgain
    <2>5. Shows(((Stage(1, v[1]) \o Stage(2, v[2])) \o <<Event(2, v[2])>>)
                   \o skip_remaining(2), 7, v)
      BY <2>1, <2>4, ShowsSkipped
    <2> QED
      BY <2>2, <2>5 DEF v
  <1> QED
    BY <1>1, <1>2, <1>3, <1>4 DEF Outcomes

-----------------------------------------------------------------------------
LEMMA PermittedParts ==
    ASSUME NEW P, NEW s \in Seq(P), NEW t \in Seq(P)
    PROVE  s \o t \in Seq(P)
  OBVIOUS

LEMMA EmissionsPermitted ==
    ASSUME NEW o \in DOMAIN StoppedAt
    PROVE  Emissions[o] \in Seq(Permitted(o))
  <1> DEFINE P == Permitted(o)
  <1>0. o \in {"identity_refused", "rate_limited", "replay", "REQUIRE_APPROVAL",
               "REQUIRE_APPROVAL_unaudited", "BLOCK", "BLOCK_unaudited"}
    BY DEF StoppedAt
  <1>1. ASSUME NEW i \in 1..7, NEW st \in Statuses, Event(i, st) \in P
        PROVE  Stage(i, st) \in Seq(P)
    <2>1. Event(i, "started") \in P
      BY Orders DEF Permitted, Events, Event, Stages, Statuses
    <2> HIDE DEF P
    <2> QED
      BY <1>1, <2>1 DEF Stage
  <1>2. ASSUME NEW m \in 1..6, \A i \in (m + 1)..7 : Event(i, "skipped") \in P
        PROVE  skip_remaining(m) \in Seq(P)
    <2>1. \A i \in 1..(7 - m) : Event(m + i, "skipped") \in P
      BY <1>2
    <2> HIDE DEF P
    <2> QED
      BY <2>1, Orders DEF skip_remaining
  <1>3. CASE o \in {"REQUIRE_APPROVAL", "REQUIRE_APPROVAL_unaudited", "BLOCK",
                    "BLOCK_unaudited"}
    <2>1. /\ Event(1, "passed") \in P /\ Event(2, "passed") \in P
          /\ Event(3, "passed") \in P /\ Event(4, "passed") \in P
          /\ Event(5, StoppedAs[o]) \in P /\ Event(7, "passed") \in P
          /\ Event(7, "failed") \in P
          /\ Event(6, "paused") \in P /\ Event(6, "skipped") \in P
          /\ StoppedAs[o] \in Statuses
      BY <1>3, Orders DEF Permitted, Events, Event, Stages, Statuses, StoppedAt, StoppedAs
    <2>2. \E a \in {"paused", "skipped"} : \E z \in {"passed", "failed"} :
             Emissions[o] = Decided(StoppedAs[o], a, z)
      BY <1>3 DEF Emissions, Outcomes, StoppedAs
    <2>3. {"passed", "paused", "skipped", "failed"} \subseteq Statuses
      BY DEF Statuses
    <2>4. /\ Stage(1, "passed") \in Seq(P) /\ Stage(2, "passed") \in Seq(P)
          /\ Stage(3, "passed") \in Seq(P) /\ Stage(4, "passed") \in Seq(P)
          /\ Stage(5, StoppedAs[o]) \in Seq(P)
          /\ \A z \in {"passed", "failed"} : Stage(7, z) \in Seq(P)
          /\ \A a \in {"paused", "skipped"} : Stage(6, a) \in Seq(P)
      BY <1>1, <2>1, <2>3
    <2> HIDE DEF P
    <2>5. ASSUME NEW a \in {"paused", "skipped"}, NEW z \in {"passed", "failed"}
          PROVE  Decided(StoppedAs[o], a, z) \in Seq(P)
      <3> DEFINE s4 == Stage(1, "passed") \o Stage(2, "passed") \o Stage(3, "passed")
                           \o Stage(4, "passed")
      <3>1. s4 \in Seq(P)
        BY <2>4, PermittedParts
      <3> HIDE DEF s4
      <3>2. s4 \o Stage(5, StoppedAs[o]) \in Seq(P)
        BY <2>4, <3>1, PermittedParts
      <3>3. (s4 \o Stage(5, StoppedAs[o])) \o Stage(6, a) \in Seq(P)
        BY <2>4, <3>2, PermittedParts
      <3>4. ((s4 \o Stage(5, StoppedAs[o])) \o Stage(6, a)) \o Stage(7, z) \in Seq(P)
        BY <2>4, <3>3, PermittedParts
      <3> QED
        BY <3>4 DEF Decided, s4
    <2> QED
      BY <2>2, <2>5 DEF P
  <1>4. CASE o \in {"identity_refused", "rate_limited", "replay"}
    <2>1. /\ Event(1, "passed") \in P
          /\ o # "replay" => Event(1, "blocked") \in P
          /\ o = "replay" => Event(2, "passed") \in P
          /\ \A i \in 3..7 : Event(i, "skipped") \in P
          /\ o # "replay" => \A i \in 2..7 : Event(i, "skipped") \in P
      BY <1>4, Orders DEF Permitted, Events, Event, Stages, Statuses, StoppedAt, StoppedAs
    <2>3. {"passed", "blocked"} \subseteq Statuses
      BY DEF Statuses
    <2>4. /\ o # "replay" => skip_remaining(1) \in Seq(P)
          /\ skip_remaining(2) \in Seq(P)
      BY <1>2, <2>1
    <2>5. /\ o # "replay" => <<Event(1, "blocked")>> \in Seq(P)
          /\ o = "replay" => <<Event(2, "passed")>> \in Seq(P)
      BY <2>1
    <2>6. /\ Stage(1, "passed") \in Seq(P)
          /\ o # "replay" => Stage(1, "blocked") \in Seq(P)
          /\ o = "replay" => Stage(2, "passed") \in Seq(P)
      BY <1>1, <2>1, <2>3
    <2>7. /\ o = "identity_refused" =>
                Emissions[o] = Stage(1, "blocked") \o skip_remaining(1)
          /\ o = "rate_limited" =>
                Emissions[o] = Stage(1, "passed") \o <<Event(1, "blocked")>>
                                  \o skip_remaining(1)
          /\ o = "replay" =>
                Emissions[o] = Stage(1, "passed") \o Stage(2, "passed")
                                  \o <<Event(2, "passed")>> \o skip_remaining(2)
      BY DEF Emissions, Outcomes
    <2> HIDE DEF P
    <2>8. CASE o = "identity_refused"
      BY <2>4, <2>6, <2>7, <2>8, PermittedParts DEF P
    <2>9. CASE o = "rate_limited"
      <3>1. Stage(1, "passed") \o <<Event(1, "blocked")>> \in Seq(P)
        BY <2>5, <2>6, <2>9, PermittedParts
      <3> QED
        BY <3>1, <2>4, <2>7, <2>9, PermittedParts DEF P
    <2>10. CASE o = "replay"
      <3>1. Stage(1, "passed") \o Stage(2, "passed") \in Seq(P)
        BY <2>6, <2>10, PermittedParts
      <3>2. Stage(1, "passed") \o Stage(2, "passed") \o <<Event(2, "passed")>>
               \in Seq(P)
        BY <3>1, <2>5, <2>10, PermittedParts
      <3> QED
        BY <3>2, <2>4, <2>7, <2>10, PermittedParts DEF P
    <2> QED
      BY <1>4, <2>8, <2>9, <2>10 DEF P
  <1> QED
    BY <1>0, <1>3, <1>4

-----------------------------------------------------------------------------
\* The emitter numbers what it emits, and the console has no event that was
\* not emitted.
THEOREM StageTypeCorrect == StageSpec => []StageTypeOK
  <1>0. ASSUME NEW o \in Outcomes PROVE Len(Emissions[o]) \in Nat
    BY EmissionsShow DEF Shows
  <1>1. StageInit => StageTypeOK
    <2> SUFFICES ASSUME StageInit PROVE StageTypeOK
      OBVIOUS
    <2>1. outcome \in Outcomes /\ Len(Emissions[outcome]) \in Nat
      BY <1>0 DEF StageInit
    <2>2. /\ emitted \in 0..Len(Emissions[outcome])
          /\ inAir \subseteq 1..emitted /\ received \subseteq 1..emitted
      BY <2>1 DEF StageInit
    <2>3. raised \in BOOLEAN
      BY DEF StageInit
    <2> QED
      BY <2>1, <2>2, <2>3 DEF StageTypeOK
  <1>2. StageTypeOK /\ [StageNext]_stageVars => StageTypeOK'
    <2> SUFFICES ASSUME StageTypeOK, [StageNext]_stageVars PROVE StageTypeOK'
      OBVIOUS
    <2> DEFINE n == Len(Emissions[outcome])
    <2>0. outcome \in Outcomes /\ n \in Nat /\ emitted \in 0..n
      BY <1>0 DEF StageTypeOK
    <2>1. CASE Publish
      <3>1. /\ outcome' = outcome /\ raised' = raised
            /\ emitted' = emitted + 1 /\ emitted < n
        BY <2>1 DEF Publish
      <3> HIDE DEF n
      <3>2. /\ emitted' \in 0..n /\ emitted' \in 1..emitted'
            /\ 1..emitted \subseteq 1..emitted'
        BY <2>0, <3>1
      <3>3. inAir' \subseteq inAir \cup {emitted'} /\ received' = received
        BY <2>1 DEF Publish
      <3> QED
        BY <2>0, <3>1, <3>2, <3>3 DEF StageTypeOK, n
    <2>2. ASSUME NEW e \in inAir, PublishSafely(e) PROVE StageTypeOK'
      BY <2>2 DEF PublishSafely, StageTypeOK
    <2>4. CASE HandlerRaises
      BY <2>4 DEF HandlerRaises, StageTypeOK
    <2>3. CASE UNCHANGED stageVars
      BY <2>3 DEF stageVars, StageTypeOK
    <2> QED
      BY <2>1, <2>2, <2>3, <2>4 DEF StageNext
  <1> QED
    BY <1>1, <1>2, PTL DEF StageSpec

\* A set of event numbers that is not empty has a last one.
LEMMA LastOf ==
    ASSUME NEW n \in Nat, NEW S, S \subseteq 1..n, S # {}
    PROVE  \E e \in S : \A f \in S : f <= e
  <1> DEFINE Less == {ss \in Nat \X Nat : ss[1] < ss[2]}
             T == {d \in Nat : \E e \in S : d = n - e}
  <1>0. IsWellFoundedOn(Less, Nat)
    BY NatLessThanWellFounded DEF OpToRel
  <1>1. T \subseteq Nat /\ T # {}
    <2>1. PICK e \in S : TRUE
      OBVIOUS
    <2>2. n - e \in Nat
      BY <2>1
    <2> QED
      BY <2>2
  <1> HIDE DEF Less
  <1>2. PICK x \in T : \A y \in T : ~(<<y, x>> \in Less)
    BY <1>0, <1>1, WFMin
  <1>3. PICK e \in S : x = n - e
    OBVIOUS
  <1>4. ASSUME NEW f \in S PROVE f <= e
    <2>1. n - f \in T /\ n - f \in Nat /\ x \in Nat
      OBVIOUS
    <2>2. n - f < x => <<n - f, x>> \in Less
      BY <2>1 DEF Less
    <2> QED
      BY <1>2, <1>3, <2>1, <2>2
  <1> QED
    BY <1>4

\* reducePipeline draws a stage as one of its received events has it: the one
\* that no other received event of the stage follows.
LEMMA DrawnFromReceived ==
    ASSUME StageTypeOK, NEW i \in 1..7
    PROVE  \/ /\ reducePipeline(i) = "idle"
              /\ \A e \in received : Emissions[outcome][e].stage # i
           \/ \E e \in received :
                 /\ Emissions[outcome][e].stage = i
                 /\ reducePipeline(i) = Emissions[outcome][e].status
                 /\ \A f \in received : Emissions[outcome][f].stage = i => f <= e
  <1> DEFINE ofStage == {e \in received : Emissions[outcome][e].stage = i}
             last == CHOOSE e \in ofStage : \A f \in ofStage : f <= e
  <1>1. CASE ofStage = {}
    BY <1>1 DEF reducePipeline
  <1>2. CASE ofStage # {}
    <2>1. emitted \in Nat /\ received \subseteq 1..emitted
      BY DEF StageTypeOK
    <2> HIDE DEF ofStage
    <2>2. \E e \in ofStage : \A f \in ofStage : f <= e
      <3>1. ofStage \subseteq 1..emitted
        BY <2>1 DEF ofStage
      <3> QED
        BY <1>2, <2>1, <3>1, LastOf
    <2>3. last \in ofStage /\ \A f \in ofStage : f <= last
      BY <2>2
    <2>4. reducePipeline(i) = Emissions[outcome][last].status
      BY <1>2 DEF reducePipeline, ofStage
    <2> QED
      BY <2>3, <2>4 DEF ofStage
  <1> QED
    BY <1>1, <1>2

\* Whatever the emitter's publishing tasks lose or reorder, and wherever the
\* handler raises, the console never draws a request that the handler stopped
\* as one that went on.
THEOREM BeamAlwaysStops == StageSpec => []BeamStops
  <1>1. StageTypeOK => BeamStops
    <2> SUFFICES ASSUME StageTypeOK, outcome \in DOMAIN StoppedAt, NEW i \in 1..7
                 PROVE  reducePipeline(i) \in
                          {"idle", "started"} \cup
                          (IF i < StoppedAt[outcome] THEN {"passed"}
                           ELSE IF i = StoppedAt[outcome]
                                THEN {"passed", StoppedAs[outcome]}
                           ELSE IF i = 7 THEN {"passed", "failed", "skipped"}
                           ELSE {"skipped", "paused"})
      BY Orders DEF BeamStops
    <2>1. CASE reducePipeline(i) = "idle"
      BY <2>1
    <2>2. ASSUME NEW e \in received,
                 Emissions[outcome][e].stage = i,
                 reducePipeline(i) = Emissions[outcome][e].status
          PROVE  reducePipeline(i) \in
                          {"idle", "started"} \cup
                          (IF i < StoppedAt[outcome] THEN {"passed"}
                           ELSE IF i = StoppedAt[outcome]
                                THEN {"passed", StoppedAs[outcome]}
                           ELSE IF i = 7 THEN {"passed", "failed", "skipped"}
                           ELSE {"skipped", "paused"})
      <3>1. e \in 1..Len(Emissions[outcome])
        BY DEF StageTypeOK
      <3>2. Emissions[outcome][e] \in Permitted(outcome)
        BY <3>1, EmissionsPermitted
      <3> QED
        BY <2>2, <3>2 DEF Permitted
    <2> QED
      BY <2>1, <2>2, DrawnFromReceived
  <1> QED
    BY <1>1, StageTypeCorrect, PTL

\* Once the console has every event that was emitted, in whatever order they
\* came, reducePipeline shows a handler that raised without holes (behind an
\* open stage all are idle), and of one that got to its end it leaves no stage
\* open and shows where and why it stopped.
THEOREM ViewIsAlwaysComplete == StageSpec => []ViewIsComplete
  <1>1. StageTypeOK => ViewIsComplete
    <2> SUFFICES ASSUME StageTypeOK, received = 1..emitted
                 PROVE  /\ \A i, j \in 1..7 :
                              Open(i) /\ i < j => reducePipeline(j) = "idle"
                        /\ emitted = Len(Emissions[outcome]) =>
                              /\ \A i \in 1..7 : ~Open(i)
                              /\ outcome \in DOMAIN StoppedAt =>
                                    reducePipeline(StoppedAt[outcome])
                                        = StoppedAs[outcome]
      BY Orders DEF ViewIsComplete
    <2> DEFINE s == Emissions[outcome]
    <2>1. outcome \in Outcomes
      BY DEF StageTypeOK
    <2>2. Shows(s, 7, View[outcome])
      BY <2>1, EmissionsShow
    <2>3. /\ Len(s) \in Nat /\ emitted \in 0..Len(s) /\ received \subseteq Int
          /\ received \subseteq 1..Len(s)
      BY <2>2 DEF Shows, StageTypeOK
    <2>4. ASSUME NEW i \in 1..7, NEW j \in 1..7, Open(i), i < j,
                 reducePipeline(j) # "idle"
          PROVE  FALSE
      <3>1. PICK e \in received : s[e].stage = j
        BY <2>4, DrawnFromReceived
      <3>2. SettledFrom(s, e, i)
        BY <2>2, <2>3, <2>4, <3>1 DEF Shows, InOrder
      <3>3. PICK f \in 1..Len(s) :
               /\ f < e /\ s[f].stage = i
               /\ \A g \in 1..Len(s) :
                     f <= g /\ s[g].stage = i => s[g].status # "started"
        BY <3>2 DEF SettledFrom
      <3>4. f \in received
        BY <2>3, <3>1, <3>3
      <3>5. PICK g \in received :
               /\ s[g].stage = i /\ reducePipeline(i) = s[g].status
               /\ \A h \in received : s[h].stage = i => h <= g
        BY <3>3, <3>4, DrawnFromReceived
      <3>6. s[g].status # "started" /\ s[g].status \in Statuses
        <4>1. g \in 1..Len(s) /\ f <= g /\ s \in Seq(Events)
          BY <2>2, <2>3, <3>3, <3>4, <3>5 DEF Shows
        <4>2. s[g] \in Events
          BY <4>1
        <4> QED
          BY <3>3, <3>5, <4>1, <4>2 DEF Events
      <3> QED
        BY <2>4, <3>5, <3>6 DEF Open, Statuses
    <2>5. ASSUME emitted = Len(s), NEW i \in 1..7
          PROVE  reducePipeline(i) = View[outcome][i]
      <3>1. PICK e \in 1..Len(s) :
               /\ s[e] = Event(i, View[outcome][i])
               /\ \A f \in 1..Len(s) : s[f].stage = i => f <= e
        BY <2>2 DEF Shows, EndsAs
      <3>2. s[e].stage = i /\ s[e].status = View[outcome][i]
        BY <3>1 DEF Event
      <3>3. PICK g \in received :
               /\ s[g].stage = i /\ reducePipeline(i) = s[g].status
               /\ \A f \in received : s[f].stage = i => f <= g
        BY <2>5, <3>1, <3>2, DrawnFromReceived
      <3>5. g = e
        BY <2>3, <2>5, <3>1, <3>2, <3>3
      <3> QED
        BY <3>2, <3>3, <3>5
    <2>6. \A i \in 1..7 : View[outcome][i] \notin {"idle", "started"}
      BY <2>1 DEF View, Outcomes
    <2>7. outcome \in DOMAIN StoppedAt =>
             /\ StoppedAt[outcome] \in 1..7
             /\ View[outcome][StoppedAt[outcome]] = StoppedAs[outcome]
      BY DEF StoppedAt, StoppedAs, View
    <2> QED
      BY <2>4, <2>5, <2>6, <2>7 DEF Open
  <1> QED
    BY <1>1, StageTypeCorrect, PTL

-----------------------------------------------------------------------------
(***************************************************************************)
(* The relay.                                                              *)
(*                                                                         *)
(* DropsAreReported is nearly inductive: it needs that an event is new     *)
(* when it is dropped.  NoGapAtJoin is not: the tab is subscribed before   *)
(* it reads the replay buffer, so the argument starts at hub.add, where    *)
(* nothing is accounted for yet, and the buffer is another set without     *)
(* gaps that joins the queue.                                              *)
(***************************************************************************)
Queued == {queue[i] : i \in 1..Len(queue)}

\* What the tab holds it wanted; a tab that is not added holds nothing, and
\* one that has not got its hello only what came since it was added.
Holdings ==
    /\ Queued \subseteq mine
    /\ phase = "sending" => inHand \in mine
    /\ phase = "none" => queue = <<>> /\ missed = {}
    /\ phase \in {"none", "hello"} => shown = {} /\ toReplay = {}

\* Every event the tab wants from its first one on.
NoGap(S) == \A e, f \in mine : e \in S /\ e < f => f \in S

Joined == phase # "gone" => NoGap(Accounted)

RelayInv == RelayTypeOK /\ Holdings /\ DropsAreReported

-----------------------------------------------------------------------------
\* Min is the least of the events still to be replayed.
LEMMA MinIsMember ==
    ASSUME NEW S, S \subseteq Nat, S # {}
    PROVE  Min(S) \in S
  <1> DEFINE Less == {ss \in Nat \X Nat : ss[1] < ss[2]}
  <1>0. IsWellFoundedOn(Less, Nat)
    BY NatLessThanWellFounded DEF OpToRel
  <1> HIDE DEF Less
  <1>1. PICK x \in S : \A y \in S : ~(<<y, x>> \in Less)
    BY <1>0, WFMin
  <1>2. ASSUME NEW y \in S PROVE x <= y
    <2>1. x \in Nat /\ y \in Nat
      OBVIOUS
    <2>2. y < x => <<y, x>> \in Less
      BY <2>1 DEF Less
    <2> QED
      BY <1>1, <2>1, <2>2
  <1> QED
    BY <1>2 DEF Min

LEMMA QueueAppend ==
    ASSUME NEW q \in Seq(Nat), NEW e \in Nat
    PROVE  {Append(q, e)[i] : i \in 1..Len(Append(q, e))}
              = {q[i] : i \in 1..Len(q)} \cup {e}
  <1>1. /\ Len(q) \in Nat
        /\ Len(Append(q, e)) = Len(q) + 1
        /\ \A i \in 1..Len(q) : Append(q, e)[i] = q[i]
        /\ Append(q, e)[Len(q) + 1] = e
    BY AppendProperties, LenProperties
  <1>2. 1..(Len(q) + 1) = (1..Len(q)) \cup {Len(q) + 1}
    BY <1>1
  <1> QED
    BY <1>1, <1>2

LEMMA QueueTail ==
    ASSUME NEW q \in Seq(Nat), q # <<>>
    PROVE  {q[i] : i \in 1..Len(q)}
              = {Tail(q)[i] : i \in 1..Len(Tail(q))} \cup {Head(q)}
  <1>1. /\ Len(q) \in Nat /\ Len(q) > 0 /\ Head(q) = q[1]
        /\ Len(Tail(q)) = Len(q) - 1
        /\ \A i \in 1..Len(Tail(q)) : Tail(q)[i] = q[i + 1]
    BY HeadTailProperties, LenProperties, EmptySeq
  <1>2. ASSUME NEW j \in 1..Len(q)
        PROVE  q[j] \in {Tail(q)[i] : i \in 1..Len(Tail(q))} \cup {Head(q)}
    <2>1. CASE j = 1
      BY <1>1, <2>1
    <2>2. CASE j # 1
      <3>1. j - 1 \in 1..Len(Tail(q)) /\ Tail(q)[j - 1] = q[j]
        BY <1>1, <2>2
      <3> QED
        BY <3>1
    <2> QED
      BY <2>1, <2>2
  <1>3. ASSUME NEW j \in 1..Len(Tail(q))
        PROVE  Tail(q)[j] \in {q[i] : i \in 1..Len(q)}
    <2>1. j + 1 \in 1..Len(q) /\ Tail(q)[j] = q[j + 1]
      BY <1>1
    <2> QED
      BY <2>1
  <1>4. Head(q) \in {q[i] : i \in 1..Len(q)}
    BY <1>1
  <1> QED
    BY <1>2, <1>3, <1>4

-----------------------------------------------------------------------------
LEMMA RelayInitially == RelayInit => RelayInv /\ Joined
  <1> SUFFICES ASSUME RelayInit PROVE RelayInv /\ Joined
    OBVIOUS
  <1>1. queue \in Seq(1..MaxEvents) /\ Len(queue) = 0
    BY EmptySeq DEF RelayInit
  <1>2. RelayTypeOK
    <2>1. Len(queue) <= CLIENT_QUEUE_SIZE /\ 0 \in 0..MaxEvents
      BY <1>1, RelayAssumption
    <2> QED
      BY <1>1, <2>1 DEF RelayInit, RelayTypeOK, Phases
  <1>3. Queued = {}
    BY <1>1 DEF Queued
  <1>4. Holdings
    BY <1>3 DEF RelayInit, Holdings
  <1>5. DropsAreReported
    BY FS_EmptySet DEF RelayInit, DropsAreReported
  <1>6. Joined
    BY DEF RelayInit, Joined, NoGap
  <1> QED
    BY <1>2, <1>4, <1>5, <1>6 DEF RelayInv

\* What FanOut does for an event the tab wants.
LEMMA FanOutParts ==
    ASSUME RelayTypeOK, FanOut
    PROVE  LET e == events_seen + 1 IN
           /\ e \in 1..MaxEvents /\ events_seen' = e /\ e \notin mine
           /\ UNCHANGED <<connected, tabVars>>
           /\ \/ UNCHANGED <<mine, queue, dropped, missed>>
              \/ /\ mine' = mine \cup {e} /\ ~Subscribed
                 /\ UNCHANGED <<queue, dropped, missed>>
              \/ /\ mine' = mine \cup {e} /\ Len(queue) < CLIENT_QUEUE_SIZE
                 /\ queue' = Append(queue, e) /\ Subscribed
                 /\ UNCHANGED <<dropped, missed>>
              \/ /\ mine' = mine \cup {e} /\ dropped' = dropped + 1
                 /\ missed' = missed \cup {e} /\ Subscribed
                 /\ UNCHANGED queue
  BY RelayAssumption DEF FanOut, RelayTypeOK

LEMMA RelayStep == RelayInv /\ [RelayNext]_relayVars => RelayInv'
  <1> SUFFICES ASSUME RelayInv, [RelayNext]_relayVars PROVE RelayInv'
    OBVIOUS
  <1> USE RelayAssumption DEF RelayInv
  <1>0. /\ queue \in Seq(1..MaxEvents) /\ queue \in Seq(Nat) /\ Len(queue) \in Nat
        /\ IsFiniteSet(missed) /\ Cardinality(missed) \in Nat
        /\ mine \subseteq Nat
    <2>1. IsFiniteSet(1..events_seen)
      BY FS_Interval DEF RelayTypeOK
    <2>2. missed \subseteq 1..events_seen
      BY DEF RelayTypeOK
    <2>3. IsFiniteSet(missed)
      BY <2>1, <2>2, FS_Subset
    <2> QED
      BY <2>3, FS_CardinalityType, LenProperties DEF RelayTypeOK
  <1>1. CASE FanOut
    <2> DEFINE e == events_seen + 1
    <2>0. /\ e \in 1..MaxEvents /\ events_seen' = e /\ e \notin mine
          /\ UNCHANGED <<connected, tabVars>>
      BY <1>1, FanOutParts
    <2>1. CASE UNCHANGED <<mine, queue, dropped, missed>>
      BY <2>0, <2>1 DEF RelayTypeOK, Holdings, Queued, DropsAreReported, tabVars
    <2>2. CASE /\ mine' = mine \cup {e} /\ ~Subscribed
               /\ UNCHANGED <<queue, dropped, missed>>
      BY <2>0, <2>2 DEF RelayTypeOK, Holdings, Queued, DropsAreReported, tabVars
    <2>3. CASE /\ mine' = mine \cup {e} /\ Len(queue) < CLIENT_QUEUE_SIZE
               /\ queue' = Append(queue, e) /\ Subscribed
               /\ UNCHANGED <<dropped, missed>>
      <3>1. Queued' = Queued \cup {e}
        <4>1. e \in Nat
          BY <2>0
        <4> HIDE DEF e
        <4> QED
          BY <1>0, <2>3, <4>1, QueueAppend DEF Queued
      <3>2. queue' \in Seq(1..MaxEvents) /\ Len(queue') = Len(queue) + 1
        BY <1>0, <2>0, <2>3, AppendProperties
      <3>3. RelayTypeOK'
        BY <1>0, <2>0, <2>3, <3>2 DEF RelayTypeOK, tabVars
      <3>4. Holdings'
        BY <2>0, <2>3, <3>1 DEF RelayTypeOK, Holdings, tabVars, Subscribed
      <3>5. DropsAreReported'
        BY <2>0, <2>3 DEF DropsAreReported, tabVars
      <3> QED
        BY <3>3, <3>4, <3>5
    <2>4. CASE /\ mine' = mine \cup {e} /\ dropped' = dropped + 1
               /\ missed' = missed \cup {e} /\ Subscribed
               /\ UNCHANGED queue
      <3>1. Cardinality(missed') = Cardinality(missed) + 1
        <4>1. e \notin missed
          BY <2>0 DEF RelayTypeOK
        <4> HIDE DEF e
        <4> QED
          BY <1>0, <2>4, <4>1, FS_AddElement
      <3>2. RelayTypeOK'
        BY <2>0, <2>4 DEF RelayTypeOK, tabVars
      <3>3. Holdings'
        BY <2>0, <2>4 DEF RelayTypeOK, Holdings, Queued, tabVars, Subscribed
      <3>4. DropsAreReported'
        BY <1>0, <2>0, <2>4, <3>1 DEF RelayTypeOK, DropsAreReported, tabVars
      <3> QED
        BY <3>2, <3>3, <3>4
    <2> QED
      BY <1>1, <2>1, <2>2, <2>3, <2>4, FanOutParts
  <1>2. CASE PumpConnects
    BY <1>2 DEF PumpConnects, RelayTypeOK, Holdings, Queued, DropsAreReported,
                tabVars
  <1>3. CASE Add
    BY <1>3 DEF Add, RelayTypeOK, Holdings, Queued, DropsAreReported, Phases
  <1>4. CASE SendHello
    <2>1. replay \subseteq mine
      BY DEF replay
    <2> QED
      BY <1>4, <2>1 DEF SendHello, RelayTypeOK, Holdings, Queued,
                        DropsAreReported, Phases
  <1>5. CASE SendReplayed
    <2>1. toReplay # {} => Min(toReplay) \in toReplay
      BY <1>0, MinIsMember DEF RelayTypeOK
    <2>2. /\ toReplay' \subseteq toReplay /\ shown' \subseteq shown \cup toReplay
          /\ phase = "replay" /\ phase' \in {"replay", "live"}
          /\ UNCHANGED <<connected, events_seen, mine, queue, dropped, inHand,
                         reported, missed, erased>>
      BY <1>5, <2>1 DEF SendReplayed
    <2> QED
      BY <2>2 DEF RelayTypeOK, Holdings, Queued, DropsAreReported, Phases
  <1>6. CASE TakeLive
    <2>1. Head(queue) \in Queued /\ Queued' \subseteq Queued
      BY <1>0, <1>6, QueueTail DEF TakeLive, Queued
    <2>2. queue' \in Seq(1..MaxEvents) /\ Len(queue') = Len(queue) - 1
      BY <1>0, <1>6, HeadTailProperties DEF TakeLive
    <2> QED
      BY <1>0, <1>6, <2>1, <2>2 DEF TakeLive, RelayTypeOK, Holdings,
                                    DropsAreReported, Phases
  <1>7. CASE SendLive
    BY <1>7 DEF SendLive, RelayTypeOK, Holdings, Queued, DropsAreReported, Phases
  <1>8. CASE SendDropped
    BY <1>0, <1>8 DEF SendDropped, RelayTypeOK, Holdings, Queued,
                      DropsAreReported, Phases
  <1>9. CASE Disconnect
    BY <1>9 DEF Disconnect, Subscribed, RelayTypeOK, Holdings, Queued,
                DropsAreReported, Phases
  <1>10. CASE UNCHANGED relayVars
    BY <1>10 DEF relayVars, RelayTypeOK, Holdings, Queued, DropsAreReported
  <1> QED
    BY <1>1, <1>2, <1>3, <1>4, <1>5, <1>6, <1>7, <1>8, <1>9, <1>10 DEF RelayNext

\* The relay's state and the tab's have the shape the code gives them.
THEOREM RelayTypeCorrect == RelaySpec => []RelayTypeOK
  <1>1. RelayInv => RelayTypeOK
    BY DEF RelayInv
  <1> QED
    BY <1>1, RelayInitially, RelayStep, PTL DEF RelaySpec

\* Every event that finds the tab's queue full is counted, reported, or wiped
\* out by the reset that follows a report, and a report never tells of more
\* drops than were counted: for every queue size and every length of stream.
THEOREM DropsAlwaysReported == RelaySpec => []DropsAreReported
  <1>1. RelayInv => DropsAreReported
    BY DEF RelayInv
  <1> QED
    BY <1>1, RelayInitially, RelayStep, PTL DEF RelaySpec

-----------------------------------------------------------------------------
LEMMA JoinedStep == RelayInv /\ Joined /\ [RelayNext]_relayVars => Joined'
  <1> SUFFICES ASSUME RelayInv, Joined, [RelayNext]_relayVars, phase' # "gone"
               PROVE  NoGap(Accounted)'
    BY DEF Joined
  <1> USE RelayAssumption
  <1> DEFINE Hand == IF phase = "sending" THEN {inHand} ELSE {}
  <1>0. /\ RelayTypeOK /\ Holdings
        /\ queue \in Seq(Nat) /\ mine \subseteq Nat /\ events_seen \in Nat
        /\ mine \subseteq 1..events_seen
        /\ Accounted = shown \cup toReplay \cup Queued \cup missed \cup Hand
    BY DEF RelayInv, RelayTypeOK, Accounted, Queued
  <1>1. phase # "gone" => NoGap(Accounted)
    BY DEF Joined
  <1>2. phase # "gone" \/ UNCHANGED relayVars \/ PumpConnects \/ FanOut
    BY DEF RelayNext, Add, SendHello, SendReplayed, TakeLive, SendLive,
           SendDropped, Disconnect, Subscribed
  <1>3. ASSUME Accounted' = Accounted, mine' = mine, phase # "gone"
        PROVE  NoGap(Accounted)'
    BY <1>1, <1>3 DEF NoGap
  <1>4. CASE FanOut
    <2> DEFINE e == events_seen + 1
    <2>0. /\ events_seen' = e /\ e \notin mine /\ e \in Nat
          /\ UNCHANGED <<connected, tabVars>>
          /\ \A f \in mine : f < e
      BY <1>0, <1>4, FanOutParts
    <2>1. phase # "gone" /\ Hand' = Hand
      BY <2>0 DEF tabVars
    <2>2. CASE UNCHANGED <<mine, queue, dropped, missed>>
      <3>1. Accounted' = Accounted
        BY <2>0, <2>2 DEF tabVars, Accounted
      <3> QED
        BY <1>3, <2>1, <2>2, <3>1
    <2>3. CASE /\ mine' = mine \cup {e} /\ ~Subscribed
               /\ UNCHANGED <<queue, dropped, missed>>
      <3>1. phase = "none" /\ queue = <<>>
        BY <1>0, <2>1, <2>3 DEF Subscribed, RelayTypeOK, Holdings
      <3>2. Queued = {} /\ Queued' = {}
        BY <2>3, <3>1 DEF Queued
      <3>3. Accounted' = {}
        BY <1>0, <2>0, <2>3, <3>1, <3>2 DEF Accounted, Queued, Holdings, tabVars
      <3> QED
        BY <3>3 DEF NoGap
    <2>4. ASSUME mine' = mine \cup {e}, Accounted' = Accounted \cup {e}
          PROVE  NoGap(Accounted)'
      BY <1>0, <1>1, <2>0, <2>1, <2>4 DEF NoGap
    <2>5. ASSUME queue' = Append(queue, e), UNCHANGED missed
          PROVE  Accounted' = Accounted \cup {e}
      <3>1. Queued' = Queued \cup {e}
        BY <1>0, <2>0, <2>5, QueueAppend DEF Queued
      <3> QED
        BY <1>0, <2>0, <2>5, <3>1 DEF Accounted, Queued, tabVars
    <2>6. ASSUME missed' = missed \cup {e}, UNCHANGED queue
          PROVE  Accounted' = Accounted \cup {e}
      BY <2>0, <2>6 DEF Accounted, tabVars
    <2> QED
      BY <1>0, <1>4, <2>2, <2>3, <2>4, <2>5, <2>6, FanOutParts
  <1>5. CASE SendHello
    <2>1. /\ phase = "hello" /\ phase' = "replay" /\ toReplay' = replay
          /\ UNCHANGED <<events_seen, mine, queue, shown, missed>>
      BY <1>5 DEF SendHello
    <2>2. NoGap(Accounted) /\ Accounted' = Accounted \cup replay
      BY <1>0, <1>1, <2>1 DEF Accounted, Queued, Holdings
    <2>3. NoGap(replay)
      BY <1>0 DEF NoGap, replay, _recent
    <2> QED
      BY <2>1, <2>2, <2>3 DEF NoGap
  <1>6. CASE SendReplayed
    <2>1. toReplay # {} => Min(toReplay) \in toReplay
      BY <1>0, MinIsMember DEF RelayTypeOK
    <2>2. Accounted' = Accounted
      BY <1>6, <2>1 DEF SendReplayed, Accounted
    <2> QED
      BY <1>3, <1>6, <2>2 DEF SendReplayed
  <1>7. CASE TakeLive
    <2>1. Queued = Queued' \cup {inHand'}
      BY <1>0, <1>7, QueueTail DEF TakeLive, Queued
    <2>2. Accounted' = shown' \cup toReplay' \cup Queued' \cup missed' \cup {inHand'}
      BY <1>7 DEF TakeLive, Accounted, Queued
    <2>3. Accounted' = Accounted
      BY <1>0, <1>7, <2>1, <2>2 DEF TakeLive
    <2> QED
      BY <1>3, <1>7, <2>3 DEF TakeLive
  <1>8. CASE SendLive
    <2>1. Accounted' = Accounted
      BY <1>8 DEF SendLive, Accounted
    <2> QED
      BY <1>3, <1>8, <2>1 DEF SendLive
  <1>9. CASE Add \/ SendDropped
    <2>1. Accounted' = Accounted
      BY <1>9 DEF Add, SendDropped, Accounted
    <2> QED
      BY <1>3, <1>9, <2>1 DEF Add, SendDropped
  <1>10. CASE PumpConnects \/ UNCHANGED relayVars
    <2>1. Accounted' = Accounted /\ mine' = mine /\ phase' = phase
      BY <1>10 DEF PumpConnects, relayVars, tabVars, Accounted
    <2> QED
      BY <1>3, <2>1
  <1> QED
    BY <1>4, <1>5, <1>6, <1>7, <1>8, <1>9, <1>10 DEF RelayNext, Disconnect

\* A late tab sees the stream without a gap from the first event it is shown,
\* although hub.add comes before the hello and the replay buffer is read, and
\* trimmed, while events keep coming: whatever the sizes of buffer and queue.
THEOREM JoinsWithoutAGap == RelaySpec => []NoGapAtJoin
  <1>1. RelayInv /\ Joined => NoGapAtJoin
    BY DEF Joined, NoGap, NoGapAtJoin
  <1> QED
    BY <1>1, RelayInitially, RelayStep, JoinedStep, PTL DEF RelaySpec
=============================================================================
