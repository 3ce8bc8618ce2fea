--------------------------- MODULE AgentRunProofs ---------------------------
(***************************************************************************)
(* Agent runs for any number of runs, taps, carts, windows and resets.     *)
(*                                                                         *)
(* Nothing locks a run, so none of the properties is inductive.  That a    *)
(* cart is charged once per window rests on what guards a fingerprint: a   *)
(* call between verdict and reservation holds its lock, one holder per     *)
(* fingerprint, and a charge holds its slot or belongs to a call that      *)
(* still does (WindowInv).  The other two need the order in which the      *)
(* threads of a run can meet (FlowInv): the run is listed only when the    *)
(* thread that started it is done, a tap pays only at the graph's          *)
(* interrupt, and two payments under way at a time are a crowd.  On top    *)
(* of it, what is granted comes from the run's own cart (OneCart), and     *)
(* a charge is with the gateway, or the ALLOW or the fail-closed BLOCK     *)
(* that followed it is on its way to the run or is what the run shows      *)
(* (ChargesHeard).                                                         *)
(***************************************************************************)
EXTENDS AgentRun, TLAPS

-----------------------------------------------------------------------------
(***************************************************************************)
(* The inductive invariants.                                               *)
(***************************************************************************)
\* The values of the transcript's decisions, the threads and the runs.
Decisions == {"none", "ALLOW", "BLOCK", "REQUIRE_APPROVAL", "ERROR"}

Decision == [decision : Decisions, cart : Carts \cup {NoCart}, failClosed : BOOLEAN]

ThreadType ==
    [pc : {"new", "crew", "sent", "answered", "read", "checked", "granted",
           "done", "failed"},
     run : Runs \cup {NoCart}, cart : Carts \cup {NoCart},
     token : Carts \cup {NoCart}, by : {"none", "crew", "graph"},
     reply : Decision]

RunType == [status : {"none", "awaiting_approval", "completed", "blocked"},
            decision : Decisions, request : Carts \cup {NoCart},
            failClosed : BOOLEAN]

HandlingType == [at : {"none", "sent", "charging", "charged", "over"},
                 held : BOOLEAN, window : 0..MaxBucket, epoch : 0..MaxResets]

Typed ==
    /\ thread \in [Threads -> ThreadType]
    /\ handling \in [Threads -> HandlingType]
    /\ run \in [Runs -> RunType]
    /\ first \in [Runs -> Carts \cup {NoCart}]
    /\ last \in [Runs -> Decision]
    /\ listed \subseteq Runs /\ paused \subseteq Runs /\ pending \subseteq Carts
    /\ bucket \in 0..MaxBucket /\ resets \in 0..MaxResets
    /\ unheard \subseteq Runs /\ crowded \subseteq Runs

\* The gateway works for a thread, or keeps a lock of it.
Busy(x) == handling[x].at \in {"sent", "charging", "charged"} \/ handling[x].held

\* A thread that is past its start belongs to a run, and one the gateway works
\* for waits for the answer or has given up.
Placed ==
    /\ \A n \in Runs : thread[n].run = n
    /\ \A x \in Threads : thread[x].pc \notin {"new", "done", "failed"} =>
          thread[x].run \in Runs
    /\ \A x \in Taps : thread[x].pc # "crew" /\ thread[x].by # "crew"
    /\ \A x \in Threads : Busy(x) =>
          /\ thread[x].run \in Runs /\ thread[x].cart \in Carts
          /\ thread[x].pc = "sent" \/ (thread[x].pc = "failed" /\ thread[x].run \in unheard)
    /\ \A x \in Threads : thread[x].pc = "sent" => thread[x].cart \in Carts

\* A call between its verdict and the reservation of its fingerprint.
Paying(x) == handling[x].at \in {"charging", "charged"}

\* A call that never left its fingerprint unguarded, and a charge of such a call.
Tight(x) == ThisCall(x) \notin loose

TightCharge(c) == <<c.by, c.tool>> \notin loose

\* It holds the lock, as the only call for that fingerprint,
Guarded == \A x \in Threads : Paying(x) /\ Tight(x) => handling[x].held

OneHolder ==
    \A x, y \in Threads :
        /\ handling[x].held /\ handling[y].held
        /\ thread[x].cart = thread[y].cart /\ handling[x].window = handling[y].window
        => x = y

\* and nothing was charged for the fingerprint when it is about to charge.
Fresh ==
    \A x \in Threads, c \in charges :
        /\ handling[x].at = "charging" /\ Tight(x) /\ TightCharge(c)
        /\ c.cart = thread[x].cart /\ c.bucket = handling[x].window
        => c.resets # handling[x].epoch

\* A charge whose fingerprint is still to be reserved.
ToReserve(c) ==
    /\ c.by \in Threads /\ handling[c.by].at = "charged"
    /\ thread[c.by].by = c.tool /\ thread[c.by].cart = c.cart
    /\ handling[c.by].window = c.bucket

\* The charges of this reset hold their fingerprints, or their calls will.
SlotsHeld ==
    \A c \in charges :
        /\ c.resets \in Nat /\ c.resets <= resets
        /\ c.resets = resets /\ TightCharge(c) =>
              <<c.cart, c.bucket>> \in slot \/ ToReserve(c)

\* The resets before a check are not more than those now.
Past == \A x \in Threads : handling[x].epoch <= resets

WindowInv == /\ Guarded /\ OneHolder /\ Fresh /\ SlotsHeld /\ Past
             /\ OneChargePerWindow

\* A thread with a payment under way.
Active == {"sent", "answered", "read"}

\* A run is shown, waits or is approved only when the thread that started it is
\* done, after a payment call of that thread.
StoredLast(n) ==
    /\ n \in listed \/ n \in paused => thread[n].pc = "done"
    /\ thread[n].pc # "done" => run[n].decision = "none"
    /\ n \in listed \/ n \in paused \/ thread[n].pc \in Active =>
          thread[n].by # "none"
    /\ n \in paused => run[n].decision = "REQUIRE_APPROVAL"
    /\ first[n] # NoCart => thread[n].by # "none"

Stored == \A n \in Runs : StoredLast(n)

\* A tap that was let in follows a thread that is done, and pays only while the
\* graph is paused, unless another payment of the run is under way.
Waiting == {"checked", "granted"} \cup Active

FollowsRun(a) ==
    /\ thread[a].pc = "new" => thread[a].token = NoCart
    /\ thread[a].pc \in Waiting =>
          /\ thread[a].run \in Runs
          /\ thread[thread[a].run].pc = "done"
          /\ thread[thread[a].run].by # "none"
    /\ thread[a].pc \in Active => thread[a].by = "graph"
    /\ thread[a].pc \in Active /\ thread[a].run \notin crowded =>
          thread[a].run \in paused

Tapped == \A a \in Taps : FollowsRun(a)

\* The carts of a run whose first payment call, if any, was for its own cart.
OwnCart(n, c) == first[n] \in {NoCart, CartOf[n]} => c \in {NoCart, CartOf[n]}

ThreadsCart(x) ==
    /\ thread[x].token # NoCart => thread[x].run \in Runs
    /\ OwnCart(thread[x].run, thread[x].token)
    /\ thread[x].pc = "sent" => OwnCart(thread[x].run, thread[x].cart)
    /\ thread[x].pc = "answered" => OwnCart(thread[x].run, thread[x].reply.cart)

RunsCart(n) == OwnCart(n, last[n].cart) /\ OwnCart(n, run[n].request)

OneCart == (\A x \in Threads : ThreadsCart(x)) /\ (\A n \in Runs : RunsCart(n))

\* Without a crowd, the payments of a run come one after the other.
OneAtATime ==
    \A x, y \in Threads :
        /\ thread[x].pc \in Active /\ thread[y].pc \in Active
        /\ thread[x].run = thread[y].run /\ thread[x].run \notin crowded
        => x = y

\* A decision, or what a run shows of one, that does not deny a charge.
Tells(d) == d.decision = "ALLOW" \/ (d.decision = "BLOCK" /\ d.failClosed)

\* The money a run moved is with the gateway that is about to answer, or died,
\* or in the answer on its way to the transcript, or in the transcript about to
\* be read, or in what the run shows.
Heard(n) ==
    \/ \E x \in Threads : /\ thread[x].run = n /\ thread[x].pc = "sent"
                          /\ thread[x].by = "graph"
                          /\ handling[x].at \in {"charged", "over"}
    \/ \E x \in Threads : /\ thread[x].run = n /\ thread[x].pc = "answered"
                          /\ thread[x].by = "graph" /\ Tells(thread[x].reply)
    \/ \E x \in Threads : /\ thread[x].run = n /\ thread[x].pc = "read"
                          /\ Tells(last[n])
    \/ thread[n].pc = "done" /\ n \notin paused /\ Tells(run[n])

ChargesHeard ==
    \A n \in Runs \ (unheard \cup crowded) :
        ~CrewPaid(n) /\ (\E c \in charges : c.run = n) => Heard(n)

-----------------------------------------------------------------------------
(***************************************************************************)
(* What a step makes of the thread that takes it.                          *)
(***************************************************************************)
Becomes(x, pc, r, cart, token, by, reply) ==
    /\ thread' \in [Threads -> ThreadType]
    /\ thread'[x].pc = pc /\ thread'[x].run = r /\ thread'[x].cart = cart
    /\ thread'[x].token = token /\ thread'[x].by = by /\ thread'[x].reply = reply
    /\ \A y \in Threads \ {x} : thread'[y] = thread[y]

\* Only the label changes.
Goes(x, pc) == Becomes(x, pc, thread[x].run, thread[x].cart, thread[x].token,
                       thread[x].by, thread[x].reply)

\* The labels of a thread.
PCs == {"new", "crew", "sent", "answered", "read", "checked", "granted", "done",
        "failed"}

LEMMA StepGoes ==
    ASSUME thread \in [Threads -> ThreadType], NEW x \in Threads,
           NEW label \in PCs, Step(x, label)
    PROVE  Goes(x, label)
  <1>1. thread[x] \in ThreadType
    OBVIOUS
  <1>2. thread' = [thread EXCEPT ![x] = [thread[x] EXCEPT !.pc = label]]
    BY DEF Step
  <1>3. [thread[x] EXCEPT !.pc = label] \in ThreadType
    BY <1>1 DEF ThreadType, PCs
  <1> QED
    BY <1>1, <1>2, <1>3 DEF Goes, Becomes, ThreadType

LEMMA CallBecomes ==
    ASSUME thread \in [Threads -> ThreadType], NEW x \in Threads,
           NEW cart \in Carts, NEW token \in Carts \cup {NoCart},
           NEW by \in {"crew", "graph"}, CallTool(x, cart, token, by)
    PROVE  Becomes(x, "sent", thread[x].run, cart, token, by, thread[x].reply)
  <1> DEFINE new == [thread[x] EXCEPT !.pc = "sent", !.cart = cart,
                                      !.token = token, !.by = by]
  <1>1. thread[x] \in ThreadType
    OBVIOUS
  <1>2. new \in ThreadType
    BY <1>1 DEF ThreadType
  <1>3. /\ new.pc = "sent" /\ new.cart = cart /\ new.token = token /\ new.by = by
        /\ new.run = thread[x].run /\ new.reply = thread[x].reply
    BY <1>1 DEF ThreadType
  <1>4. /\ thread'[x] = new
        /\ thread' = [y \in Threads |-> thread'[y]]
        /\ \A y \in Threads \ {x} : thread'[y] = thread[y]
    BY DEF CallTool
  <1> HIDE DEF new
  <1>5. thread' \in [Threads -> ThreadType]
    BY <1>2, <1>4
  <1> QED
    BY <1>3, <1>4, <1>5 DEF Becomes

\* What the gateway's side of a thread becomes.
Handles(x, at, held, window, epoch) ==
    /\ handling' \in [Threads -> HandlingType]
    /\ handling'[x].at = at /\ handling'[x].held = held
    /\ handling'[x].window = window /\ handling'[x].epoch = epoch
    /\ \A y \in Threads \ {x} : handling'[y] = handling[y]

LEMMA HandlesNew ==
    ASSUME handling \in [Threads -> HandlingType], NEW x \in Threads,
           NEW new \in HandlingType, handling' = [handling EXCEPT ![x] = new]
    PROVE  Handles(x, new.at, new.held, new.window, new.epoch)
  BY DEF Handles

LEMMA NoCallTyped == /\ NoCall \in HandlingType /\ NoCall.at = "none"
                     /\ NoCall.held = FALSE /\ NoCall.window = 0 /\ NoCall.epoch = 0
  BY AgentAssumption DEF NoCall, HandlingType

LEMMA CallHandles ==
    ASSUME Typed, NEW x \in Threads, NEW cart, NEW token, NEW by,
           CallTool(x, cart, token, by)
    PROVE  Handles(x, "sent", FALSE, bucket, 0)
  <1> DEFINE new == [NoCall EXCEPT !.at = "sent", !.window = bucket]
  <1>1. /\ new \in HandlingType /\ new.at = "sent" /\ new.held = FALSE
        /\ new.window = bucket /\ new.epoch = 0
    <2>1. bucket \in 0..MaxBucket /\ 0 \in 0..MaxResets
      BY AgentAssumption DEF Typed
    <2> QED
      BY <2>1, NoCallTyped DEF HandlingType
  <1>2. handling' = [handling EXCEPT ![x] = new]
    BY DEF CallTool
  <1> HIDE DEF new
  <1> QED
    BY <1>1, <1>2, HandlesNew DEF Typed

\* An answer of the gateway.
Answers(x, reply) ==
    Becomes(x, "answered", thread[x].run, thread[x].cart, thread[x].token,
            thread[x].by, reply)

LEMMA ReplyBecomes ==
    ASSUME thread \in [Threads -> ThreadType], NEW x \in Threads,
           NEW reply \in Decision, Reply(x, reply)
    PROVE  IF thread[x].pc = "sent" THEN Answers(x, reply) ELSE thread' = thread
  <1> DEFINE me == thread[x]
             new == [me EXCEPT !.pc = "answered", !.reply = reply]
  <1>1. CASE thread[x].pc # "sent"
    BY <1>1 DEF Reply
  <1>2. CASE thread[x].pc = "sent"
    <2>0. me \in ThreadType
      OBVIOUS
    <2>1. new \in ThreadType
      BY <2>0 DEF ThreadType
    <2>2. /\ new.pc = "answered" /\ new.cart = me.cart /\ new.token = me.token
          /\ new.by = me.by /\ new.run = me.run /\ new.reply = reply
      BY <2>0 DEF ThreadType
    <2>3. /\ thread'[x] = new
          /\ thread' = [y \in Threads |-> thread'[y]]
          /\ \A y \in Threads \ {x} : thread'[y] = thread[y]
      BY <1>2 DEF Reply
    <2> HIDE DEF new
    <2>4. thread' \in [Threads -> ThreadType]
      BY <2>1, <2>3
    <2>5. Answers(x, reply)
      BY <2>2, <2>3, <2>4 DEF Becomes, Answers
    <2> QED
      BY <1>2, <2>5
  <1> QED
    BY <1>1, <1>2

LEMMA EndsHandles ==
    ASSUME Typed, NEW x \in Threads, Ends(x)
    PROVE  Handles(x, "over", FALSE, 0, 0)
  <1> DEFINE new == [NoCall EXCEPT !.at = "over"]
  <1>1. /\ new \in HandlingType /\ new.at = "over" /\ new.held = FALSE
        /\ new.window = 0 /\ new.epoch = 0
    <2>1. 0 \in 0..MaxBucket /\ 0 \in 0..MaxResets
      BY AgentAssumption
    <2> QED
      BY <2>1, NoCallTyped DEF HandlingType
  <1>2. handling' = [handling EXCEPT ![x] = new]
    BY DEF Ends
  <1> HIDE DEF new
  <1> QED
    BY <1>1, <1>2, HandlesNew DEF Typed

\* The gateway's steps.  Each answers with a decision about the thread's cart, or
\* leaves the thread alone.
Serves(x) == \/ TurnedAway(x) \/ Decide(x) \/ Submit(x) \/ Remember(x)
             \/ Raise(x) \/ Die(x) \/ Lapse(x)

LEMMA ReplyTypes ==
    ASSUME NEW c \in Carts
    PROVE  /\ FailClosed \in Decision /\ Undecided \in Decision
           /\ FailClosed.cart = NoCart /\ Undecided.cart = NoCart
           /\ Tells(FailClosed)
           /\ \A d \in {"ALLOW", "BLOCK", "REQUIRE_APPROVAL"} :
                 Stated(d, c) \in Decision /\ Stated(d, c).cart = c
           /\ Tells(Stated("ALLOW", c))
  BY DEF FailClosed, Undecided, Stated, NoDecision, Decision, Decisions, Tells

\* What a step of the gateway does to the thread,
Served(x) ==
    \/ thread' = thread
    \/ /\ thread[x].pc = "sent"
       /\ handling'[x].at = "over" /\ ~handling'[x].held
       /\ \E reply \in Decision :
             /\ reply.cart \in {NoCart, thread[x].cart} /\ Answers(x, reply)
             /\ handling[x].at = "charged" => Tells(reply)

\* to its own side, and to the fingerprints and the charges.
HandlesOver(x) ==
    /\ handling' \in [Threads -> HandlingType] /\ handling'[x].at = "over"
    /\ handling'[x].held =>
          handling[x].held /\ handling'[x].window = handling[x].window
    /\ handling'[x].epoch = 0
    /\ \A y \in Threads \ {x} : handling'[y] = handling[y]

Quits(x) ==
    /\ handling[x].at \in {"sent", "charging"} /\ HandlesOver(x)
    /\ UNCHANGED <<slot, charges, loose>>

Authorizes(x) ==
    /\ handling[x].at = "sent" /\ thread' = thread
    /\ \E w \in 0..MaxBucket :
          /\ ~Locked(x, <<thread[x].cart, w>>) /\ <<thread[x].cart, w>> \notin slot
          /\ Handles(x, "charging", TRUE, w, resets)
    /\ UNCHANGED <<slot, charges, loose>>

\* The charge of a call.
ChargeOf(x) == [run |-> thread[x].run, by |-> x, tool |-> thread[x].by,
                cart |-> thread[x].cart, bucket |-> handling[x].window,
                resets |-> handling[x].epoch]

Submits(x) ==
    /\ handling[x].at = "charging" /\ thread' = thread
    /\ Handles(x, "charged", handling[x].held, handling[x].window, handling[x].epoch)
    /\ charges' \in {charges, charges \cup {ChargeOf(x)}}
    /\ UNCHANGED <<slot, loose>>

Reserves(x) ==
    /\ handling[x].at = "charged" /\ HandlesOver(x)
    /\ slot' = slot \cup {<<thread[x].cart, handling[x].window>>}
    /\ UNCHANGED <<charges, loose>>

Leaves(x) ==
    /\ handling[x].at = "charged" /\ HandlesOver(x)
    /\ loose' = loose \cup {ThisCall(x)}
    /\ UNCHANGED <<slot, charges>>

Lapses(x) ==
    /\ handling[x].held /\ thread' = thread
    /\ Handles(x, handling[x].at, FALSE, handling[x].window, handling[x].epoch)
    /\ loose' = loose \cup {ThisCall(x)} \/ (loose' = loose /\ ~Paying(x))
    /\ UNCHANGED <<slot, charges>>

Outcome(x) == \/ Quits(x) \/ Authorizes(x) \/ Submits(x)
              \/ Reserves(x) \/ Leaves(x) \/ Lapses(x)

ServeFacts(x) ==
    /\ UNCHANGED <<clientVars, bucket, resets, modeAndHistory>>
    /\ pending' \subseteq pending \cup {thread[x].cart}
    /\ Busy(x) /\ Served(x) /\ Outcome(x)

LEMMA EndsOver ==
    ASSUME Typed, NEW x \in Threads, Ends(x)
    PROVE  HandlesOver(x) /\ ~handling'[x].held
  BY EndsHandles DEF Handles, HandlesOver

LEMMA Serving ==
    ASSUME Typed, Placed, NEW x \in Threads, Serves(x)
    PROVE  ServeFacts(x)
  <1> USE AgentAssumption
  <1> DEFINE me == thread[x]
             mine == handling[x]
  <1>0. /\ thread \in [Threads -> ThreadType] /\ me \in ThreadType
        /\ handling \in [Threads -> HandlingType] /\ mine \in HandlingType
    BY DEF Typed
  <1>1. Busy(x) /\ me.cart \in Carts
    BY DEF Serves, TurnedAway, Decide, Submit, Remember, Raise, Die, Lapse, Busy, Placed
  <1>2. ASSUME NEW reply \in Decision, reply.cart \in {NoCart, me.cart},
               Reply(x, reply), Ends(x), mine.at = "charged" => Tells(reply)
        PROVE  Served(x) /\ HandlesOver(x)
    <2>1. IF me.pc = "sent" THEN Answers(x, reply) ELSE thread' = thread
      BY <1>0, <1>2, ReplyBecomes
    <2>2. HandlesOver(x) /\ ~handling'[x].held
      BY <1>2, EndsOver
    <2>3. CASE me.pc = "sent"
      <3>1. Answers(x, reply)
        BY <2>1, <2>3
      <3> QED
        BY <1>2, <2>2, <2>3, <3>1 DEF Served, HandlesOver
    <2>4. CASE me.pc # "sent"
      BY <2>1, <2>2, <2>4 DEF Served
    <2> QED
      BY <2>3, <2>4
  <1>3. /\ FailClosed \in Decision /\ Undecided \in Decision
        /\ FailClosed.cart = NoCart /\ Undecided.cart = NoCart
        /\ Tells(FailClosed) /\ Tells(Stated("ALLOW", me.cart))
        /\ \A d \in {"ALLOW", "BLOCK", "REQUIRE_APPROVAL"} :
              Stated(d, me.cart) \in Decision /\ Stated(d, me.cart).cart = me.cart
    BY <1>1, ReplyTypes
  <1>4. CASE TurnedAway(x)
    <2>1. PICK reply \in {Undecided, Stated("BLOCK", me.cart)} : Reply(x, reply)
      BY <1>4 DEF TurnedAway
    <2>2. /\ mine.at = "sent" /\ Ends(x)
          /\ UNCHANGED <<clientVars, recordVars, modeAndHistory>>
      BY <1>4 DEF TurnedAway
    <2>3. Served(x) /\ HandlesOver(x)
      BY <1>2, <1>3, <2>1, <2>2
    <2> QED
      BY <1>1, <2>2, <2>3 DEF ServeFacts, Outcome, Quits, recordVars
  <1>5. CASE Decide(x)
    <2>0. /\ mine.at = "sent"
          /\ UNCHANGED <<clientVars, slot, bucket, charges, resets, loose, modeAndHistory>>
      BY <1>5 DEF Decide
    <2>1. PICK w \in mine.window..bucket :
              /\ ~Locked(x, <<me.cart, w>>)
              /\ \E d \in Verdict(me.cart, me.token, w) :
                    \/ /\ d = "ALLOW"
                       /\ handling' = [handling EXCEPT ![x] =
                             [at |-> "charging", held |-> TRUE, window |-> w,
                              epoch |-> resets]]
                       /\ UNCHANGED <<thread, pending>>
                    \/ /\ d # "ALLOW"
                       /\ \E reply \in {FailClosed, Stated(d, me.cart)} :
                             Reply(x, reply)
                       /\ Ends(x)
                       /\ pending' = IF d = "BLOCK" THEN pending
                                                    ELSE pending \cup {me.cart}
      BY <1>5 DEF Decide
    <2>2. w \in 0..MaxBucket /\ resets \in 0..MaxResets
      BY <1>0 DEF HandlingType, Typed
    <2>3. PICK d \in Verdict(me.cart, me.token, w) :
                    \/ /\ d = "ALLOW"
                       /\ handling' = [handling EXCEPT ![x] =
                             [at |-> "charging", held |-> TRUE, window |-> w,
                              epoch |-> resets]]
                       /\ UNCHANGED <<thread, pending>>
                    \/ /\ d # "ALLOW"
                       /\ \E reply \in {FailClosed, Stated(d, me.cart)} :
                             Reply(x, reply)
                       /\ Ends(x)
                       /\ pending' = IF d = "BLOCK" THEN pending
                                                    ELSE pending \cup {me.cart}
      BY <2>1
    <2>4. /\ d \in {"BLOCK", "REQUIRE_APPROVAL", "ALLOW"}
          /\ d = "ALLOW" => <<me.cart, w>> \notin slot
      BY <2>3 DEF Verdict
    <2>5. CASE d = "ALLOW"
      <3> DEFINE new == [at |-> "charging", held |-> TRUE, window |-> w, epoch |-> resets]
      <3>1. /\ new \in HandlingType /\ new.at = "charging" /\ new.held = TRUE
            /\ new.window = w /\ new.epoch = resets
        BY <2>2 DEF HandlingType
      <3>2. handling' = [handling EXCEPT ![x] = new] /\ thread' = thread /\ pending' = pending
        BY <2>3, <2>5
      <3> HIDE DEF new
      <3>3. Handles(x, "charging", TRUE, w, resets)
        BY <1>0, <3>1, <3>2, HandlesNew
      <3>4. Authorizes(x)
        BY <2>0, <2>1, <2>2, <2>4, <2>5, <3>2, <3>3 DEF Authorizes
      <3> QED
        BY <1>1, <2>0, <3>2, <3>4 DEF ServeFacts, Outcome, Served
    <2>6. CASE d # "ALLOW"
      <3>1. PICK reply \in {FailClosed, Stated(d, me.cart)} : Reply(x, reply)
        BY <2>3, <2>6
      <3>2. Ends(x) /\ pending' \subseteq pending \cup {me.cart}
        BY <2>3, <2>6
      <3>3. reply \in Decision /\ reply.cart \in {NoCart, me.cart}
        BY <1>3, <2>4, <3>1
      <3>4. Served(x) /\ HandlesOver(x)
        BY <1>2, <2>0, <3>1, <3>2, <3>3
      <3> QED
        BY <1>1, <2>0, <3>2, <3>4 DEF ServeFacts, Outcome, Quits
    <2> QED
      BY <2>5, <2>6
  <1>6. CASE Submit(x)
    <2>1. /\ mine.at = "charging" /\ thread' = thread
          /\ handling' = [handling EXCEPT ![x] = [@ EXCEPT !.at = "charged"]]
          /\ charges' \in {charges, charges \cup {ChargeOf(x)}}
          /\ UNCHANGED <<clientVars, slot, bucket, pending, resets, loose, modeAndHistory>>
      BY <1>6 DEF Submit, ChargeOf
    <2>2. Handles(x, "charged", mine.held, mine.window, mine.epoch)
      <3> DEFINE new == [mine EXCEPT !.at = "charged"]
      <3>1. /\ new \in HandlingType /\ new.at = "charged" /\ new.held = mine.held
            /\ new.window = mine.window /\ new.epoch = mine.epoch
        BY <1>0 DEF HandlingType
      <3>2. handling' = [handling EXCEPT ![x] = new]
        BY <2>1
      <3> HIDE DEF new
      <3> QED
        BY <1>0, <3>1, <3>2, HandlesNew
    <2> QED
      BY <1>1, <2>1, <2>2 DEF ServeFacts, Outcome, Submits, Served
  <1>7. CASE Remember(x)
    <2>1. /\ mine.at = "charged" /\ Ends(x) /\ Reply(x, Stated("ALLOW", me.cart))
          /\ slot' = slot \cup {<<me.cart, mine.window>>}
          /\ UNCHANGED <<clientVars, bucket, pending, charges, resets, loose, modeAndHistory>>
      BY <1>7 DEF Remember
    <2>2. Served(x) /\ HandlesOver(x)
      BY <1>2, <1>3, <2>1
    <2> QED
      BY <1>1, <2>1, <2>2 DEF ServeFacts, Outcome, Reserves
  <1>8. CASE Raise(x)
    <2>1. /\ mine.at \in {"sent", "charging", "charged"} /\ Ends(x) /\ Reply(x, FailClosed)
          /\ UNCHANGED <<clientVars, bucket, pending, charges, resets, modeAndHistory>>
      BY <1>8 DEF Raise
    <2>2. Served(x) /\ HandlesOver(x)
      BY <1>2, <1>3, <2>1
    <2>3. \/ mine.at \in {"sent", "charging"} /\ UNCHANGED <<slot, loose>>
          \/ /\ mine.at = "charged" /\ UNCHANGED loose
             /\ slot' = slot \cup {<<me.cart, mine.window>>}
          \/ /\ mine.at = "charged" /\ UNCHANGED slot
             /\ loose' = loose \cup {ThisCall(x)}
      BY <1>8 DEF Raise
    <2> QED
      BY <1>1, <2>1, <2>2, <2>3 DEF ServeFacts, Outcome, Quits, Reserves, Leaves
  <1>9. CASE Die(x)
    <2>1. /\ mine.at \in {"sent", "charging", "charged"} /\ thread' = thread
          /\ handling' = [handling EXCEPT ![x] = [@ EXCEPT !.at = "over", !.epoch = 0]]
          /\ loose' = IF mine.at = "charged" THEN loose \cup {ThisCall(x)} ELSE loose
          /\ UNCHANGED <<clientVars, slot, bucket, pending, charges, resets, modeAndHistory>>
      BY <1>9 DEF Die
    <2>2. Handles(x, "over", mine.held, mine.window, 0)
      <3> DEFINE new == [mine EXCEPT !.at = "over", !.epoch = 0]
      <3>0. 0 \in 0..MaxResets
        OBVIOUS
      <3>1. /\ new \in HandlingType /\ new.at = "over" /\ new.held = mine.held
            /\ new.window = mine.window /\ new.epoch = 0
        BY <1>0, <3>0 DEF HandlingType
      <3>2. handling' = [handling EXCEPT ![x] = new]
        BY <2>1
      <3> HIDE DEF new
      <3> QED
        BY <1>0, <3>1, <3>2, HandlesNew
    <2>3. HandlesOver(x)
      BY <2>2 DEF Handles, HandlesOver
    <2>4. Outcome(x)
      BY <2>1, <2>3 DEF Outcome, Quits, Leaves
    <2> QED
      BY <1>1, <2>1, <2>4 DEF ServeFacts, Served
  <1>10. CASE Lapse(x)
    <2>1. /\ mine.held /\ thread' = thread
          /\ handling' = [handling EXCEPT ![x] = [@ EXCEPT !.held = FALSE]]
          /\ loose' = IF mine.at = "over" THEN loose ELSE loose \cup {ThisCall(x)}
          /\ UNCHANGED <<clientVars, slot, bucket, pending, charges, resets, modeAndHistory>>
      BY <1>10 DEF Lapse
    <2>2. Handles(x, mine.at, FALSE, mine.window, mine.epoch)
      <3> DEFINE new == [mine EXCEPT !.held = FALSE]
      <3>1. /\ new \in HandlingType /\ new.at = mine.at /\ new.held = FALSE
            /\ new.window = mine.window /\ new.epoch = mine.epoch
        BY <1>0 DEF HandlingType
      <3>2. handling' = [handling EXCEPT ![x] = new]
        BY <2>1
      <3> HIDE DEF new
      <3> QED
        BY <1>0, <3>1, <3>2, HandlesNew
    <2>3. Lapses(x)
      BY <2>1, <2>2 DEF Lapses, Paying
    <2> QED
      BY <1>1, <2>1, <2>3 DEF ServeFacts, Outcome, Served
  <1> QED
    BY <1>4, <1>5, <1>6, <1>7, <1>8, <1>9, <1>10 DEF Serves

LEMMA ReceiveBecomes ==
    ASSUME Typed, NEW x \in Threads, Receive(x)
    PROVE  Becomes(x, IF thread[x].by = "crew" THEN "crew" ELSE "read",
                   thread[x].run, thread[x].cart, thread[x].token, thread[x].by,
                   NoDecision)
  <1> DEFINE new == [thread[x] EXCEPT !.reply = NoDecision,
                        !.pc = IF thread[x].by = "crew" THEN "crew" ELSE "read"]
  <1>1. thread \in [Threads -> ThreadType] /\ thread[x] \in ThreadType
    BY DEF Typed
  <1>2. new \in ThreadType
    BY <1>1 DEF ThreadType, NoDecision, Decision, Decisions
  <1>3. /\ new.pc = (IF thread[x].by = "crew" THEN "crew" ELSE "read")
        /\ new.cart = thread[x].cart /\ new.token = thread[x].token
        /\ new.by = thread[x].by /\ new.run = thread[x].run
        /\ new.reply = NoDecision
    BY <1>1 DEF ThreadType
  <1>4. /\ thread'[x] = new
        /\ thread' = [y \in Threads |-> thread'[y]]
        /\ \A y \in Threads \ {x} : thread'[y] = thread[y]
    BY <1>1 DEF Receive
  <1> HIDE DEF new
  <1>5. thread' \in [Threads -> ThreadType]
    BY <1>1, <1>2, <1>4
  <1> QED
    BY <1>3, <1>4, <1>5 DEF Becomes

LEMMA UnreachableBecomes ==
    ASSUME Typed, NEW x \in Threads, Unreachable(x)
    PROVE  Becomes(x, "failed", thread[x].run, thread[x].cart, thread[x].token,
                   thread[x].by, NoDecision)
  <1> DEFINE new == [thread[x] EXCEPT !.pc = "failed", !.reply = NoDecision]
  <1>1. thread \in [Threads -> ThreadType] /\ thread[x] \in ThreadType
    BY DEF Typed
  <1>2. new \in ThreadType
    BY <1>1 DEF ThreadType, NoDecision, Decision, Decisions
  <1>3. /\ new.pc = "failed" /\ new.cart = thread[x].cart
        /\ new.token = thread[x].token /\ new.by = thread[x].by
        /\ new.run = thread[x].run /\ new.reply = NoDecision
    BY <1>1 DEF ThreadType
  <1>4. /\ thread'[x] = new
        /\ thread' = [y \in Threads |-> thread'[y]]
        /\ \A y \in Threads \ {x} : thread'[y] = thread[y]
    BY <1>1 DEF Unreachable
  <1> HIDE DEF new
  <1>5. thread' \in [Threads -> ThreadType]
    BY <1>1, <1>2, <1>4
  <1> QED
    BY <1>3, <1>4, <1>5 DEF Becomes

LEMMA ApproveBecomes ==
    ASSUME Typed, NEW a \in Taps, NEW n \in Runs, Approve(a, n)
    PROVE  Becomes(a, IF Awaiting(n) THEN "checked" ELSE "failed", n,
                   thread[a].cart, thread[a].token, thread[a].by, thread[a].reply)
  <1> DEFINE new == [thread[a] EXCEPT !.run = n,
                        !.pc = IF Awaiting(n) THEN "checked" ELSE "failed"]
  <1>1. /\ thread \in [Threads -> ThreadType] /\ thread[a] \in ThreadType
        /\ a \in Threads
    BY DEF Typed, Threads
  <1>2. new \in ThreadType
    BY <1>1 DEF ThreadType
  <1>3. /\ new.pc = (IF Awaiting(n) THEN "checked" ELSE "failed")
        /\ new.cart = thread[a].cart /\ new.token = thread[a].token
        /\ new.by = thread[a].by /\ new.run = n
        /\ new.reply = thread[a].reply
    BY <1>1 DEF ThreadType
  <1>4. /\ thread'[a] = new
        /\ thread' = [y \in Threads |-> thread'[y]]
        /\ \A y \in Threads \ {a} : thread'[y] = thread[y]
    BY <1>1 DEF Approve
  <1> HIDE DEF new
  <1>5. thread' \in [Threads -> ThreadType]
    BY <1>1, <1>2, <1>4
  <1> QED
    BY <1>3, <1>4, <1>5 DEF Becomes

LEMMA GrantBecomes ==
    ASSUME Typed, NEW a \in Taps, Grant(a)
    PROVE  LET request == run[thread[a].run].request IN
           \/ /\ request \in pending
              /\ Becomes(a, "granted", thread[a].run, thread[a].cart, request,
                         thread[a].by, thread[a].reply)
           \/ Goes(a, "failed")
  <1> DEFINE request == run[thread[a].run].request
             new == [thread[a] EXCEPT !.pc = "granted", !.token = request]
  <1>1. /\ thread \in [Threads -> ThreadType] /\ thread[a] \in ThreadType
        /\ a \in Threads /\ pending \subseteq Carts
    BY DEF Typed, Threads
  <1> HIDE DEF request
  <1>2. CASE request \in pending
    <2>1. new \in ThreadType
      BY <1>1, <1>2 DEF ThreadType
    <2>2. /\ new.pc = "granted" /\ new.token = request
          /\ new.cart = thread[a].cart /\ new.by = thread[a].by
          /\ new.run = thread[a].run /\ new.reply = thread[a].reply
      BY <1>1 DEF ThreadType
    <2>3. /\ thread'[a] = new
          /\ thread' = [y \in Threads |-> thread'[y]]
          /\ \A y \in Threads \ {a} : thread'[y] = thread[y]
      BY <1>1, <1>2 DEF Grant, request
    <2> HIDE DEF new
    <2>4. thread' \in [Threads -> ThreadType]
      BY <1>1, <2>1, <2>3
    <2> QED
      BY <1>2, <2>2, <2>3, <2>4 DEF Becomes, request
  <1>3. CASE request \notin pending
    BY <1>1, <1>3, StepGoes DEF Grant, request, PCs
  <1> QED
    BY <1>2, <1>3

-----------------------------------------------------------------------------
(***************************************************************************)
(* The steps, sorted by what they do to the threads and the runs.          *)
(***************************************************************************)
\* A thread that moves on by itself.
Advances(x) ==
    \/ /\ x \in Runs /\ thread[x].pc \in {"new", "crew"}
       /\ Goes(x, "crew") \/ Goes(x, "failed")
       /\ UNCHANGED <<clientVars, gatewayVars, unheard, crowded>>
    \/ /\ x \in Taps /\ thread[x].pc = "checked"
       /\ Goes(x, "failed")
       /\ UNCHANGED <<clientVars, gatewayVars, unheard, crowded>>
    \/ /\ x \in Taps /\ thread[x].pc = "granted"
       /\ Goes(x, "done")
       /\ listed' = listed \cup {thread[x].run}
       /\ UNCHANGED <<run, paused, first, last, gatewayVars, unheard, crowded>>

Pays(x, cart, token, by) ==
    /\ cart \in Carts /\ token \in Carts \cup {NoCart}
    /\ \/ /\ x \in Runs /\ thread[x].pc = "crew" /\ token = NoCart
          /\ by = "crew" /\ thread[x].by = "none"
       \/ /\ x \in Runs /\ thread[x].pc = "crew" /\ token = NoCart
          /\ by = "graph" /\ cart = CartOf[x]
       \/ /\ x \in Taps /\ thread[x].pc = "granted" /\ token = thread[x].token
          /\ by = "graph" /\ thread[x].run \in paused
          /\ cart = CartOf[thread[x].run]
    /\ Becomes(x, "sent", thread[x].run, cart, token, by, thread[x].reply)
    /\ Handles(x, "sent", FALSE, bucket, 0)
    /\ CallTool(x, cart, token, by)

\* The gateway or time, no thread.
Elsewhere ==
    /\ UNCHANGED <<offline, thread, run, paused, first, last, handling, charges,
                   loose, unheard, crowded>>
    /\ listed' \subseteq listed
    /\ \/ UNCHANGED <<slot, resets>>
       \/ resets' = resets + 1 /\ resets' \in Nat
    /\ bucket' \in 0..MaxBucket /\ resets' \in 0..MaxResets
    /\ pending' \subseteq pending

LEMMA AgentSteps ==
    ASSUME Typed, Placed, [AgentNext]_agentVars
    PROVE  \/ \E x \in Threads : Advances(x)
           \/ \E x \in Threads, cart \in Carts, token \in Carts \cup {NoCart},
                 by \in {"crew", "graph"} : Pays(x, cart, token, by)
           \/ \E x \in Threads : Serves(x) \/ Receive(x) \/ Unreachable(x)
           \/ \E n \in Runs : EndRun(n)
           \/ \E a \in Taps : \/ \E n \in Runs : Approve(a, n)
                              \/ Grant(a) \/ submit_approved_payment(a)
           \/ Elsewhere
  <1> USE AgentAssumption
  <1>0. /\ thread \in [Threads -> ThreadType]
        /\ bucket \in 0..MaxBucket /\ resets \in 0..MaxResets
        /\ \A n \in Runs : n \in Threads /\ thread[n].run = n
        /\ \A a \in Taps : a \in Threads
    BY DEF Typed, Placed, Threads
  <1>1. ASSUME NEW n \in Runs, Seed(n) \/ CrewFails(n)
        PROVE  Advances(n)
    <2>1. /\ thread[n].pc \in {"new", "crew"}
          /\ \E label \in {"crew", "failed"} : Step(n, label)
          /\ UNCHANGED <<clientVars, gatewayVars, unheard, crowded>>
      BY <1>1 DEF Seed, CrewFails, LiveCrew, clientVars, modeAndHistory
    <2>2. Goes(n, "crew") \/ Goes(n, "failed")
      BY <1>0, <2>1, StepGoes DEF PCs
    <2> QED
      BY <2>1, <2>2 DEF Advances
  <1>2. ASSUME NEW n \in Runs, CrewPays(n)
        PROVE  \E cart \in Carts : Pays(n, cart, NoCart, "crew")
    <2>1. PICK cart \in CrewCarts : CallTool(n, cart, NoCart, "crew")
      BY <1>2 DEF CrewPays
    <2>2. cart \in Carts /\ thread[n].pc = "crew" /\ thread[n].by = "none"
      BY <1>2 DEF CrewPays, LiveCrew
    <2>3. Becomes(n, "sent", thread[n].run, cart, NoCart, "crew", thread[n].reply)
      BY <1>0, <2>1, <2>2, CallBecomes
    <2>4. Handles(n, "sent", FALSE, bucket, 0)
      BY <1>0, <2>1, CallHandles
    <2> QED
      BY <2>1, <2>2, <2>3, <2>4 DEF Pays
  <1>3. ASSUME NEW n \in Runs, propose_payment(n)
        PROVE  \E cart \in Carts : Pays(n, cart, NoCart, "graph")
    <2>1. /\ CallTool(n, CartOf[n], NoCart, "graph") /\ thread[n].pc = "crew"
          /\ CartOf[n] \in Carts
      BY <1>3 DEF propose_payment
    <2>2. Becomes(n, "sent", thread[n].run, CartOf[n], NoCart, "graph",
                  thread[n].reply)
      BY <1>0, <2>1, CallBecomes
    <2>3. Handles(n, "sent", FALSE, bucket, 0)
      BY <1>0, <2>1, CallHandles
    <2> QED
      BY <2>1, <2>2, <2>3 DEF Pays
  <1>4. ASSUME NEW a \in Taps, Resume(a)
        PROVE  \/ Advances(a)
               \/ \E cart \in Carts, token \in Carts \cup {NoCart} :
                     Pays(a, cart, token, "graph")
    <2> DEFINE n == thread[a].run
    <2>0. /\ thread[a].pc = "granted" /\ n \in Runs /\ CartOf[n] \in Carts
          /\ thread[a].token \in Carts \cup {NoCart}
      BY <1>0, <1>4 DEF Resume, Placed, ThreadType
    <2>1. CASE n \in paused /\ CallTool(a, CartOf[n], thread[a].token, "graph")
      <3>1. Becomes(a, "sent", thread[a].run, CartOf[n], thread[a].token, "graph",
                    thread[a].reply)
        BY <1>0, <2>0, <2>1, CallBecomes
      <3>2. Handles(a, "sent", FALSE, bucket, 0)
        BY <1>0, <2>1, CallHandles
      <3> QED
        BY <2>0, <2>1, <3>1, <3>2 DEF Pays
    <2>2. CASE /\ listed' = listed \cup {n}
               /\ Step(a, "done")
               /\ UNCHANGED <<run, paused, first, last, gatewayVars, modeAndHistory>>
      <3>1. Goes(a, "done")
        BY <1>0, <2>2, StepGoes DEF PCs
      <3> QED
        BY <2>0, <2>2, <3>1 DEF Advances, modeAndHistory
    <2> QED
      BY <1>4, <2>1, <2>2 DEF Resume
  <1>5. CASE BucketPasses \/ RequestExpires \/ ResetDemoState \/ UNCHANGED agentVars
    BY <1>0, <1>5 DEF BucketPasses, RequestExpires, ResetDemoState, agentVars,
                      clientVars, modeAndHistory, Elsewhere
  <1> QED
    BY <1>0, <1>1, <1>2, <1>3, <1>4, <1>5 DEF AgentNext, Serves

-----------------------------------------------------------------------------
LEMMA TypedInitially == AgentInit => Typed /\ Placed
  <1> SUFFICES ASSUME AgentInit PROVE Typed /\ Placed
    OBVIOUS
  <1> USE AgentAssumption
  <1>1. PICK cast \in AgentCasts :
          thread = [x \in Threads |->
                [Idle EXCEPT !.run = IF x \in Runs THEN x ELSE NoCart,
                             !.pc = IF x \in cast.threads THEN "new" ELSE "done"]]
    BY DEF AgentInit
  <1>2. ASSUME NEW x \in Threads
        PROVE  /\ thread[x] \in ThreadType
               /\ thread[x].pc \in {"new", "done"} /\ thread[x].by = "none"
               /\ x \in Runs => thread[x].run = x
    BY <1>1 DEF Idle, ThreadType, NoDecision, Decision, Decisions
  <1>3. thread \in [Threads -> ThreadType]
    BY <1>1, <1>2
  <1>4. /\ NoRun \in RunType /\ NoDecision \in Decision /\ NoCall \in HandlingType
        /\ NoCall.at = "none" /\ NoCall.held = FALSE
    BY DEF NoRun, RunType, NoDecision, Decision, Decisions, NoCall, HandlingType
  <1>5. Typed
    <2>1. 0 \in 0..MaxBucket /\ 0 \in 0..MaxResets
      OBVIOUS
    <2>2. /\ run \in [Runs -> RunType] /\ last \in [Runs -> Decision]
          /\ first \in [Runs -> Carts \cup {NoCart}]
          /\ handling \in [Threads -> HandlingType]
      BY <1>4 DEF AgentInit
    <2> QED
      BY <1>3, <2>1, <2>2 DEF AgentInit, Typed
  <1>6. \A x \in Threads : ~Busy(x)
    BY <1>4 DEF AgentInit, Busy
  <1>7. Placed
    BY <1>2, <1>6 DEF Placed, Threads
  <1> QED
    BY <1>5, <1>7

\* A thread of a run stays with it, and one that has not started goes nowhere
\* by the step of another.
LEMMA PlacedKept ==
    ASSUME Placed, NEW x \in Threads, NEW pc, NEW r, NEW cart, NEW token, NEW by,
           NEW reply, Becomes(x, pc, r, cart, token, by, reply),
           x \in Runs => r = x,
           pc \notin {"new", "done", "failed"} => r \in Runs,
           x \in Taps => pc # "crew" /\ by # "crew",
           pc # "sent",
           Busy(x) => /\ pc = "failed" /\ r \in unheard'
                      /\ r = thread[x].run /\ cart = thread[x].cart,
           handling' = handling, unheard \subseteq unheard'
    PROVE  Placed'
  <1>0. /\ \A y \in Threads \ {x} : thread'[y] = thread[y]
        /\ thread'[x].pc = pc /\ thread'[x].run = r /\ thread'[x].cart = cart
        /\ thread'[x].by = by
    BY DEF Becomes
  <1>1. \A y \in Threads : Busy(y)' = Busy(y)
    BY DEF Busy
  <1>2. \A y \in Threads : Busy(y)' =>
          /\ thread'[y].run \in Runs /\ thread'[y].cart \in Carts
          /\ \/ thread'[y].pc = "sent"
             \/ thread'[y].pc = "failed" /\ thread'[y].run \in unheard'
    BY <1>0, <1>1 DEF Placed
  <1> QED
    BY <1>0, <1>2, AgentAssumption DEF Placed, Threads

LEMMA TypedStep == Typed /\ Placed /\ [AgentNext]_agentVars => Typed' /\ Placed'
  <1> SUFFICES ASSUME Typed, Placed, [AgentNext]_agentVars PROVE Typed' /\ Placed'
    OBVIOUS
  <1> USE AgentAssumption
  <1>0. /\ thread \in [Threads -> ThreadType] /\ run \in [Runs -> RunType]
        /\ first \in [Runs -> Carts \cup {NoCart}] /\ last \in [Runs -> Decision]
        /\ \A a \in Taps : a \in Threads /\ thread[a].by # "crew"
        /\ \A n \in Runs : n \in Threads /\ n \notin Taps
        /\ \A x \in Threads : thread[x].pc \notin {"sent", "failed"} => ~Busy(x)
    BY DEF Typed, Placed, Threads
  <1>1. ASSUME NEW x \in Threads, Advances(x)
        PROVE  Typed' /\ Placed'
    <2>1. thread' \in [Threads -> ThreadType] /\ listed' \subseteq Runs
      BY <1>1 DEF Advances, Goes, Becomes, clientVars, Typed, Placed
    <2>2. Typed'
      BY <1>1, <2>1 DEF Advances, Typed, clientVars, gatewayVars, recordVars
    <2>3. x \in Runs => thread[x].run = x
      BY DEF Placed
    <2>4. thread[x].pc \notin {"new", "done", "failed"} => thread[x].run \in Runs
      BY DEF Placed
    <2>5. \/ Goes(x, "done") \/ Goes(x, "failed")
          \/ Goes(x, "crew") /\ x \in Runs
      BY <1>1 DEF Advances
    <2>6. ~Busy(x) /\ handling' = handling /\ unheard' = unheard
      BY <1>0, <1>1 DEF Advances, gatewayVars
    <2>7. Placed'
      BY <1>0, <2>3, <2>4, <2>5, <2>6, PlacedKept DEF Goes
    <2> QED
      BY <2>2, <2>7
  <1>2. ASSUME NEW x \in Threads, NEW cart \in Carts,
               NEW token \in Carts \cup {NoCart}, NEW by \in {"crew", "graph"},
               Pays(x, cart, token, by)
        PROVE  Typed' /\ Placed'
    <2>1. Becomes(x, "sent", thread[x].run, cart, token, by, thread[x].reply)
      BY <1>2 DEF Pays
    <2>2. /\ thread[x].run \in Runs /\ (x \in Runs => thread[x].run = x)
          /\ x \in Taps => by # "crew"
      BY <1>0, <1>2 DEF Pays, Placed
    <2>3. /\ first' \in [Runs -> Carts \cup {NoCart}]
          /\ crowded' \subseteq Runs
          /\ UNCHANGED <<run, listed, paused, last, recordVars, offline, unheard>>
          /\ Handles(x, "sent", FALSE, bucket, 0)
      BY <1>0, <1>2, <2>2 DEF Pays, CallTool, Typed
    <2>4. Typed'
      BY <2>1, <2>3 DEF Typed, Becomes, Handles, recordVars
    <2>5. Placed'
      <3>1. /\ \A y \in Threads \ {x} : thread'[y] = thread[y] /\ handling'[y] = handling[y]
            /\ thread'[x].pc = "sent" /\ thread'[x].run = thread[x].run
            /\ thread'[x].cart = cart /\ thread'[x].by = by
        BY <2>1, <2>3 DEF Becomes, Handles
      <3>2. \A y \in Threads \ {x} : Busy(y)' => Busy(y)
        BY <3>1 DEF Busy
      <3> QED
        BY <1>0, <2>2, <2>3, <3>1, <3>2 DEF Placed
    <2> QED
      BY <2>4, <2>5
  <1>3. ASSUME NEW x \in Threads, Serves(x)
        PROVE  Typed' /\ Placed'
    <2>1. ServeFacts(x) /\ Busy(x) /\ Served(x)
      BY <1>3, Serving DEF ServeFacts
    <2>2. thread[x].cart \in Carts /\ thread[x].run \in Runs
      BY <2>1 DEF Placed
    <2>3. /\ handling' \in [Threads -> HandlingType]
          /\ \A y \in Threads \ {x} : handling'[y] = handling[y]
      BY <2>1 DEF ServeFacts, Outcome, Quits, Authorizes, Submits, Reserves, Leaves,
                  Lapses, Handles, HandlesOver
    <2>4. thread' \in [Threads -> ThreadType]
      BY <1>0, <2>1 DEF Served, Answers, Becomes
    <2>5. Typed'
      BY <2>1, <2>2, <2>3, <2>4 DEF ServeFacts, Typed, clientVars, modeAndHistory
    <2>6. unheard' = unheard /\ \A y \in Threads \ {x} : Busy(y)' => Busy(y)
      BY <2>1, <2>3 DEF ServeFacts, modeAndHistory, Busy
    <2>7. CASE thread' = thread
      <3>1. \A y \in Threads : Busy(y)' => Busy(y)
        BY <2>1, <2>6
      <3>2. \A y \in Threads : Busy(y)' =>
              /\ thread'[y].run \in Runs /\ thread'[y].cart \in Carts
              /\ \/ thread'[y].pc = "sent"
                 \/ thread'[y].pc = "failed" /\ thread'[y].run \in unheard'
        BY <2>6, <2>7, <3>1 DEF Placed
      <3> QED
        BY <2>5, <2>7, <3>2 DEF Placed
    <2>8. CASE thread' # thread
      <3>1. /\ ~Busy(x)' /\ thread[x].pc = "sent"
            /\ \A y \in Threads \ {x} : thread'[y] = thread[y]
            /\ thread'[x].pc = "answered" /\ thread'[x].run = thread[x].run
            /\ thread'[x].by = thread[x].by
        BY <2>1, <2>8 DEF Served, Answers, Becomes, Busy
      <3>2. \A y \in Threads : Busy(y)' =>
              /\ thread'[y].run \in Runs /\ thread'[y].cart \in Carts
              /\ \/ thread'[y].pc = "sent"
                 \/ thread'[y].pc = "failed" /\ thread'[y].run \in unheard'
        BY <2>6, <3>1 DEF Placed
      <3> QED
        BY <2>2, <2>5, <3>1, <3>2 DEF Placed, Threads
    <2> QED
      BY <2>5, <2>7, <2>8
  <1>4. ASSUME NEW x \in Threads, Receive(x)
        PROVE  Typed' /\ Placed'
    <2>0. /\ thread[x].reply \in Decision
          /\ thread[x].run \in Runs /\ thread[x].pc = "answered"
          /\ x \in Runs => thread[x].run = x
      BY <1>0, <1>4 DEF Receive, Placed, ThreadType
    <2>1. \E p \in {"crew", "read"} :
             /\ Becomes(x, p, thread[x].run, thread[x].cart, thread[x].token,
                        thread[x].by, NoDecision)
             /\ x \in Taps => p # "crew"
      BY <1>0, <1>4, ReceiveBecomes
    <2>2. last' \in [Runs -> Decision]
      BY <1>0, <1>4, <2>0 DEF Receive
    <2>3. Typed'
      BY <1>4, <2>1, <2>2
         DEF Receive, Typed, Becomes, gatewayVars, recordVars, modeAndHistory
    <2>4. ~Busy(x) /\ handling' = handling /\ unheard' = unheard
      BY <1>0, <1>4, <2>0 DEF Receive, gatewayVars, modeAndHistory
    <2>5. Placed'
      BY <1>0, <2>0, <2>1, <2>4, PlacedKept
    <2> QED
      BY <2>3, <2>5
  <1>5. ASSUME NEW x \in Threads, Unreachable(x)
        PROVE  Typed' /\ Placed'
    <2>0. thread[x].run \in Runs /\ (x \in Runs => thread[x].run = x)
      BY <1>5 DEF Unreachable, Placed
    <2>1. Becomes(x, "failed", thread[x].run, thread[x].cart, thread[x].token,
                  thread[x].by, NoDecision)
      BY <1>5, UnreachableBecomes
    <2>2. Typed'
      BY <1>5, <2>0, <2>1
         DEF Unreachable, Becomes, Typed, clientVars, gatewayVars, recordVars
    <2>3. handling' = handling /\ unheard' = unheard \cup {thread[x].run}
      BY <1>5 DEF Unreachable, gatewayVars
    <2>4. Placed'
      BY <1>0, <2>0, <2>1, <2>3, PlacedKept
    <2> QED
      BY <2>2, <2>4
  <1>6. ASSUME NEW n \in Runs, EndRun(n)
        PROVE  Typed' /\ Placed'
    <2>1. Goes(n, "done") /\ thread[n].run = n
      BY <1>0, <1>6, StepGoes DEF EndRun, PCs, Placed
    <2> DEFINE d == DecisionStep(n)
               shown == [status |-> route_on_decision(d.decision), decision |-> d.decision,
                         request |-> RequestOf(n, d), failClosed |-> d.failClosed]
    <2>2. d \in Decision
      BY <1>0 DEF DecisionStep
    <2>3. shown \in RunType
      BY <2>2 DEF RunType, Decision, route_on_decision, RequestOf
    <2>4. run' \in [Runs -> RunType]
      BY <1>0, <1>6, <2>3 DEF EndRun
    <2>5. /\ listed' = listed \cup {n} /\ paused' \subseteq paused \cup {n}
          /\ UNCHANGED <<first, last, gatewayVars, modeAndHistory>>
      BY <1>6 DEF EndRun
    <2>6. Typed'
      BY <2>1, <2>4, <2>5
         DEF Goes, Becomes, Typed, gatewayVars, recordVars, modeAndHistory
    <2>7. ~Busy(n) /\ handling' = handling /\ unheard' = unheard
      BY <1>0, <1>6, <2>5 DEF EndRun, gatewayVars, modeAndHistory
    <2>8. Placed'
      BY <1>0, <2>1, <2>7, PlacedKept DEF Goes
    <2> QED
      BY <2>6, <2>8
  <1>7. ASSUME NEW a \in Taps, NEW n \in Runs, Approve(a, n)
        PROVE  Typed' /\ Placed'
    <2>1. \E p \in {"checked", "failed"} :
             Becomes(a, p, n, thread[a].cart, thread[a].token, thread[a].by,
                     thread[a].reply)
      BY <1>7, ApproveBecomes
    <2>2. Typed'
      BY <1>7, <2>1 DEF Approve, Becomes, Typed, clientVars, gatewayVars, recordVars,
                        modeAndHistory
    <2>3. ~Busy(a) /\ handling' = handling /\ unheard' = unheard
      BY <1>0, <1>7 DEF Approve, gatewayVars, modeAndHistory
    <2>4. Placed'
      BY <1>0, <2>1, <2>3, PlacedKept
    <2> QED
      BY <2>2, <2>4
  <1>8. ASSUME NEW a \in Taps, Grant(a)
        PROVE  Typed' /\ Placed'
    <2>0. thread[a].run \in Runs /\ a \in Threads /\ a \notin Runs
      BY <1>0, <1>8 DEF Grant, Placed
    <2>1. \E p \in {"granted", "failed"} : \E token :
             Becomes(a, p, thread[a].run, thread[a].cart, token, thread[a].by,
                     thread[a].reply)
      BY <1>8, GrantBecomes DEF Goes
    <2>2. Typed'
      BY <1>8, <2>1 DEF Grant, Becomes, Typed, clientVars, gatewayVars, recordVars,
                        modeAndHistory
    <2>3. ~Busy(a) /\ handling' = handling /\ unheard' = unheard
      BY <1>0, <1>8 DEF Grant, gatewayVars, modeAndHistory
    <2>4. Placed'
      BY <1>0, <2>0, <2>1, <2>3, PlacedKept
    <2> QED
      BY <2>2, <2>4
  <1>9. ASSUME NEW a \in Taps, submit_approved_payment(a)
        PROVE  Typed' /\ Placed'
    <2> DEFINE n == thread[a].run
               d == DecisionStep(n)
               shown == [run[n] EXCEPT !.status = IF d.decision = "ALLOW" THEN "completed"
                                                                  ELSE "blocked",
                               !.decision = d.decision, !.failClosed = d.failClosed]
    <2>0. n \in Runs /\ a \in Threads /\ a \notin Runs
      BY <1>0, <1>9 DEF submit_approved_payment, Placed
    <2>1. Goes(a, "done")
      BY <1>0, <1>9, StepGoes DEF submit_approved_payment, PCs
    <2>2. d \in Decision /\ run[n] \in RunType
      BY <1>0, <2>0 DEF DecisionStep
    <2>3. shown \in RunType
      BY <2>2 DEF RunType, Decision
    <2>4. run' \in [Runs -> RunType]
      BY <1>0, <1>9, <2>0, <2>3 DEF submit_approved_payment
    <2>5. /\ listed' = listed \cup {n} /\ paused' \subseteq paused
          /\ UNCHANGED <<first, last, gatewayVars, modeAndHistory>>
      BY <1>9 DEF submit_approved_payment
    <2>6. Typed'
      BY <2>0, <2>1, <2>4, <2>5
         DEF Goes, Becomes, Typed, gatewayVars, recordVars, modeAndHistory
    <2>7. ~Busy(a) /\ handling' = handling /\ unheard' = unheard
      BY <1>0, <1>9, <2>5 DEF submit_approved_payment, gatewayVars, modeAndHistory
    <2>8. Placed'
      BY <1>0, <2>0, <2>1, <2>7, PlacedKept DEF Goes
    <2> QED
      BY <2>6, <2>8
  <1>10. CASE Elsewhere
    BY <1>10 DEF Elsewhere, Typed, Placed, Busy
  <1> QED
    BY <1>1, <1>2, <1>3, <1>4, <1>5, <1>6, <1>7, <1>8, <1>9, <1>10, AgentSteps

\* Threads, runs, transcripts and the gateway's records have the shape the code
\* gives them, whatever the threads of a run do to each other.
THEOREM AgentTypeCorrect == AgentSpec => []AgentTypeOK
  <1>1. Typed => AgentTypeOK
    BY DEF Typed, AgentTypeOK, ThreadType, RunType, HandlingType
  <1> QED
    BY <1>1, TypedInitially, TypedStep, PTL DEF AgentSpec

-----------------------------------------------------------------------------
(***************************************************************************)
(* One charge per fingerprint window.  The client's steps leave alone what *)
(* guards a fingerprint; of the gateway's, each has its own part: a        *)
(* verdict finds the lock free and no slot, a charge is made by the only   *)
(* holder of the lock, and the lock is given up when the slot is held.     *)
(***************************************************************************)
\* No call is under way, or it stays as it is.
StaysOff(x) ==
    \/ thread'[x].cart = thread[x].cart /\ thread'[x].by = thread[x].by
       /\ handling'[x] = handling[x]
    \/ ~Paying(x) /\ ~Paying(x)' /\ ~handling'[x].held /\ handling'[x].epoch = 0

LEMMA WindowQuiet ==
    ASSUME Typed, Typed', WindowInv, \A x \in Threads : StaysOff(x),
           UNCHANGED <<charges, loose>>,
           UNCHANGED <<slot, resets>> \/ resets' = resets + 1
    PROVE  WindowInv'
  <1> USE AgentAssumption
  <1>0. /\ resets \in Nat /\ resets' \in Nat /\ resets <= resets'
        /\ \A x \in Threads : handling[x].epoch \in Nat
    BY DEF Typed, HandlingType
  <1>1. Guarded'
    BY DEF WindowInv, Guarded, StaysOff, Paying, Tight, ThisCall
  <1>2. OneHolder'
    BY DEF WindowInv, OneHolder, StaysOff
  <1>3. Fresh'
    BY DEF WindowInv, Fresh, StaysOff, Paying, Tight, ThisCall, TightCharge
  <1>4. SlotsHeld'
    <2> SUFFICES ASSUME NEW c \in charges
                 PROVE  /\ c.resets \in Nat /\ c.resets <= resets'
                        /\ c.resets = resets' /\ TightCharge(c)' =>
                              <<c.cart, c.bucket>> \in slot' \/ ToReserve(c)'
      BY DEF SlotsHeld
    <2>1. c.resets \in Nat /\ c.resets <= resets
      BY DEF WindowInv, SlotsHeld
    <2>2. ASSUME c.resets = resets', TightCharge(c)'
          PROVE  <<c.cart, c.bucket>> \in slot' \/ ToReserve(c)'
      <3>1. UNCHANGED <<slot, resets>>
        BY <1>0, <2>1, <2>2
      <3>2. <<c.cart, c.bucket>> \in slot \/ ToReserve(c)
        BY <2>2, <3>1 DEF WindowInv, SlotsHeld, TightCharge
      <3>3. ToReserve(c) => ToReserve(c)'
        BY DEF ToReserve, StaysOff, Paying
      <3> QED
        BY <3>1, <3>2, <3>3
    <2> QED
      BY <1>0, <2>1, <2>2
  <1>5. Past'
    BY <1>0 DEF WindowInv, Past, StaysOff
  <1>6. OneChargePerWindow'
    BY DEF WindowInv, OneChargePerWindow
  <1> QED
    BY <1>1, <1>2, <1>3, <1>4, <1>5, <1>6 DEF WindowInv

\* A step of a client, or of nobody, is such a step.
LEMMA ClientQuiet ==
    ASSUME Typed, Placed, [AgentNext]_agentVars
    PROVE  \/ \E x \in Threads : Serves(x)
           \/ /\ \A x \in Threads : StaysOff(x)
              /\ UNCHANGED <<charges, loose>>
              /\ UNCHANGED <<slot, resets>> \/ resets' = resets + 1
  <1> DEFINE Records == UNCHANGED <<handling, charges, loose, slot, resets>>
  <1>0. ASSUME NEW x \in Threads, NEW pc, NEW r, NEW token, NEW reply,
               Becomes(x, pc, r, thread[x].cart, token, thread[x].by, reply),
               handling' = handling
        PROVE  \A y \in Threads : StaysOff(y)
    BY <1>0 DEF Becomes, StaysOff
  <1>1. ASSUME NEW x \in Threads, Advances(x)
        PROVE  Records /\ \A y \in Threads : StaysOff(y)
    <2>1. Records /\ \E p : Goes(x, p)
      BY <1>1 DEF Advances, gatewayVars, recordVars
    <2> QED
      BY <1>0, <2>1 DEF Goes
  <1>2. ASSUME NEW x \in Threads, NEW cart \in Carts,
               NEW token \in Carts \cup {NoCart}, NEW by \in {"crew", "graph"},
               Pays(x, cart, token, by)
        PROVE  UNCHANGED <<charges, loose, slot, resets>> /\ \A y \in Threads : StaysOff(y)
    <2>1. /\ Becomes(x, "sent", thread[x].run, cart, token, by, thread[x].reply)
          /\ Handles(x, "sent", FALSE, bucket, 0)
          /\ UNCHANGED <<charges, loose, slot, resets>>
      BY <1>2 DEF Pays, CallTool, recordVars
    <2>2. ~Paying(x)
      BY <1>2 DEF Pays, Placed, Busy, Paying
    <2>3. StaysOff(x)
      BY <2>1, <2>2 DEF Handles, StaysOff, Paying
    <2>4. \A y \in Threads \ {x} : StaysOff(y)
      BY <2>1 DEF Handles, Becomes, StaysOff
    <2> QED
      BY <2>1, <2>3, <2>4
  <1>3. ASSUME NEW x \in Threads, Receive(x)
        PROVE  Records /\ \A y \in Threads : StaysOff(y)
    <2>1. Records
      BY <1>3 DEF Receive, gatewayVars, recordVars
    <2> QED
      BY <1>0, <1>3, <2>1, ReceiveBecomes
  <1>4. ASSUME NEW x \in Threads, Unreachable(x)
        PROVE  Records /\ \A y \in Threads : StaysOff(y)
    <2>1. Records
      BY <1>4 DEF Unreachable, gatewayVars, recordVars
    <2> QED
      BY <1>0, <1>4, <2>1, UnreachableBecomes
  <1>5. ASSUME NEW n \in Runs, EndRun(n)
        PROVE  Records /\ \A y \in Threads : StaysOff(y)
    <2>1. Records /\ Goes(n, "done") /\ n \in Threads
      BY <1>5, StepGoes DEF EndRun, gatewayVars, recordVars, Typed, PCs, Threads
    <2> QED
      BY <1>0, <2>1 DEF Goes
  <1>6. ASSUME NEW a \in Taps, NEW n \in Runs, Approve(a, n)
        PROVE  Records /\ \A y \in Threads : StaysOff(y)
    <2>1. Records /\ a \in Threads
      BY <1>6 DEF Approve, gatewayVars, recordVars, Threads
    <2> QED
      BY <1>0, <1>6, <2>1, ApproveBecomes
  <1>7. ASSUME NEW a \in Taps, Grant(a)
        PROVE  Records /\ \A y \in Threads : StaysOff(y)
    <2>1. Records /\ a \in Threads
      BY <1>7 DEF Grant, gatewayVars, recordVars, Threads
    <2> QED
      BY <1>0, <1>7, <2>1, GrantBecomes DEF Goes
  <1>8. ASSUME NEW a \in Taps, submit_approved_payment(a)
        PROVE  Records /\ \A y \in Threads : StaysOff(y)
    <2>1. Records /\ Goes(a, "done") /\ a \in Threads
      BY <1>8, StepGoes
         DEF submit_approved_payment, gatewayVars, recordVars, Typed, PCs, Threads
    <2> QED
      BY <1>0, <2>1 DEF Goes
  <1>9. ASSUME Elsewhere
        PROVE  /\ \A y \in Threads : StaysOff(y)
               /\ UNCHANGED <<charges, loose>>
               /\ UNCHANGED <<slot, resets>> \/ resets' = resets + 1
    BY <1>9 DEF Elsewhere, StaysOff
  <1> QED
    BY <1>1, <1>2, <1>3, <1>4, <1>5, <1>6, <1>7, <1>8, <1>9, AgentSteps

\* Charges, and the carts of the calls, while the gateway serves one of them.
LEMMA ServedCall ==
    ASSUME NEW x \in Threads, Served(x)
    PROVE  \A y \in Threads : /\ thread'[y].cart = thread[y].cart
                              /\ thread'[y].by = thread[y].by
                              /\ thread'[y].run = thread[y].run
  BY DEF Served, Answers, Becomes

\* A call ends or loses its lock, and nothing is charged: what it held for its
\* charge passes to the slot, or the call counts as loose.
LEMMA WindowEnds ==
    ASSUME Typed, WindowInv, NEW x \in Threads, Served(x),
           Quits(x) \/ Reserves(x) \/ Leaves(x) \/ Lapses(x),
           resets' = resets
    PROVE  WindowInv'
  <1> USE AgentAssumption
  <1>0. /\ \A y \in Threads : /\ thread'[y].cart = thread[y].cart
                              /\ thread'[y].by = thread[y].by
        /\ \A y \in Threads \ {x} : handling'[y] = handling[y]
        /\ handling'[x].held => handling[x].held /\ handling'[x].window = handling[x].window
        /\ \/ handling'[x].at = "over" /\ handling'[x].epoch = 0
           \/ /\ handling'[x].at = handling[x].at /\ handling'[x].epoch = handling[x].epoch
              /\ handling'[x].window = handling[x].window
              /\ Paying(x) => ThisCall(x) \in loose'
        /\ charges' = charges /\ loose \subseteq loose' /\ slot \subseteq slot'
    <2>1. \A y \in Threads : /\ thread'[y].cart = thread[y].cart
                             /\ thread'[y].by = thread[y].by
      BY ServedCall
    <2>2. CASE Quits(x) \/ Reserves(x) \/ Leaves(x)
      BY <2>1, <2>2 DEF Quits, Reserves, Leaves, HandlesOver
    <2>3. CASE Lapses(x)
      BY <2>1, <2>3 DEF Lapses, Handles
    <2> QED
      BY <2>2, <2>3
  <1>1. Guarded'
    <2> SUFFICES ASSUME NEW y \in Threads, Paying(y)', Tight(y)'
                 PROVE  handling'[y].held
      BY DEF Guarded
    <2>1. Tight(y)
      BY <1>0 DEF Tight, ThisCall
    <2>2. CASE y = x
      BY <1>0, <2>2 DEF Paying, Tight, ThisCall
    <2>3. CASE y # x
      BY <1>0, <2>1, <2>3 DEF WindowInv, Guarded, Paying
    <2> QED
      BY <2>2, <2>3
  <1>2. OneHolder'
    <2>1. \A y \in Threads : handling'[y].held =>
              handling[y].held /\ handling'[y].window = handling[y].window
      BY <1>0
    <2> QED
      BY <1>0, <2>1 DEF WindowInv, OneHolder
  <1>3. Fresh'
    <2>1. \A y \in Threads : handling'[y].at = "charging" =>
              /\ handling[y].at = "charging" /\ handling'[y].window = handling[y].window
              /\ handling'[y].epoch = handling[y].epoch
      BY <1>0
    <2> QED
      BY <1>0, <2>1 DEF WindowInv, Fresh, Tight, ThisCall, TightCharge
  <1>4. SlotsHeld'
    <2> SUFFICES ASSUME NEW c \in charges, c.resets = resets, TightCharge(c)'
                 PROVE  <<c.cart, c.bucket>> \in slot' \/ ToReserve(c)'
      BY <1>0 DEF WindowInv, SlotsHeld
    <2>1. <<c.cart, c.bucket>> \in slot \/ ToReserve(c)
      BY <1>0 DEF WindowInv, SlotsHeld, TightCharge
    <2>2. CASE <<c.cart, c.bucket>> \in slot
      BY <1>0, <2>2
    <2>3. CASE ToReserve(c) /\ c.by # x
      BY <1>0, <2>3 DEF ToReserve
    <2>4. CASE ToReserve(c) /\ c.by = x
      <3>1. /\ handling[x].at = "charged" /\ thread[x].by = c.tool
            /\ thread[x].cart = c.cart /\ handling[x].window = c.bucket
            /\ ThisCall(x) = <<c.by, c.tool>>
        BY <2>4 DEF ToReserve, ThisCall
      <3>2. CASE Reserves(x)
        BY <3>1, <3>2 DEF Reserves
      <3>3. CASE Leaves(x)
        BY <3>1, <3>3 DEF Leaves, TightCharge
      <3>4. CASE Lapses(x)
        BY <3>1, <3>4 DEF Lapses, TightCharge, Paying
      <3>5. ~Quits(x)
        BY <3>1 DEF Quits
      <3> QED
        BY <3>2, <3>3, <3>4, <3>5
    <2> QED
      BY <2>1, <2>2, <2>3, <2>4
  <1>5. Past'
    BY <1>0 DEF WindowInv, Past, Typed
  <1>6. OneChargePerWindow'
    BY <1>0 DEF WindowInv, OneChargePerWindow
  <1> QED
    BY <1>1, <1>2, <1>3, <1>4, <1>5, <1>6 DEF WindowInv

\* A verdict: the lock was free, so nobody is about to charge or to reserve, and
\* the slot was free, so nobody did.
LEMMA WindowAuthorizes ==
    ASSUME Typed, WindowInv, NEW x \in Threads, Authorizes(x), resets' = resets
    PROVE  WindowInv'
  <1> USE AgentAssumption
  <1>0. PICK w \in 0..MaxBucket :
          /\ ~Locked(x, <<thread[x].cart, w>>) /\ <<thread[x].cart, w>> \notin slot
          /\ Handles(x, "charging", TRUE, w, resets)
    BY DEF Authorizes
  <1>1. /\ thread' = thread /\ UNCHANGED <<slot, charges, loose>>
        /\ handling[x].at = "sent"
        /\ \A y \in Threads \ {x} : handling'[y] = handling[y]
        /\ handling'[x].at = "charging" /\ handling'[x].held
        /\ handling'[x].window = w /\ handling'[x].epoch = resets
    BY <1>0 DEF Authorizes, Handles
  <1>2. \A y \in Threads \ {x} : handling[y].held =>
           ~(thread[y].cart = thread[x].cart /\ handling[y].window = w)
    BY <1>0 DEF Locked
  <1>3. Guarded'
    BY <1>1 DEF WindowInv, Guarded, Paying, Tight, ThisCall
  <1>4. OneHolder'
    BY <1>1, <1>2 DEF WindowInv, OneHolder
  <1>5. Fresh'
    <2> SUFFICES ASSUME NEW y \in Threads, NEW c \in charges,
                        handling'[y].at = "charging", Tight(y), TightCharge(c),
                        c.cart = thread[y].cart, c.bucket = handling'[y].window,
                        c.resets = handling'[y].epoch
                 PROVE  FALSE
      BY <1>1 DEF Fresh, Tight, ThisCall, TightCharge
    <2>1. CASE y # x
      BY <1>1, <2>1 DEF WindowInv, Fresh
    <2>2. CASE y = x
      <3>1. <<c.cart, c.bucket>> \in slot \/ ToReserve(c)
        BY <1>1, <2>2 DEF WindowInv, SlotsHeld
      <3>2. ToReserve(c)
        BY <1>0, <1>1, <2>2, <3>1
      <3>3. c.by \in Threads \ {x} /\ Paying(c.by) /\ Tight(c.by)
        BY <1>1, <3>2 DEF ToReserve, Paying, Tight, TightCharge, ThisCall
      <3>4. handling[c.by].held
        BY <3>3 DEF WindowInv, Guarded
      <3> QED
        BY <1>1, <1>2, <2>2, <3>2, <3>3, <3>4 DEF ToReserve
    <2> QED
      BY <2>1, <2>2
  <1>6. SlotsHeld'
    <2>1. \A c : ToReserve(c) => ToReserve(c)'
      BY <1>1 DEF ToReserve
    <2> QED
      BY <1>1, <2>1 DEF WindowInv, SlotsHeld, TightCharge
  <1>7. Past'
    BY <1>1 DEF WindowInv, Past, Typed
  <1>8. OneChargePerWindow'
    BY <1>1 DEF WindowInv, OneChargePerWindow
  <1> QED
    BY <1>3, <1>4, <1>5, <1>6, <1>7, <1>8 DEF WindowInv

\* A charge: nothing was charged for the fingerprint before, and no other call
\* that holds its lock is about to.
LEMMA WindowSubmits ==
    ASSUME Typed, WindowInv, NEW x \in Threads, Submits(x), resets' = resets
    PROVE  WindowInv'
  <1> USE AgentAssumption
  <1> DEFINE new == ChargeOf(x)
  <1>0. /\ new.by = x /\ new.tool = thread[x].by /\ new.cart = thread[x].cart
        /\ new.bucket = handling[x].window /\ new.resets = handling[x].epoch
        /\ <<new.by, new.tool>> = ThisCall(x)
    BY DEF ChargeOf, ThisCall
  <1>1. /\ thread' = thread /\ UNCHANGED <<slot, loose>>
        /\ handling[x].at = "charging"
        /\ \A y \in Threads \ {x} : handling'[y] = handling[y]
        /\ handling'[x].at = "charged" /\ handling'[x].held = handling[x].held
        /\ handling'[x].window = handling[x].window
        /\ handling'[x].epoch = handling[x].epoch
        /\ charges' = charges \/ charges' = charges \cup {new}
    BY DEF Submits, Handles
  <1>2. /\ handling[x].epoch \in Nat /\ handling[x].epoch <= resets
    BY DEF WindowInv, Past, Typed, HandlingType
  <1> HIDE DEF new
  <1>3. Guarded'
    BY <1>1 DEF WindowInv, Guarded, Paying, Tight, ThisCall
  <1>4. OneHolder'
    BY <1>1 DEF WindowInv, OneHolder
  <1>5. Fresh'
    <2> SUFFICES ASSUME NEW y \in Threads, NEW c \in charges',
                        handling'[y].at = "charging", Tight(y), TightCharge(c),
                        c.cart = thread[y].cart, c.bucket = handling'[y].window,
                        c.resets = handling'[y].epoch
                 PROVE  FALSE
      BY <1>1 DEF Fresh, Tight, ThisCall, TightCharge
    <2>1. y # x /\ handling'[y] = handling[y]
      BY <1>1
    <2>2. CASE c \in charges
      BY <2>1, <2>2 DEF WindowInv, Fresh
    <2>3. CASE c = new
      <3>1. Paying(x) /\ Tight(x) /\ Paying(y)
        BY <1>0, <1>1, <2>1, <2>3 DEF Paying, Tight, TightCharge
      <3>2. handling[x].held /\ handling[y].held
        BY <3>1 DEF WindowInv, Guarded
      <3> QED
        BY <1>0, <2>1, <2>3, <3>2 DEF WindowInv, OneHolder
    <2> QED
      BY <1>1, <2>2, <2>3
  <1>6. SlotsHeld'
    <2> SUFFICES ASSUME NEW c \in charges'
                 PROVE  /\ c.resets \in Nat /\ c.resets <= resets
                        /\ c.resets = resets /\ TightCharge(c) =>
                              <<c.cart, c.bucket>> \in slot \/ ToReserve(c)'
      BY <1>1 DEF SlotsHeld, TightCharge
    <2>1. CASE c \in charges
      <3>1. ToReserve(c) => ToReserve(c)'
        BY <1>1 DEF ToReserve
      <3> QED
        BY <2>1, <3>1 DEF WindowInv, SlotsHeld
    <2>2. CASE c = new
      <3>1. ToReserve(c)'
        BY <1>0, <1>1, <2>2 DEF ToReserve
      <3> QED
        BY <1>0, <1>2, <2>2, <3>1
    <2> QED
      BY <1>1, <2>1, <2>2
  <1>7. Past'
    BY <1>1 DEF WindowInv, Past
  <1>8. OneChargePerWindow'
    <2>1. \A c \in charges : TightCharge(c) /\ TightCharge(new) =>
             ~(c.cart = new.cart /\ c.bucket = new.bucket /\ c.resets = new.resets)
      <3>1. TightCharge(new) => Tight(x)
        BY <1>0 DEF TightCharge, Tight
      <3> QED
        BY <1>0, <1>1, <3>1 DEF WindowInv, Fresh
    <2>2. \A p, q \in charges : TightCharge(p) /\ TightCharge(q) =>
             (p.cart = q.cart /\ p.bucket = q.bucket /\ p.resets = q.resets => p = q)
      BY DEF WindowInv, OneChargePerWindow, TightCharge
    <2>3. \A p, q \in charges' : TightCharge(p) /\ TightCharge(q) =>
             (p.cart = q.cart /\ p.bucket = q.bucket /\ p.resets = q.resets => p = q)
      BY <1>1, <2>1, <2>2
    <2> QED
      BY <1>1, <2>3 DEF OneChargePerWindow, TightCharge
  <1> QED
    BY <1>3, <1>4, <1>5, <1>6, <1>7, <1>8 DEF WindowInv

LEMMA WindowStep ==
    ASSUME Typed, Placed, WindowInv, [AgentNext]_agentVars
    PROVE  WindowInv'
  <1>0. Typed'
    BY TypedStep
  <1>1. ASSUME NEW x \in Threads, Serves(x)
        PROVE  WindowInv'
    <2>1. Served(x) /\ Outcome(x) /\ resets' = resets
      BY <1>1, Serving DEF ServeFacts
    <2> QED
      BY <2>1, WindowEnds, WindowAuthorizes, WindowSubmits DEF Outcome
  <1> QED
    BY <1>0, <1>1, ClientQuiet, WindowQuiet

\* A cart is charged at most once per fingerprint window between two resets of
\* the demo, however often Approve is tapped or an answer is lost, and although
\* every submission carries a fresh idempotency key: from the verdict to the
\* reservation the call holds the fingerprint's lock, and afterwards the slot
\* blocks the next.  Not counted are calls whose lock lapsed before that, or that
\* raised or died between the charge and the reservation.
THEOREM ChargedOncePerWindow == AgentSpec => []OneChargePerWindow
  <1>1. AgentInit => WindowInv
    <2> SUFFICES ASSUME AgentInit PROVE WindowInv
      OBVIOUS
    <2>1. /\ charges = {} /\ resets = 0
          /\ \A x \in Threads : handling[x] = NoCall
      BY DEF AgentInit
    <2>2. \A x \in Threads : /\ handling[x].at = "none" /\ handling[x].held = FALSE
                             /\ handling[x].epoch = 0
      BY <2>1, NoCallTyped
    <2>3. Guarded /\ OneHolder /\ Past
      BY <2>1, <2>2 DEF Guarded, OneHolder, Past, Paying
    <2>4. Fresh /\ SlotsHeld /\ OneChargePerWindow
      BY <2>1 DEF Fresh, SlotsHeld, OneChargePerWindow
    <2> QED
      BY <2>3, <2>4 DEF WindowInv
  <1>2. Typed /\ Placed /\ WindowInv /\ [AgentNext]_agentVars => WindowInv'
    BY WindowStep
  <1>3. WindowInv => OneChargePerWindow
    BY DEF WindowInv
  <1> QED
    BY <1>1, <1>2, <1>3, TypedInitially, TypedStep, PTL DEF AgentSpec

-----------------------------------------------------------------------------
(***************************************************************************)
(* The order of a run's threads.  The thread that starts a run is done     *)
(* before the run is listed, so before a tap can find it; a tap pays while *)
(* the graph is paused; and two payments under way at a time make a crowd. *)
(***************************************************************************)
FlowInv == Stored /\ Tapped /\ OneAtATime

LEMMA FlowInitially == AgentInit => FlowInv
  <1> SUFFICES ASSUME AgentInit PROVE FlowInv
    OBVIOUS
  <1> USE AgentAssumption
  <1>1. PICK cast \in AgentCasts :
          thread = [x \in Threads |->
                [Idle EXCEPT !.run = IF x \in Runs THEN x ELSE NoCart,
                             !.pc = IF x \in cast.threads THEN "new" ELSE "done"]]
    BY DEF AgentInit
  <1>2. ASSUME NEW x \in Threads
        PROVE  thread[x].pc \in {"new", "done"} /\ thread[x].token = NoCart
    BY <1>1 DEF Idle
  <1>3. \A n \in Runs : run[n].decision = "none" /\ first[n] = NoCart
    BY DEF AgentInit, NoRun
  <1>4. listed = {} /\ paused = {}
    BY DEF AgentInit
  <1>5. Stored
    BY <1>2, <1>3, <1>4 DEF Stored, StoredLast, Active, Threads
  <1>6. Tapped
    BY <1>2 DEF Tapped, FollowsRun, Waiting, Active, Threads
  <1>7. OneAtATime
    BY <1>2 DEF OneAtATime, Active
  <1> QED
    BY <1>5, <1>6, <1>7 DEF FlowInv

\* A thread moves on, and no payment begins and no run ends by it.
LEMMA FlowKept ==
    ASSUME Typed, Placed, FlowInv, NEW x \in Threads, NEW pc, NEW cart, NEW token,
           NEW reply,
           Becomes(x, pc, thread[x].run, cart, token, thread[x].by, reply),
           thread[x].pc # "done", pc # "new",
           pc \in Active => thread[x].pc \in Active,
           x \in Taps /\ pc \in Waiting => thread[x].pc \in Waiting,
           UNCHANGED <<run, paused, first>>, crowded \subseteq crowded',
           \A n \in Runs : n \in listed' => n \in listed \/
              (thread[n].pc = "done" /\ thread[n].by # "none")
    PROVE  FlowInv'
  <1> USE AgentAssumption
  <1>0. /\ \A y \in Threads \ {x} : thread'[y] = thread[y]
        /\ thread'[x].pc = pc /\ thread'[x].run = thread[x].run
        /\ thread'[x].by = thread[x].by
    BY DEF Becomes
  <1>1. Stored'
    BY <1>0 DEF FlowInv, Stored, StoredLast, Threads, Active
  <1>2. Tapped'
    <2> SUFFICES ASSUME NEW a \in Taps
                 PROVE  FollowsRun(a)'
      BY DEF Tapped
    <2>1. /\ thread'[a].run = thread[a].run /\ thread'[a].by = thread[a].by
          /\ thread'[a].pc \in Active => thread[a].pc \in Active
          /\ thread'[a].pc \in Waiting => thread[a].pc \in Waiting
          /\ thread'[a].pc = "new" => thread'[a] = thread[a]
      BY <1>0 DEF Threads
    <2>2. thread[a].pc \in Waiting =>
              /\ thread[a].run \in Runs /\ thread[thread[a].run].pc = "done"
              /\ thread[thread[a].run].by # "none"
      BY DEF FlowInv, Tapped, FollowsRun, Waiting
    <2>3. thread[a].pc \in Waiting =>
              thread'[thread[a].run] = thread[thread[a].run]
      BY <1>0, <2>2 DEF Threads
    <2> QED
      BY <2>1, <2>2, <2>3 DEF FlowInv, Tapped, FollowsRun
  <1>3. OneAtATime'
    BY <1>0 DEF FlowInv, OneAtATime
  <1> QED
    BY <1>1, <1>2, <1>3 DEF FlowInv

\* A payment begins.
LEMMA FlowPays ==
    ASSUME Typed, Placed, FlowInv, NEW x \in Threads, NEW cart \in Carts,
           NEW token \in Carts \cup {NoCart}, NEW by \in {"crew", "graph"},
           Pays(x, cart, token, by)
    PROVE  FlowInv'
  <1> USE AgentAssumption
  <1> DEFINE n == thread[x].run
  <1>0. /\ \A y \in Threads \ {x} : thread'[y] = thread[y]
        /\ thread'[x].pc = "sent" /\ thread'[x].run = n /\ thread'[x].by = by
    BY DEF Pays, Becomes
  <1>1. /\ n \in Runs /\ n \in Threads
        /\ x \in Runs => n = x /\ thread[x].pc = "crew"
        /\ x \in Taps => thread[x].pc = "granted" /\ n \in paused /\ by = "graph"
    BY DEF Pays, Placed, Threads
  <1>2. /\ UNCHANGED <<run, listed, paused>>
        /\ \A m \in Runs \ {n} : first'[m] = first[m]
        /\ crowded \subseteq crowded'
        /\ \A y \in Threads \ {x} :
              thread[y].run = n /\ thread[y].pc \in Active => n \in crowded'
    BY <1>1 DEF Pays, CallTool, Typed, Active
  <1>3. x \in Taps => thread[n].pc = "done" /\ thread[n].by # "none" /\ n # x
    BY <1>1 DEF FlowInv, Tapped, FollowsRun, Waiting
  <1>4. x \in Runs \/ x \in Taps
    BY DEF Threads
  <1>5. Stored'
    <2> SUFFICES ASSUME NEW m \in Runs
                 PROVE  StoredLast(m)'
      BY DEF Stored
    <2>1. CASE m = x
      BY <1>0, <1>1, <1>2, <2>1 DEF FlowInv, Stored, StoredLast, Threads
    <2>2. CASE m # x
      <3>1. thread'[m] = thread[m]
        BY <1>0, <2>2 DEF Threads
      <3>2. m = n => thread[m].by # "none"
        BY <1>1, <1>3, <1>4, <2>2
      <3> QED
        BY <1>2, <3>1, <3>2 DEF FlowInv, Stored, StoredLast
    <2> QED
      BY <2>1, <2>2
  <1>6. Tapped'
    <2> SUFFICES ASSUME NEW a \in Taps
                 PROVE  FollowsRun(a)'
      BY DEF Tapped
    <2>1. CASE a = x
      BY <1>0, <1>1, <1>2, <1>3, <2>1 DEF Threads, Active, Waiting, FollowsRun
    <2>2. CASE a # x
      <3>1. thread'[a] = thread[a]
        BY <1>0, <2>2 DEF Threads
      <3>2. thread[a].pc \in Waiting =>
              /\ thread[a].run \in Runs /\ thread[thread[a].run].pc = "done"
              /\ thread[thread[a].run].by # "none"
        BY DEF FlowInv, Tapped, FollowsRun, Waiting
      <3>3. thread[a].pc \in Waiting =>
              thread'[thread[a].run] = thread[thread[a].run]
        BY <1>0, <1>1, <1>4, <3>2 DEF Threads
      <3> QED
        BY <1>2, <3>1, <3>2, <3>3 DEF FlowInv, Tapped, FollowsRun
    <2> QED
      BY <2>1, <2>2
  <1>7. OneAtATime'
    BY <1>0, <1>2 DEF FlowInv, OneAtATime
  <1> QED
    BY <1>5, <1>6, <1>7 DEF FlowInv

\* A run ends.
LEMMA FlowEnds ==
    ASSUME Typed, Placed, FlowInv, NEW n \in Runs, EndRun(n)
    PROVE  FlowInv'
  <1> USE AgentAssumption
  <1>0. /\ Goes(n, "done") /\ thread[n].pc = "read" /\ thread[n].by # "none"
        /\ n \in Threads
    BY StepGoes DEF Typed, EndRun, PCs, FlowInv, Stored, StoredLast, Active, Threads
  <1>1. /\ \A y \in Threads \ {n} : thread'[y] = thread[y]
        /\ thread'[n].pc = "done" /\ thread'[n].by # "none"
    BY <1>0 DEF Goes, Becomes
  <1>2. /\ listed' = listed \cup {n}
        /\ \A m \in Runs \ {n} : run'[m] = run[m]
        /\ \A m \in Runs \ {n} : m \in paused' <=> m \in paused
        /\ n \in paused' => run'[n].decision = "REQUIRE_APPROVAL"
        /\ paused \subseteq paused'
        /\ UNCHANGED <<first, crowded>>
    <2>1. n \notin paused
      BY <1>0 DEF FlowInv, Stored, StoredLast
    <2>2. run'[n].decision = DecisionStep(n).decision
      BY DEF EndRun, Typed
    <2>3. DecisionStep(n).decision # "REQUIRE_APPROVAL" => paused' = paused
      BY DEF EndRun, route_on_decision
    <2> QED
      BY <2>1, <2>2, <2>3 DEF EndRun, Typed, modeAndHistory
  <1>3. Stored'
    BY <1>1, <1>2 DEF FlowInv, Stored, StoredLast, Threads, Active
  <1>4. Tapped'
    <2> SUFFICES ASSUME NEW a \in Taps
                 PROVE  FollowsRun(a)'
      BY DEF Tapped
    <2>1. thread'[a] = thread[a]
      BY <1>1 DEF Threads
    <2>2. thread[a].pc \in Waiting =>
              /\ thread[a].run \in Runs /\ thread[thread[a].run].pc = "done"
              /\ thread[thread[a].run].by # "none"
      BY DEF FlowInv, Tapped, FollowsRun, Waiting
    <2>3. thread[a].pc \in Waiting =>
              /\ thread'[thread[a].run].pc = "done"
              /\ thread'[thread[a].run].by # "none"
      BY <1>1, <2>2 DEF Threads
    <2> QED
      BY <1>2, <2>1, <2>2, <2>3 DEF FlowInv, Tapped, FollowsRun
  <1>5. OneAtATime'
    BY <1>1, <1>2 DEF FlowInv, OneAtATime, Active
  <1> QED
    BY <1>3, <1>4, <1>5 DEF FlowInv

LEMMA FlowApproves ==
    ASSUME Typed, Placed, FlowInv, NEW a \in Taps, NEW n \in Runs, Approve(a, n)
    PROVE  FlowInv'
  <1> USE AgentAssumption
  <1>0. \E p \in {"checked", "failed"} :
           Becomes(a, p, n, thread[a].cart, thread[a].token, thread[a].by,
                   thread[a].reply)
    BY ApproveBecomes
  <1>1. /\ \A y \in Threads \ {a} : thread'[y] = thread[y]
        /\ thread'[a].pc \in {"checked", "failed"} /\ thread'[a].run = n
        /\ thread[a].pc = "new" /\ thread[n].pc = "done" /\ thread[n].by # "none"
        /\ UNCHANGED <<run, listed, paused, first, crowded>>
        /\ a \in Threads /\ n \in Threads /\ n # a
    BY <1>0 DEF Becomes, Approve, FlowInv, Stored, StoredLast, Threads, clientVars,
                modeAndHistory
  <1>2. Stored'
    BY <1>1 DEF FlowInv, Stored, StoredLast, Threads, Active
  <1>3. Tapped'
    <2> SUFFICES ASSUME NEW b \in Taps
                 PROVE  FollowsRun(b)'
      BY DEF Tapped
    <2>1. CASE b = a
      BY <1>1, <2>1 DEF Active, Waiting, FollowsRun
    <2>2. CASE b # a
      <3>1. thread'[b] = thread[b]
        BY <1>1, <2>2 DEF Threads
      <3>2. thread[b].pc \in Waiting =>
              /\ thread[b].run \in Runs /\ thread[thread[b].run].pc = "done"
              /\ thread[thread[b].run].by # "none"
        BY DEF FlowInv, Tapped, FollowsRun, Waiting
      <3>3. thread[b].pc \in Waiting =>
              thread'[thread[b].run] = thread[thread[b].run]
        BY <1>1, <3>2 DEF Threads
      <3> QED
        BY <1>1, <3>1, <3>2, <3>3 DEF FlowInv, Tapped, FollowsRun
    <2> QED
      BY <2>1, <2>2
  <1>4. OneAtATime'
    BY <1>1 DEF FlowInv, OneAtATime, Active
  <1> QED
    BY <1>2, <1>3, <1>4 DEF FlowInv

LEMMA FlowSubmits ==
    ASSUME Typed, Placed, FlowInv, NEW a \in Taps, submit_approved_payment(a)
    PROVE  FlowInv'
  <1> USE AgentAssumption
  <1> DEFINE n == thread[a].run
  <1>0. /\ Goes(a, "done") /\ thread[a].pc = "read" /\ a \in Threads
        /\ n \in Runs /\ n \in Threads /\ n # a
        /\ thread[n].pc = "done" /\ thread[n].by # "none"
    BY StepGoes DEF Typed, submit_approved_payment, PCs, FlowInv, Tapped,
                    FollowsRun, Waiting, Active, Threads
  <1>1. /\ \A y \in Threads \ {a} : thread'[y] = thread[y]
        /\ thread'[a].pc = "done" /\ thread'[a].by = thread[a].by
    BY <1>0 DEF Goes, Becomes
  <1>2. /\ listed' = listed \cup {n} /\ paused' = paused \ {n}
        /\ \A m \in Runs \ {n} : run'[m] = run[m]
        /\ UNCHANGED <<first, crowded>>
    BY <1>0 DEF submit_approved_payment, Typed, modeAndHistory
  <1>3. Stored'
    <2> SUFFICES ASSUME NEW m \in Runs
                 PROVE  StoredLast(m)'
      BY DEF Stored
    <2>1. thread'[m] = thread[m]
      BY <1>1 DEF Threads
    <2> QED
      BY <1>0, <1>2, <2>1 DEF FlowInv, Stored, StoredLast
  <1>4. Tapped'
    <2> SUFFICES ASSUME NEW b \in Taps
                 PROVE  FollowsRun(b)'
      BY DEF Tapped
    <2>1. CASE b = a
      BY <1>1, <2>1 DEF Active, Waiting, FollowsRun
    <2>2. CASE b # a
      <3>1. thread'[b] = thread[b] /\ b \in Threads
        BY <1>1, <2>2 DEF Threads
      <3>2. thread[b].pc \in Waiting =>
              /\ thread[b].run \in Runs /\ thread[thread[b].run].pc = "done"
              /\ thread[thread[b].run].by # "none"
        BY DEF FlowInv, Tapped, FollowsRun, Waiting
      <3>3. thread[b].pc \in Waiting =>
              thread'[thread[b].run] = thread[thread[b].run]
        BY <1>0, <1>1, <3>2 DEF Threads
      <3>4. thread[b].pc \in Active /\ thread[b].run \notin crowded =>
              thread[b].run # n
        BY <1>0, <2>2, <3>1 DEF FlowInv, OneAtATime, Active
      <3> QED
        BY <1>2, <3>1, <3>2, <3>3, <3>4 DEF FlowInv, Tapped, FollowsRun
    <2> QED
      BY <2>1, <2>2
  <1>5. OneAtATime'
    BY <1>1, <1>2 DEF FlowInv, OneAtATime, Active
  <1> QED
    BY <1>3, <1>4, <1>5 DEF FlowInv

LEMMA FlowStep ==
    ASSUME Typed, Placed, FlowInv, [AgentNext]_agentVars
    PROVE  FlowInv'
  <1> USE AgentAssumption
  <1>0. /\ thread \in [Threads -> ThreadType]
        /\ \A a \in Taps : a \in Threads /\ a \notin Runs
    BY DEF Typed, Threads
  <1>1. ASSUME NEW x \in Threads, Advances(x)
        PROVE  FlowInv'
    <2>1. /\ \E p \in {"crew", "failed", "done"} : Goes(x, p)
          /\ thread[x].pc \in {"new", "crew", "checked", "granted"}
          /\ UNCHANGED <<run, paused, first, crowded>>
      BY <1>1 DEF Advances, clientVars
    <2>2. \A n \in Runs : n \in listed' => n \in listed \/
              (thread[n].pc = "done" /\ thread[n].by # "none")
      BY <1>1 DEF Advances, clientVars, FlowInv, Tapped, FollowsRun, Waiting
    <2> QED
      BY <2>1, <2>2, FlowKept DEF Goes, Active, Waiting
  <1>2. ASSUME NEW x \in Threads, Serves(x)
        PROVE  FlowInv'
    <2>1. Served(x) /\ UNCHANGED <<run, listed, paused, first, crowded>>
      BY <1>2, Serving DEF ServeFacts, clientVars, modeAndHistory
    <2>2. CASE thread' = thread
      BY <2>1, <2>2 DEF FlowInv, Stored, StoredLast, Tapped, FollowsRun, OneAtATime
    <2>3. CASE thread[x].pc = "sent" /\ \E reply \in Decision : Answers(x, reply)
      BY <2>1, <2>3, FlowKept DEF Answers, Active, Waiting
    <2> QED
      BY <2>1, <2>2, <2>3 DEF Served
  <1>3. ASSUME NEW x \in Threads, Receive(x)
        PROVE  FlowInv'
    <2>1. thread[x].pc = "answered" /\ UNCHANGED <<run, listed, paused, first, crowded>>
      BY <1>3 DEF Receive, modeAndHistory
    <2>2. \E p \in {"crew", "read"} :
              Becomes(x, p, thread[x].run, thread[x].cart, thread[x].token,
                      thread[x].by, NoDecision)
      BY <1>3, ReceiveBecomes
    <2> QED
      BY <2>1, <2>2, FlowKept DEF Active, Waiting
  <1>4. ASSUME NEW x \in Threads, Unreachable(x)
        PROVE  FlowInv'
    <2>1. /\ thread[x].pc \in {"sent", "answered"}
          /\ Becomes(x, "failed", thread[x].run, thread[x].cart, thread[x].token,
                     thread[x].by, NoDecision)
          /\ UNCHANGED <<run, listed, paused, first, crowded>>
      BY <1>4, UnreachableBecomes DEF Unreachable, clientVars
    <2> QED
      BY <2>1, FlowKept DEF Active, Waiting
  <1>5. ASSUME NEW a \in Taps, Grant(a)
        PROVE  FlowInv'
    <2>1. thread[a].pc = "checked" /\ UNCHANGED <<run, listed, paused, first, crowded>>
      BY <1>5 DEF Grant, clientVars, modeAndHistory
    <2>2. \E p \in {"granted", "failed"} : \E token :
              Becomes(a, p, thread[a].run, thread[a].cart, token, thread[a].by,
                      thread[a].reply)
      BY <1>5, GrantBecomes DEF Goes
    <2> QED
      BY <1>0, <2>1, <2>2, FlowKept DEF Active, Waiting
  <1>6. CASE Elsewhere
    BY <1>6 DEF Elsewhere, FlowInv, Stored, StoredLast, Tapped, FollowsRun, OneAtATime
  <1> QED
    BY <1>1, <1>2, <1>3, <1>4, <1>5, <1>6, FlowPays, FlowEnds, FlowApproves,
       FlowSubmits, AgentSteps

-----------------------------------------------------------------------------
(***************************************************************************)
(* The cart a human approves.                                              *)
(***************************************************************************)
\* The first payment call of a run is written down once.
LEMMA FirstStays ==
    ASSUME Typed, Placed, FlowInv, NEW x \in Threads, NEW cart \in Carts,
           NEW token \in Carts \cup {NoCart}, NEW by \in {"crew", "graph"},
           Pays(x, cart, token, by)
    PROVE  /\ \A n \in Runs : first'[n] \in {NoCart, CartOf[n]} =>
                 first[n] \in {NoCart, CartOf[n]}
           /\ first'[thread[x].run] \in {NoCart, CartOf[thread[x].run]} =>
                 cart = CartOf[thread[x].run]
  <1> DEFINE n == thread[x].run
  <1> USE AgentAssumption
  <1>1. n \in Runs /\ (x \in Runs => n = x)
    BY DEF Pays, Placed
  <1>2. /\ first'[n] = (IF first[n] = NoCart THEN cart ELSE first[n])
        /\ \A m \in Runs \ {n} : first'[m] = first[m]
    BY <1>1 DEF Pays, CallTool, Typed
  <1>3. cart = CartOf[n] \/ first[n] = NoCart
    <2>1. CASE x \in Runs /\ thread[x].by = "none"
      BY <1>1, <2>1 DEF FlowInv, Stored, StoredLast
    <2>2. CASE cart = CartOf[n]
      BY <2>2
    <2> QED
      BY <1>1, <2>1, <2>2 DEF Pays
  <1>4. cart # NoCart
    OBVIOUS
  <1> QED
    BY <1>1, <1>2, <1>3, <1>4

\* Carts that stay where they are stay the run's own.
LEMMA CartKept ==
    ASSUME OneCart, NEW x \in Threads, NEW pc, NEW r, NEW cart, NEW token, NEW by,
           NEW reply, Becomes(x, pc, r, cart, token, by, reply),
           UNCHANGED <<run, last, first>>,
           token # NoCart => r \in Runs, OwnCart(r, token),
           pc = "sent" => OwnCart(r, cart),
           pc = "answered" => OwnCart(r, reply.cart)
    PROVE  OneCart'
  BY DEF OneCart, ThreadsCart, RunsCart, OwnCart, Becomes

LEMMA CartStep ==
    ASSUME Typed, Placed, FlowInv, OneCart, [AgentNext]_agentVars
    PROVE  OneCart'
  <1> USE AgentAssumption
  <1>0. /\ thread \in [Threads -> ThreadType]
        /\ run \in [Runs -> RunType] /\ last \in [Runs -> Decision]
        /\ \A a \in Taps : a \in Threads
        /\ \A n \in Runs : n \in Threads
        /\ \A x \in Threads : ThreadsCart(x)
        /\ \A n \in Runs : RunsCart(n)
    BY DEF Typed, Threads, OneCart
  <1>1. ASSUME NEW x \in Threads, Advances(x)
        PROVE  OneCart'
    <2>1. /\ \E p \in {"crew", "failed", "done"} : Goes(x, p)
          /\ UNCHANGED <<run, last, first>>
      BY <1>1 DEF Advances, clientVars
    <2>2. ThreadsCart(x)
      BY <1>0
    <2> QED
      BY <2>1, <2>2, CartKept DEF Goes, ThreadsCart
  <1>2. ASSUME NEW x \in Threads, NEW cart \in Carts,
               NEW token \in Carts \cup {NoCart}, NEW by \in {"crew", "graph"},
               Pays(x, cart, token, by)
        PROVE  OneCart'
    <2> DEFINE n == thread[x].run
    <2>1. /\ \A m \in Runs : first'[m] \in {NoCart, CartOf[m]} =>
                first[m] \in {NoCart, CartOf[m]}
          /\ first'[n] \in {NoCart, CartOf[n]} => cart = CartOf[n]
      BY <1>2, FirstStays
    <2>2. /\ \A y \in Threads \ {x} : thread'[y] = thread[y]
          /\ thread'[x].pc = "sent" /\ thread'[x].run = n
          /\ thread'[x].token = token /\ thread'[x].cart = cart
      BY <1>2 DEF Pays, Becomes
    <2>3. /\ UNCHANGED <<run, last>> /\ n \in Runs
          /\ token = NoCart \/ token = thread[x].token
      BY <1>2 DEF Pays, CallTool, Placed
    <2>4. ASSUME NEW m \in Runs, NEW c, OwnCart(m, c) PROVE OwnCart(m, c)'
      BY <2>1, <2>4 DEF OwnCart
    <2>5. ThreadsCart(x)'
      BY <1>0, <2>1, <2>2, <2>3, <2>4 DEF ThreadsCart, OwnCart
    <2>6. ASSUME NEW y \in Threads \ {x} PROVE ThreadsCart(y)'
      <3>1. ThreadsCart(y) /\ thread'[y] = thread[y]
        BY <1>0, <2>2
      <3>2. CASE thread[y].run \in Runs
        BY <2>1, <3>1, <3>2 DEF ThreadsCart, OwnCart
      <3>3. CASE thread[y].run \notin Runs
        <4>1. thread[y].token = NoCart /\ thread[y].pc \notin {"sent", "answered"}
          BY <3>1, <3>3 DEF ThreadsCart, Placed
        <4> QED
          BY <3>1, <4>1 DEF ThreadsCart, OwnCart
      <3> QED
        BY <3>2, <3>3
    <2>7. ASSUME NEW m \in Runs PROVE RunsCart(m)'
      BY <1>0, <2>1, <2>3 DEF RunsCart, OwnCart
    <2> QED
      BY <2>5, <2>6, <2>7 DEF OneCart
  <1>3. ASSUME NEW x \in Threads, Serves(x)
        PROVE  OneCart'
    <2>1. Served(x) /\ UNCHANGED <<run, last, first>> /\ ThreadsCart(x)
      BY <1>0, <1>3, Serving DEF ServeFacts, clientVars
    <2>2. CASE thread' = thread
      BY <2>1, <2>2 DEF OneCart, ThreadsCart, RunsCart, OwnCart
    <2>3. CASE thread' # thread
      <3>1. PICK reply \in Decision :
               reply.cart \in {NoCart, thread[x].cart} /\ Answers(x, reply)
        BY <2>1, <2>3 DEF Served
      <3>2. thread[x].pc = "sent"
        BY <2>1, <2>3 DEF Served
      <3>3. OwnCart(thread[x].run, reply.cart)
        BY <2>1, <3>1, <3>2 DEF ThreadsCart, OwnCart
      <3> QED
        BY <2>1, <3>1, <3>3, CartKept DEF ThreadsCart, Answers
    <2> QED
      BY <2>2, <2>3
  <1>4. ASSUME NEW x \in Threads, Receive(x)
        PROVE  OneCart'
    <2> DEFINE n == thread[x].run
    <2>1. thread[x].pc = "answered" /\ n \in Runs /\ ThreadsCart(x)
      BY <1>0, <1>4 DEF Receive, Placed
    <2>2. /\ last' = [last EXCEPT ![n] = thread[x].reply] /\ UNCHANGED <<run, first>>
      BY <1>4 DEF Receive
    <2>3. /\ \A y \in Threads \ {x} : thread'[y] = thread[y]
          /\ thread'[x].pc \in {"crew", "read"} /\ thread'[x].run = n
          /\ thread'[x].token = thread[x].token
      BY <1>4, ReceiveBecomes DEF Becomes
    <2>4. \A y \in Threads : ThreadsCart(y)'
      BY <1>0, <2>2, <2>3 DEF ThreadsCart, OwnCart
    <2>5. \A m \in Runs : RunsCart(m)'
      BY <1>0, <2>1, <2>2 DEF RunsCart, ThreadsCart, OwnCart
    <2> QED
      BY <2>4, <2>5 DEF OneCart
  <1>5. ASSUME NEW x \in Threads, Unreachable(x)
        PROVE  OneCart'
    <2>1. /\ Becomes(x, "failed", thread[x].run, thread[x].cart, thread[x].token,
                     thread[x].by, NoDecision)
          /\ UNCHANGED <<run, last, first>> /\ ThreadsCart(x)
      BY <1>0, <1>5, UnreachableBecomes DEF Unreachable, clientVars
    <2> QED
      BY <2>1, CartKept DEF ThreadsCart
  <1>6. ASSUME NEW n \in Runs, EndRun(n)
        PROVE  OneCart'
    <2>1. Goes(n, "done") /\ UNCHANGED <<last, first>>
      BY <1>0, <1>6, StepGoes DEF EndRun, PCs
    <2>2. /\ \A y \in Threads \ {n} : thread'[y] = thread[y]
          /\ thread'[n].pc = "done" /\ thread'[n].run = thread[n].run
          /\ thread'[n].token = thread[n].token
      BY <2>1 DEF Goes, Becomes
    <2>3. /\ \A m \in Runs \ {n} : run'[m] = run[m]
          /\ run'[n].request \in {last[n].cart, NoCart}
      BY <1>0, <1>6 DEF EndRun, RequestOf, DecisionStep
    <2>4. \A y \in Threads : ThreadsCart(y)'
      BY <1>0, <2>1, <2>2 DEF ThreadsCart, OwnCart
    <2>5. \A m \in Runs : RunsCart(m)'
      BY <1>0, <2>1, <2>3 DEF RunsCart, OwnCart
    <2> QED
      BY <2>4, <2>5 DEF OneCart
  <1>7. ASSUME NEW a \in Taps, NEW n \in Runs, Approve(a, n)
        PROVE  OneCart'
    <2>1. \E p \in {"checked", "failed"} :
             Becomes(a, p, n, thread[a].cart, thread[a].token, thread[a].by,
                     thread[a].reply)
      BY <1>7, ApproveBecomes
    <2>2. thread[a].token = NoCart /\ UNCHANGED <<run, last, first>>
      BY <1>7 DEF Approve, FlowInv, Tapped, FollowsRun, clientVars
    <2> QED
      BY <1>0, <2>1, <2>2, CartKept DEF OwnCart
  <1>8. ASSUME NEW a \in Taps, Grant(a)
        PROVE  OneCart'
    <2> DEFINE n == thread[a].run
    <2>1. thread[a].pc = "checked" /\ n \in Runs /\ UNCHANGED <<run, last, first>>
      BY <1>0, <1>8 DEF Grant, Placed, clientVars
    <2>2. RunsCart(n) /\ ThreadsCart(a)
      BY <1>0, <2>1
    <2>3. \E p \in {"granted", "failed"}, t \in {run[n].request, thread[a].token} :
              Becomes(a, p, n, thread[a].cart, t, thread[a].by, thread[a].reply)
      BY <1>8, GrantBecomes DEF Goes
    <2> QED
      BY <1>0, <2>1, <2>2, <2>3, CartKept DEF RunsCart, ThreadsCart
  <1>9. ASSUME NEW a \in Taps, submit_approved_payment(a)
        PROVE  OneCart'
    <2> DEFINE n == thread[a].run
    <2>1. n \in Runs /\ Goes(a, "done") /\ UNCHANGED <<last, first>>
      BY <1>0, <1>9, StepGoes DEF submit_approved_payment, PCs, Placed
    <2>2. /\ \A y \in Threads \ {a} : thread'[y] = thread[y]
          /\ thread'[a].pc = "done" /\ thread'[a].run = n
          /\ thread'[a].token = thread[a].token
      BY <2>1 DEF Goes, Becomes
    <2>3. run[n] \in RunType
      BY <1>0, <2>1
    <2>4. \A m \in Runs : run'[m].request = run[m].request
      BY <1>0, <1>9, <2>1, <2>3 DEF submit_approved_payment, RunType
    <2>5. \A y \in Threads : ThreadsCart(y)'
      BY <1>0, <2>1, <2>2 DEF ThreadsCart, OwnCart
    <2>6. \A m \in Runs : RunsCart(m)'
      BY <1>0, <2>1, <2>4 DEF RunsCart, OwnCart
    <2> QED
      BY <2>5, <2>6 DEF OneCart
  <1>10. CASE Elsewhere
    BY <1>10 DEF Elsewhere, OneCart, ThreadsCart, RunsCart, OwnCart
  <1> QED
    BY <1>1, <1>2, <1>3, <1>4, <1>5, <1>6, <1>7, <1>8, <1>9, <1>10, AgentSteps

LEMMA CartInitially == AgentInit => OneCart
  <1> SUFFICES ASSUME AgentInit PROVE OneCart
    OBVIOUS
  <1>1. PICK cast \in AgentCasts :
          thread = [x \in Threads |->
                [Idle EXCEPT !.run = IF x \in Runs THEN x ELSE NoCart,
                             !.pc = IF x \in cast.threads THEN "new" ELSE "done"]]
    BY DEF AgentInit
  <1>2. ASSUME NEW x \in Threads
        PROVE  thread[x].pc \in {"new", "done"} /\ thread[x].token = NoCart
    BY <1>1 DEF Idle
  <1>3. \A n \in Runs : last[n].cart = NoCart /\ run[n].request = NoCart
    BY DEF AgentInit, NoRun, NoDecision
  <1> QED
    BY <1>2, <1>3 DEF OneCart, ThreadsCart, RunsCart, OwnCart

\* A token is bound to the cart the bot shows, unless the crew paid for another
\* cart before the graph did: the graph pays only for the run's own cart, and
\* what the human grants is the request of the run's last decision.
THEOREM ApprovesTheShownCart == AgentSpec => []ApprovesWhatIsShown
  <1>1. Typed /\ OneCart => ApprovesWhatIsShown
    <2> SUFFICES ASSUME Typed, OneCart, NEW a \in Taps, thread[a].token # NoCart
                 PROVE  \/ thread[a].token = first[thread[a].run]
                        \/ first[thread[a].run] # CartOf[thread[a].run]
      BY DEF ApprovesWhatIsShown, ShownCart
    <2> QED
      BY DEF OneCart, ThreadsCart, OwnCart, Threads
  <1>2. Typed /\ Placed /\ FlowInv /\ OneCart /\ [AgentNext]_agentVars
           => FlowInv' /\ OneCart'
    BY FlowStep, CartStep
  <1> QED
    BY <1>1, <1>2, TypedInitially, TypedStep, FlowInitially, CartInitially, PTL
       DEF AgentSpec
-----------------------------------------------------------------------------
(***************************************************************************)
(* What the bot says of a refused run.                                     *)
(***************************************************************************)
\* A step of a thread with another run, or with no answer of its own, leaves
\* what is heard of a run alone.
LEMMA HeardKept ==
    ASSUME Placed, NEW n \in Runs, Heard(n),
           NEW x \in Threads, NEW pc, NEW r, NEW cart, NEW token, NEW by, NEW reply,
           Becomes(x, pc, r, cart, token, by, reply),
           \A y \in Threads \ {x} : handling'[y] = handling[y],
           thread[x].run # n \/ thread[x].pc \notin Active \cup {"done"},
           run'[n] = run[n], last'[n] = last[n], n \in paused' => n \in paused
    PROVE  Heard(n)'
  <1>1. /\ \A y \in Threads \ {x} : thread'[y] = thread[y]
        /\ n \in Threads /\ thread[n].run = n
    BY DEF Becomes, Placed, Threads
  <1> QED
    BY <1>1 DEF Heard, Active

\* While a thread of an uncrowded run has a payment under way, what is heard of
\* the run is what that thread will hear.
LEMMA HeardBy ==
    ASSUME FlowInv, Placed, NEW n \in Runs, n \notin crowded, Heard(n),
           NEW x \in Threads, thread[x].run = n, thread[x].pc \in Active
    PROVE  \/ /\ thread[x].pc = "sent" /\ thread[x].by = "graph"
              /\ handling[x].at \in {"charged", "over"}
           \/ /\ thread[x].pc = "answered" /\ thread[x].by = "graph"
              /\ Tells(thread[x].reply)
           \/ thread[x].pc = "read" /\ Tells(last[n])
  <1>1. ~(thread[n].pc = "done" /\ n \notin paused)
    <2>1. CASE x \in Runs
      BY <2>1 DEF Placed, Active
    <2>2. CASE x \in Taps
      BY <2>2 DEF FlowInv, Tapped, FollowsRun, Active
    <2> QED
      BY <2>1, <2>2 DEF Threads
  <1>2. \A y \in Threads : thread[y].run = n /\ thread[y].pc \in Active => y = x
    BY DEF FlowInv, OneAtATime
  <1> QED
    BY <1>1, <1>2 DEF Heard, Active

LEMMA HeardStep ==
    ASSUME Typed, Placed, FlowInv, ChargesHeard, [AgentNext]_agentVars
    PROVE  ChargesHeard'
  <1> USE AgentAssumption
  <1>0. /\ thread \in [Threads -> ThreadType]
        /\ run \in [Runs -> RunType] /\ last \in [Runs -> Decision]
        /\ \A a \in Taps : a \in Threads
        /\ \A n \in Runs : n \in Threads /\ thread[n].run = n
    BY DEF Typed, Threads, Placed
  <1>1. ASSUME NEW x \in Threads, Advances(x)
        PROVE  ChargesHeard'
    <2>1. /\ \E p \in {"crew", "failed", "done"} : Goes(x, p)
          /\ thread[x].pc \notin Active \cup {"done"}
          /\ UNCHANGED <<run, paused, last, handling, charges, unheard, crowded>>
      BY <1>1 DEF Advances, clientVars, gatewayVars, recordVars, Active
    <2>2. ASSUME NEW n \in Runs, Heard(n) PROVE Heard(n)'
      BY <2>1, <2>2, HeardKept DEF Goes
    <2> QED
      BY <2>1, <2>2 DEF ChargesHeard, CrewPaid
  <1>2. ASSUME NEW x \in Threads, NEW cart \in Carts,
               NEW token \in Carts \cup {NoCart}, NEW by \in {"crew", "graph"},
               Pays(x, cart, token, by)
        PROVE  ChargesHeard'
    <2>1. /\ Becomes(x, "sent", thread[x].run, cart, token, by, thread[x].reply)
          /\ thread[x].pc \notin Active \cup {"done"}
          /\ UNCHANGED <<run, paused, last, charges, unheard>>
          /\ \A y \in Threads \ {x} : handling'[y] = handling[y]
          /\ crowded \subseteq crowded'
      BY <1>2 DEF Pays, CallTool, Handles, recordVars, Active
    <2>2. ASSUME NEW n \in Runs, Heard(n) PROVE Heard(n)'
      BY <2>1, <2>2, HeardKept
    <2> QED
      BY <2>1, <2>2 DEF ChargesHeard, CrewPaid
  <1>3. ASSUME NEW x \in Threads, Serves(x)
        PROVE  ChargesHeard'
    <2>1. /\ UNCHANGED <<run, paused, last, unheard, crowded>>
          /\ Busy(x) /\ Served(x) /\ Outcome(x)
      BY <1>3, Serving DEF ServeFacts, clientVars, modeAndHistory
    <2>2. \A y \in Threads \ {x} : handling'[y] = handling[y]
      BY <2>1 DEF Outcome, Quits, Authorizes, Submits, Reserves, Leaves, Lapses,
                  Handles, HandlesOver
    <2>3. \/ charges' = charges
          \/ charges' = charges \cup {ChargeOf(x)} /\ Submits(x)
      BY <2>1 DEF Outcome, Quits, Authorizes, Submits, Reserves, Leaves, Lapses
    <2>4. ASSUME NEW n \in Runs, Heard(n), thread[x].run # n PROVE Heard(n)'
      <3>1. CASE thread' = thread
        BY <2>1, <2>2, <2>4, <3>1 DEF Heard
      <3>2. CASE thread' # thread
        <4>1. PICK reply \in Decision : Answers(x, reply)
          BY <2>1, <3>2 DEF Served
        <4> QED
          BY <2>1, <2>2, <2>4, <4>1, HeardKept DEF Answers
      <3> QED
        BY <3>1, <3>2
    <2>5. ASSUME NEW n \in Runs \ unheard, thread[x].run = n
          PROVE  thread[x].pc = "sent"
      BY <2>1, <2>5 DEF Placed
    <2>6. ASSUME NEW n \in Runs \ (unheard \cup crowded), Heard(n), thread[x].run = n
          PROVE  Heard(n)'
      <3>1. /\ thread[x].pc = "sent" /\ thread[x].by = "graph"
            /\ handling[x].at \in {"charged", "over"}
        BY <2>5, <2>6, HeardBy DEF Active
      <3>2. CASE thread' = thread
        <4>1. handling'[x].at \in {"charged", "over"}
          BY <2>1, <3>1 DEF Outcome, Quits, Authorizes, Submits, Reserves, Leaves,
                            Lapses, Handles, HandlesOver
        <4> QED
          BY <2>6, <3>1, <3>2, <4>1 DEF Heard
      <3>3. CASE thread' # thread
        <4>1. handling[x].at = "charged"
          BY <2>1, <3>1, <3>3 DEF Outcome, Quits, Authorizes, Submits, Reserves,
                                  Leaves, Lapses
        <4>2. PICK reply \in Decision : Answers(x, reply) /\ Tells(reply)
          BY <2>1, <3>3, <4>1 DEF Served
        <4>3. /\ thread'[x].run = n /\ thread'[x].pc = "answered"
              /\ thread'[x].by = "graph" /\ thread'[x].reply = reply
          BY <2>6, <3>1, <4>2 DEF Answers, Becomes
        <4>4. Tells(thread'[x].reply)
          BY <4>2, <4>3
        <4> QED
          BY <4>3, <4>4 DEF Heard
      <3> QED
        BY <3>2, <3>3
    <2>7. ASSUME NEW n \in Runs \ (unheard \cup crowded), ~CrewPaid(n)',
                 charges' = charges \cup {ChargeOf(x)}, Submits(x), thread[x].run = n
          PROVE  Heard(n)'
      <3>1. thread[x].pc = "sent" /\ thread[x].by \in {"none", "crew", "graph"}
        BY <1>0, <2>5, <2>7 DEF ThreadType
      <3>2. thread[x].by # "none"
        <4>1. CASE x \in Runs
          BY <3>1, <4>1 DEF FlowInv, Stored, StoredLast, Active
        <4>2. CASE x \in Taps
          BY <3>1, <4>2 DEF FlowInv, Tapped, FollowsRun, Active
        <4> QED
          BY <4>1, <4>2 DEF Threads
      <3>3. ChargeOf(x) \in charges' /\ ChargeOf(x).run = n
            /\ ChargeOf(x).tool = thread[x].by
        BY <2>7 DEF ChargeOf
      <3>4. thread[x].by = "graph"
        BY <2>7, <3>1, <3>2, <3>3 DEF CrewPaid
      <3>5. thread' = thread /\ handling'[x].at = "charged"
        BY <2>7 DEF Submits, Handles
      <3> QED
        BY <2>7, <3>1, <3>4, <3>5 DEF Heard
    <2>8. SUFFICES ASSUME NEW n \in Runs \ (unheard \cup crowded), ~CrewPaid(n)',
                          NEW c \in charges', c.run = n
                   PROVE  Heard(n)'
      BY <2>1 DEF ChargesHeard
    <2>9. CASE c \in charges
      <3>1. ~CrewPaid(n)
        BY <2>3, <2>8 DEF CrewPaid
      <3>2. Heard(n)
        BY <2>8, <2>9, <3>1 DEF ChargesHeard
      <3> QED
        BY <2>4, <2>6, <3>2
    <2>10. CASE c \notin charges
      <3>1. c = ChargeOf(x) /\ charges' = charges \cup {ChargeOf(x)} /\ Submits(x)
        BY <2>3, <2>8, <2>10
      <3>2. thread[x].run = n
        BY <2>8, <3>1 DEF ChargeOf
      <3> QED
        BY <2>7, <2>8, <3>1, <3>2
    <2> QED
      BY <2>9, <2>10
  <1>4. ASSUME NEW x \in Threads, Receive(x)
        PROVE  ChargesHeard'
    <2>1. /\ thread[x].pc = "answered" /\ thread[x].run \in Runs
          /\ UNCHANGED <<run, paused, handling, charges, unheard, crowded>>
      BY <1>4 DEF Receive, modeAndHistory, gatewayVars, recordVars, Placed
    <2>2. /\ last'[thread[x].run] = thread[x].reply
          /\ \A m \in Runs \ {thread[x].run} : last'[m] = last[m]
      BY <1>0, <1>4, <2>1 DEF Receive
    <2>3. Becomes(x, IF thread[x].by = "crew" THEN "crew" ELSE "read",
                  thread[x].run, thread[x].cart, thread[x].token, thread[x].by,
                  NoDecision)
      BY <1>4, ReceiveBecomes
    <2>4. ASSUME NEW n \in Runs, n \notin crowded, Heard(n) PROVE Heard(n)'
      <3>1. CASE thread[x].run # n
        BY <2>1, <2>2, <2>3, <2>4, <3>1, HeardKept
      <3>2. CASE thread[x].run = n
        <4>1. thread[x].by = "graph" /\ Tells(thread[x].reply)
          BY <2>1, <2>4, <3>2, HeardBy DEF Active
        <4>2. thread'[x].run = n /\ thread'[x].pc = "read"
          BY <2>3, <3>2, <4>1 DEF Becomes
        <4>3. Tells(last'[n])
          BY <2>2, <3>2, <4>1
        <4> QED
          BY <4>2, <4>3 DEF Heard
      <3> QED
        BY <3>1, <3>2
    <2> QED
      BY <2>1, <2>4 DEF ChargesHeard, CrewPaid
  <1>5. ASSUME NEW x \in Threads, Unreachable(x)
        PROVE  ChargesHeard'
    <2>1. /\ Becomes(x, "failed", thread[x].run, thread[x].cart, thread[x].token,
                     thread[x].by, NoDecision)
          /\ UNCHANGED <<run, paused, last, handling, charges, crowded>>
          /\ unheard' = unheard \cup {thread[x].run}
      BY <1>5, UnreachableBecomes DEF Unreachable, clientVars, gatewayVars, recordVars
    <2>2. ASSUME NEW n \in Runs, n \notin unheard', Heard(n) PROVE Heard(n)'
      BY <2>1, <2>2, HeardKept
    <2> QED
      BY <2>1, <2>2 DEF ChargesHeard, CrewPaid
  <1>6. ASSUME NEW m \in Runs, EndRun(m)
        PROVE  ChargesHeard'
    <2>1. /\ Goes(m, "done") /\ thread[m].pc = "read"
          /\ UNCHANGED <<last, handling, charges, unheard, crowded>>
      BY <1>0, <1>6, StepGoes DEF EndRun, PCs, gatewayVars, recordVars, modeAndHistory
    <2>2. /\ \A n \in Runs \ {m} : run'[n] = run[n] /\ (n \in paused' => n \in paused)
          /\ run'[m].decision = last[m].decision
          /\ run'[m].failClosed = last[m].failClosed
          /\ Tells(last[m]) => paused' = paused
      BY <1>0, <1>6 DEF EndRun, DecisionStep, route_on_decision, Tells
    <2>3. m \notin paused
      BY <2>1 DEF FlowInv, Stored, StoredLast
    <2>4. ASSUME NEW n \in Runs, n \notin crowded, Heard(n) PROVE Heard(n)'
      <3>1. CASE n # m
        BY <1>0, <2>1, <2>2, <2>4, <3>1, HeardKept DEF Goes
      <3>2. CASE n = m
        <4>1. Tells(last[m])
          BY <1>0, <2>1, <2>4, <3>2, HeardBy DEF Active
        <4>2. thread'[m].pc = "done"
          BY <2>1 DEF Goes, Becomes
        <4>3. Tells(run'[m])
          BY <2>2, <4>1 DEF Tells
        <4> QED
          BY <2>2, <2>3, <3>2, <4>1, <4>2, <4>3 DEF Heard
      <3> QED
        BY <3>1, <3>2
    <2> QED
      BY <2>1, <2>4 DEF ChargesHeard, CrewPaid
  <1>7. ASSUME NEW a \in Taps, NEW m \in Runs, Approve(a, m)
        PROVE  ChargesHeard'
    <2>1. \E p \in {"checked", "failed"} :
             Becomes(a, p, m, thread[a].cart, thread[a].token, thread[a].by,
                     thread[a].reply)
      BY <1>7, ApproveBecomes
    <2>2. /\ thread[a].pc = "new"
          /\ UNCHANGED <<run, paused, last, handling, charges, unheard, crowded>>
      BY <1>7 DEF Approve, clientVars, gatewayVars, recordVars, modeAndHistory
    <2>3. ASSUME NEW n \in Runs, Heard(n) PROVE Heard(n)'
      BY <1>0, <2>1, <2>2, <2>3, HeardKept DEF Active
    <2> QED
      BY <2>2, <2>3 DEF ChargesHeard, CrewPaid
  <1>8. ASSUME NEW a \in Taps, Grant(a)
        PROVE  ChargesHeard'
    <2>1. /\ thread[a].pc = "checked"
          /\ UNCHANGED <<run, paused, last, handling, charges, unheard, crowded>>
      BY <1>8 DEF Grant, clientVars, gatewayVars, recordVars, modeAndHistory
    <2>2. \E p \in {"granted", "failed"} : \E token :
              Becomes(a, p, thread[a].run, thread[a].cart, token, thread[a].by,
                      thread[a].reply)
      BY <1>8, GrantBecomes DEF Goes
    <2>3. ASSUME NEW n \in Runs, Heard(n) PROVE Heard(n)'
      BY <1>0, <2>1, <2>2, <2>3, HeardKept DEF Active
    <2> QED
      BY <2>1, <2>3 DEF ChargesHeard, CrewPaid
  <1>9. ASSUME NEW a \in Taps, submit_approved_payment(a)
        PROVE  ChargesHeard'
    <2> DEFINE m == thread[a].run
    <2>1. /\ m \in Runs /\ Goes(a, "done") /\ thread[a].pc = "read"
          /\ UNCHANGED <<last, handling, charges, unheard, crowded>>
      BY <1>0, <1>9, StepGoes
         DEF submit_approved_payment, PCs, Placed, gatewayVars, recordVars,
             modeAndHistory
    <2>2. run[m] \in RunType
      BY <1>0, <2>1
    <2>3. /\ \A n \in Runs \ {m} : run'[n] = run[n]
          /\ run'[m].decision = last[m].decision
          /\ run'[m].failClosed = last[m].failClosed
          /\ paused' = paused \ {m}
      BY <1>0, <1>9, <2>1, <2>2 DEF submit_approved_payment, DecisionStep, RunType
    <2>4. thread[m].pc = "done" /\ thread'[m] = thread[m]
      <3>1. thread[m].pc = "done"
        BY <2>1 DEF FlowInv, Tapped, FollowsRun, Waiting, Active
      <3> QED
        BY <1>0, <2>1, <3>1 DEF Goes, Becomes
    <2>5. ASSUME NEW n \in Runs, n \notin crowded, Heard(n) PROVE Heard(n)'
      <3>1. CASE n # m
        BY <1>0, <2>1, <2>3, <2>5, <3>1, HeardKept DEF Goes
      <3>2. CASE n = m
        <4>1. Tells(last[m])
          BY <1>0, <2>1, <2>5, <3>2, HeardBy DEF Active
        <4>2. Tells(run'[m])
          BY <2>3, <4>1 DEF Tells
        <4> QED
          BY <2>3, <2>4, <3>2, <4>2 DEF Heard
      <3> QED
        BY <3>1, <3>2
    <2> QED
      BY <2>1, <2>5 DEF ChargesHeard, CrewPaid
  <1>10. CASE Elsewhere
    BY <1>10 DEF Elsewhere, ChargesHeard, CrewPaid, Heard, Tells
  <1> QED
    BY <1>1, <1>2, <1>3, <1>4, <1>5, <1>6, <1>7, <1>8, <1>9, <1>10, AgentSteps

\* The bot's "the provider was never contacted" is true of a blocked run whose
\* payments came one after the other, whose answers all came back, whose crew did
\* not pay by itself and whose BLOCK is not the one for an exception: the money
\* that moved is then still with the gateway, or the ALLOW or fail-closed BLOCK
\* that followed it is on its way to the run, or is what the run shows, and no
\* later decision hides it.
THEOREM RefusalsAreHonest == AgentSpec => []RefusalIsHonest
  <1>1. AgentInit => ChargesHeard
    BY DEF AgentInit, ChargesHeard
  <1>2. Placed /\ FlowInv /\ ChargesHeard => RefusalIsHonest
    <2> SUFFICES ASSUME Placed, FlowInv, ChargesHeard, NEW n \in Runs,
                        run[n].decision = "BLOCK", ~run[n].failClosed, n \notin unheard \cup crowded,
                        ~CrewPaid(n), NEW c \in charges, c.run = n
                 PROVE  FALSE
      BY DEF RefusalIsHonest, SaysNeverContacted
    <2>1. Heard(n)
      BY DEF ChargesHeard
    <2>2. PICK x \in Threads : thread[x].run = n /\ thread[x].pc \in Active
      BY <2>1 DEF Heard, Tells, Active
    <2>3. CASE x \in Runs
      BY <2>2, <2>3 DEF Placed, FlowInv, Stored, StoredLast, Active
    <2>4. CASE x \in Taps
      BY <2>2, <2>4 DEF FlowInv, Tapped, FollowsRun, Active, Stored, StoredLast
    <2> QED
      BY <2>3, <2>4 DEF Threads
  <1>3. Typed /\ Placed /\ FlowInv /\ ChargesHeard /\ [AgentNext]_agentVars
           => FlowInv' /\ ChargesHeard'
    BY FlowStep, HeardStep
  <1> QED
    BY <1>1, <1>2, <1>3, TypedInitially, TypedStep, FlowInitially, PTL DEF AgentSpec
=============================================================================
