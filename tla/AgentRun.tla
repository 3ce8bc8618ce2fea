------------------------------ MODULE AgentRun ------------------------------
(***************************************************************************)
(* Agent runs: the shopping graph, the human who approves, and the bot     *)
(* that tells the human what happened.                                     *)
(*                                                                         *)
(* start_run drives a graph (search, cart, payment) and stores the run     *)
(* when the graph ends or pauses for approval; approve_and_resume grants   *)
(* the approval and resumes it.  Each runs in a thread of its own, nothing *)
(* locks a run, and all threads of a run append to one transcript, from    *)
(* which each takes the last gateway decision as its own.                  *)
(*                                                                         *)
(* The gateway handles a submission in steps of its own, which go on when  *)
(* the client has given up: the verdict under the fingerprint lock, the    *)
(* charge, and only then the reservation of the fingerprint and the        *)
(* answer.  It may raise or die before each.  The verdict itself is        *)
(* PolicyDecision's, and the rows and keys are PaymentGateway's.           *)
(***************************************************************************)
EXTENDS Integers, FiniteSets

CONSTANTS
    Runs,           \* runs, each named like the thread that starts it
    Taps,           \* calls of the approve endpoint
    Carts,
    CartOf,         \* the cart the graph builds for a run
    NeedsApproval,  \* carts at or above the approval threshold
    CrewCarts,      \* carts a live crew may submit by itself
    AgentCasts,     \* bound: the threads of a behaviour, and settings.offline()
    MaxBucket,      \* bound: fingerprint windows that pass
    MaxResets,      \* bound: resets of the demo
    NoCart

ASSUME AgentAssumption ==
    /\ Runs \cap Taps = {}
    /\ CartOf \in [Runs -> Carts]
    /\ NeedsApproval \subseteq Carts /\ CrewCarts \subseteq Carts
    /\ AgentCasts \subseteq [threads : SUBSET (Runs \cup Taps), offline : BOOLEAN]
    /\ MaxBucket \in Nat /\ MaxResets \in Nat
    /\ NoCart \notin Carts

VARIABLES
    offline,    \* the crew is scripted
    thread,     \* progress of start_run and of approve_and_resume
    run,        \* a Run: what the API and the bot show of it
    listed,     \* _RUNS: the runs get_run finds
    paused,     \* runs whose graph waits at its interrupt
    first,      \* the cart of a transcript's first payment tool call
    last,       \* a transcript's last gateway decision
    handling,   \* the gateway's handling of a thread's last submission
    slot,       \* fingerprints reserved, as <<cart, bucket>>
    bucket,     \* the current fingerprint window
    pending,    \* carts with a parked approval request (those of a cart are one)
    charges,    \* (history) what the provider charged
    resets,     \* (history) resets of the gateway's records
    loose,      \* (history) calls that left their fingerprint unguarded
    unheard,    \* (history) runs that lost an answer of the gateway
    crowded     \* (history) runs with two payments under way at a time

agentVars == <<offline, thread, run, listed, paused, first, last, handling, slot,
               bucket, pending, charges, resets, loose, unheard, crowded>>

Threads == Runs \cup Taps

\* What a client keeps of an answer.  failClosed: the reason code is that of an
\* exception, INTERNAL_ERROR_FAIL_CLOSED or CONCURRENT_REQUEST_IN_FLIGHT.
NoDecision == [decision |-> "none", cart |-> NoCart, failClosed |-> FALSE]

Idle == [pc |-> "new", run |-> NoCart, cart |-> NoCart, token |-> NoCart,
         by |-> "none", reply |-> NoDecision]

NoRun == [status |-> "none", decision |-> "none", request |-> NoCart,
          failClosed |-> FALSE]

\* at: where the handler is.  held: its fingerprint lock is.  window: that of the
\* fingerprint (before the verdict, the one in which the request was sent).
\* epoch: the resets before the duplicate check.
NoCall == [at |-> "none", held |-> FALSE, window |-> 0, epoch |-> 0]

AgentInit ==
    /\ \E cast \in AgentCasts :
          /\ offline = cast.offline
          /\ thread = [x \in Threads |->
                [Idle EXCEPT !.run = IF x \in Runs THEN x ELSE NoCart,
                             !.pc = IF x \in cast.threads THEN "new" ELSE "done"]]
    /\ run = [n \in Runs |-> NoRun]
    /\ listed = {}
    /\ paused = {}
    /\ first = [n \in Runs |-> NoCart]
    /\ last = [n \in Runs |-> NoDecision]
    /\ handling = [x \in Threads |-> NoCall]
    /\ slot = {}
    /\ bucket = 0
    /\ pending = {}
    /\ charges = {}
    /\ resets = 0
    /\ loose = {}
    /\ unheard = {}
    /\ crowded = {}

clientVars == <<run, listed, paused, first, last>>
recordVars == <<slot, bucket, pending, charges, resets, loose>>
gatewayVars == <<handling, recordVars>>
modeAndHistory == <<offline, unheard, crowded>>

Step(x, label) == thread' = [thread EXCEPT ![x].pc = label]

-----------------------------------------------------------------------------
\* start_run: client.seed, or GATEWAY_SEED_FAILED.
Seed(n) ==
    /\ thread[n].pc = "new"
    /\ \E label \in {"crew", "failed"} : Step(n, label)
    /\ UNCHANGED <<clientVars, gatewayVars, modeAndHistory>>

\* The payment tool: the call goes into the transcript, then to the gateway.
CallTool(x, cart, token, by) ==
    LET n == thread[x].run
    IN  /\ thread' = [thread EXCEPT ![x].pc = "sent", ![x].cart = cart,
                                    ![x].token = token, ![x].by = by]
        /\ first' = [first EXCEPT ![n] = IF @ = NoCart THEN cart ELSE @]
        /\ crowded' = IF \E y \in Threads \ {x} :
                            /\ thread[y].run = n
                            /\ thread[y].pc \in {"sent", "answered", "read"}
                      THEN crowded \cup {n} ELSE crowded
        /\ handling' = [handling EXCEPT ![x] =
                        [NoCall EXCEPT !.at = "sent", !.window = bucket]]
        /\ UNCHANGED <<run, listed, paused, last, recordVars, offline, unheard>>

\* search and build_cart: a live crew holds the payment tool and may use it,
\* or fail; offline they are scripted.  Bound: one call of the crew's own.
LiveCrew(n) == ~offline /\ thread[n].pc = "crew"

CrewPays(n) ==
    /\ LiveCrew(n) /\ thread[n].by = "none"
    /\ \E cart \in CrewCarts : CallTool(n, cart, NoCart, "crew")

CrewFails(n) ==
    /\ LiveCrew(n)
    /\ Step(n, "failed")
    /\ UNCHANGED <<clientVars, gatewayVars, modeAndHistory>>

propose_payment(n) ==
    /\ thread[n].pc = "crew"
    /\ CallTool(n, CartOf[n], NoCart, "graph")

-----------------------------------------------------------------------------
\* The decisions open to the gateway: a fingerprint reserved in window w blocks,
\* a token counts for the cart it is bound to, and any request may be blocked or,
\* if it has no token, held for review.
Verdict_bug(cart, token, w) ==
    {"BLOCK"} \cup (IF token = NoCart THEN {"REQUIRE_APPROVAL"} ELSE {})
              \cup (IF token = cart \/ (token = NoCart /\ cart \notin NeedsApproval)
                    THEN {"ALLOW"} ELSE {})

Verdict(cart, token, w) ==
    {"BLOCK"} \cup
    (IF <<cart, w>> \in slot THEN {}
     ELSE (IF token = NoCart THEN {"REQUIRE_APPROVAL"} ELSE {})
          \cup (IF token = cart \/ (token = NoCart /\ cart \notin NeedsApproval)
                THEN {"ALLOW"} ELSE {}))

\* The answers: one that states a decision; the BLOCK for an exception, of the
\* application's handler or, for a TimeoutError, of the route's; and one that
\* holds no decision, of a request that does not validate.
Stated(d, cart) == [decision |-> d, cart |-> cart, failClosed |-> FALSE]

FailClosed == [NoDecision EXCEPT !.decision = "BLOCK", !.failClosed = TRUE]

Undecided == [NoDecision EXCEPT !.decision = "ERROR"]

\* An answer goes to the client, if that still waits.
Reply(x, reply) ==
    thread' = IF thread[x].pc # "sent" THEN thread
              ELSE [thread EXCEPT ![x].pc = "answered", ![x].reply = reply]

\* The handler is over and its locks are released.
Ends(x) == handling' = [handling EXCEPT ![x] = [NoCall EXCEPT !.at = "over"]]

\* Another request holds the lock of a fingerprint.
Locked(x, fp) ==
    \E y \in Threads \ {x} :
        handling[y].held /\ fp = <<thread[y].cart, handling[y].window>>

\* The call that a thread has under way.
ThisCall(x) == <<x, thread[x].by>>

\* Before the pipeline: the request does not validate, or identity or the edge
\* limiter refuses it.
TurnedAway(x) ==
    /\ handling[x].at = "sent"
    /\ \E reply \in {Undecided, Stated("BLOCK", thread[x].cart)} : Reply(x, reply)
    /\ Ends(x)
    /\ UNCHANGED <<clientVars, recordVars, modeAndHistory>>

\* _run_pipeline up to the verdict, under the lock of the fingerprint, whose
\* window is that of the arrival.  A refusal is answered at once; if something
\* raises after it, as a BLOCK for that exception.
Decide(x) ==
    LET me == thread[x]
    IN  /\ handling[x].at = "sent"
        /\ \E w \in handling[x].window..bucket :
              /\ ~Locked(x, <<me.cart, w>>)
              /\ \E d \in Verdict(me.cart, me.token, w) :
                    \/ /\ d = "ALLOW"
                       /\ handling' = [handling EXCEPT ![x] =
                             [at |-> "charging", held |-> TRUE, window |-> w,
                              epoch |-> resets]]
                       /\ UNCHANGED <<thread, pending>>
                    \/ /\ d # "ALLOW"
                       /\ \E reply \in {FailClosed, Stated(d, me.cart)} :
                             Reply(x, reply)
                       /\ Ends(x)
                       /\ pending' = IF d = "BLOCK" THEN pending
                                                    ELSE pending \cup {me.cart}
        /\ UNCHANGED <<clientVars, slot, bucket, charges, resets, loose,
                       modeAndHistory>>

\* authorize and submit: the provider confirms, declines or does not answer, and
\* money moves or does not (a charge that comes after the timeout counts here).
\* All of these are ALLOW to the caller, in a state that nobody here looks at.
Submit(x) ==
    LET me == thread[x]
    IN  /\ handling[x].at = "charging"
        /\ handling' = [handling EXCEPT ![x] = [@ EXCEPT !.at = "charged"]]
        /\ charges' \in {charges, charges \cup
                {[run |-> me.run, by |-> x, tool |-> me.by, cart |-> me.cart,
                  bucket |-> handling[x].window, resets |-> handling[x].epoch]}}
        /\ UNCHANGED <<thread, clientVars, slot, bucket, pending, resets, loose,
                       modeAndHistory>>

\* The audit write, remember_outcome, the locks' release and the answer.
Remember(x) ==
    /\ handling[x].at = "charged"
    /\ slot' = slot \cup {<<thread[x].cart, handling[x].window>>}
    /\ Reply(x, Stated("ALLOW", thread[x].cart))
    /\ Ends(x)
    /\ UNCHANGED <<clientVars, bucket, pending, charges, resets, loose, modeAndHistory>>

\* A lock is not got in time, or something raises in the pipeline, after a charge
\* perhaps before the fingerprint is reserved: the locks are released and the
\* answer is BLOCK.
Raise(x) ==
    /\ handling[x].at \in {"sent", "charging", "charged"}
    /\ IF handling[x].at # "charged" THEN UNCHANGED <<slot, loose>>
       ELSE \/ /\ slot' = slot \cup {<<thread[x].cart, handling[x].window>>}
               /\ UNCHANGED loose
            \/ /\ loose' = loose \cup {ThisCall(x)}
               /\ UNCHANGED slot
    /\ Reply(x, FailClosed)
    /\ Ends(x)
    /\ UNCHANGED <<clientVars, bucket, pending, charges, resets, modeAndHistory>>

\* The request is lost, or the worker dies: its lock stays for a while.
Die(x) ==
    /\ handling[x].at \in {"sent", "charging", "charged"}
    /\ handling' = [handling EXCEPT ![x] = [@ EXCEPT !.at = "over", !.epoch = 0]]
    /\ loose' = IF handling[x].at = "charged" THEN loose \cup {ThisCall(x)} ELSE loose
    /\ UNCHANGED <<thread, clientVars, slot, bucket, pending, charges, resets,
                   modeAndHistory>>

\* The TTL of a fingerprint lock runs out, whatever its holder does.
Lapse(x) ==
    /\ handling[x].held
    /\ handling' = [handling EXCEPT ![x] = [@ EXCEPT !.held = FALSE]]
    /\ loose' = IF handling[x].at = "over" THEN loose ELSE loose \cup {ThisCall(x)}
    /\ UNCHANGED <<thread, clientVars, slot, bucket, pending, charges, resets,
                   modeAndHistory>>

\* The answer reaches the tool, which writes it into the transcript.  The
\* crew's thread goes on with the graph, the others read the transcript.
Receive(x) ==
    /\ thread[x].pc = "answered"
    /\ last' = [last EXCEPT ![thread[x].run] = thread[x].reply]
    /\ thread' = [thread EXCEPT ![x].reply = NoDecision,
                     ![x].pc = IF thread[x].by = "crew" THEN "crew" ELSE "read"]
    /\ UNCHANGED <<run, listed, paused, first, gatewayVars, modeAndHistory>>

\* The client sends the request again by itself.
Unreachable_bug(x) ==
    /\ thread[x].pc \in {"sent", "answered"} /\ handling[x].at = "over"
    /\ Step(x, "sent")
    /\ handling' = [handling EXCEPT ![x] =
                       [NoCall EXCEPT !.at = "sent", !.window = bucket]]
    /\ UNCHANGED <<clientVars, recordVars, modeAndHistory>>

\* GATEWAY_UNREACHABLE: the client gives up, or the answer is lost.  The gateway
\* does not learn of it.
Unreachable(x) ==
    /\ thread[x].pc \in {"sent", "answered"}
    /\ thread' = [thread EXCEPT ![x].pc = "failed", ![x].reply = NoDecision]
    /\ unheard' = unheard \cup {thread[x].run}
    /\ UNCHANGED <<clientVars, gatewayVars, offline, crowded>>

-----------------------------------------------------------------------------
\* The last gateway decision of the transcript, whoever put it there.
DecisionStep(n) == last[n]

\* propose_payment's end, route_on_decision and the node it leads to; the run
\* is stored only now.
route_on_decision(d) ==
    CASE d = "ALLOW" -> "completed"
      [] d = "REQUIRE_APPROVAL" -> "awaiting_approval"
      [] OTHER -> "blocked"

\* await_approval derives the request's id from the decision it was given.
RequestOf_bug(n, d) == IF pending = {} THEN NoCart ELSE CHOOSE c \in pending : TRUE

RequestOf(n, d) == IF d.decision = "REQUIRE_APPROVAL" THEN d.cart ELSE NoCart

EndRun(n) ==
    LET d == DecisionStep(n)
        status == route_on_decision(d.decision)
    IN  /\ thread[n].pc = "read"
        /\ run' = [run EXCEPT ![n] = [status |-> status, decision |-> d.decision,
                                      request |-> RequestOf(n, d),
                                      failClosed |-> d.failClosed]]
        /\ listed' = listed \cup {n}
        /\ paused' = IF status = "awaiting_approval" THEN paused \cup {n} ELSE paused
        /\ Step(n, "done")
        /\ UNCHANGED <<first, last, gatewayVars, modeAndHistory>>

-----------------------------------------------------------------------------
Awaiting(n) == run[n].status = "awaiting_approval"

\* approve_and_resume, from the bot's button or from the API: unknown run or
\* one that is not waiting is an error.
Approve(a, n) ==
    /\ thread[a].pc = "new"
    /\ n \in listed
    /\ thread' = [thread EXCEPT ![a].run = n, ![a].pc =
                     IF Awaiting(n) THEN "checked" ELSE "failed"]
    /\ UNCHANGED <<clientVars, gatewayVars, modeAndHistory>>

\* grant: a token for what was parked, or 404 once that has expired.
Grant(a) ==
    LET request == run[thread[a].run].request
    IN  /\ thread[a].pc = "checked"
        /\ IF request \in pending
           THEN thread' = [thread EXCEPT ![a].pc = "granted", ![a].token = request]
           ELSE Step(a, "failed")
        /\ UNCHANGED <<clientVars, gatewayVars, modeAndHistory>>

\* update_state and invoke: a graph still at its interrupt goes on to
\* submit_approved_payment; one that has ended returns the state it ended in,
\* which the run has already, and the run is stored again.
Resume(a) ==
    LET n == thread[a].run
    IN  /\ thread[a].pc = "granted"
        /\ \/ n \in paused /\ CallTool(a, CartOf[n], thread[a].token, "graph")
           \/ /\ n \notin paused
              /\ listed' = listed \cup {n}
              /\ Step(a, "done")
              /\ UNCHANGED <<run, paused, first, last, gatewayVars, modeAndHistory>>

submit_approved_payment(a) ==
    LET n == thread[a].run
        d == DecisionStep(n)
    IN  /\ thread[a].pc = "read" /\ a \in Taps
        /\ run' = [run EXCEPT ![n] =
                     [@ EXCEPT !.status = IF d.decision = "ALLOW" THEN "completed"
                                                                  ELSE "blocked",
                               !.decision = d.decision,
                               !.failClosed = d.failClosed]]
        /\ listed' = listed \cup {n}
        /\ paused' = paused \ {n}
        /\ Step(a, "done")
        /\ UNCHANGED <<first, last, gatewayVars, modeAndHistory>>

\* The fingerprint window rolls over.
BucketPasses ==
    /\ bucket < MaxBucket
    /\ bucket' = bucket + 1
    /\ UNCHANGED <<thread, clientVars, handling, slot, pending, charges, resets, loose,
                   modeAndHistory>>

\* A parked request reaches APPROVAL_TTL_SECONDS.
RequestExpires ==
    /\ \E c \in pending : pending' = pending \ {c}
    /\ UNCHANGED <<thread, clientVars, handling, slot, bucket, charges, resets, loose,
                   modeAndHistory>>

\* reset_demo_state: the gateway's records and _RUNS go; the locks stay, and the
\* threads in flight keep their run and its graph.
ResetDemoState ==
    /\ resets < MaxResets
    /\ resets' = resets + 1
    /\ slot' = {} /\ pending' = {}
    /\ listed' = {}
    /\ UNCHANGED <<thread, run, paused, first, last, handling, bucket, charges, loose,
                   modeAndHistory>>

AgentNext ==
    \/ \E n \in Runs : \/ Seed(n) \/ CrewPays(n) \/ CrewFails(n)
                       \/ propose_payment(n) \/ EndRun(n)
    \/ \E x \in Threads : \/ TurnedAway(x) \/ Decide(x) \/ Submit(x) \/ Remember(x)
                          \/ Raise(x) \/ Die(x) \/ Lapse(x)
                          \/ Receive(x) \/ Unreachable(x)
    \/ \E a \in Taps : \/ \E n \in Runs : Approve(a, n)
                       \/ Grant(a) \/ Resume(a) \/ submit_approved_payment(a)
    \/ BucketPasses \/ RequestExpires \/ ResetDemoState

AgentSpec == AgentInit /\ [][AgentNext]_agentVars

-----------------------------------------------------------------------------
\* What the bot shows: the first cart of the transcript, and for a BLOCK that
\* the provider was never contacted.
ShownCart(n) == first[n]

SaysNeverContacted(n) == run[n].decision = "BLOCK"

-----------------------------------------------------------------------------
AgentTypeOK ==
    /\ \A x \in Threads :
          /\ thread[x].pc \in {"new", "crew", "sent", "answered", "read", "checked",
                               "granted", "done", "failed"}
          /\ thread[x].run \in Runs \cup {NoCart}
          /\ handling[x].at \in {"none", "sent", "charging", "charged", "over"}
          /\ handling[x].window \in 0..MaxBucket /\ handling[x].epoch \in 0..MaxResets
    /\ \A n \in Runs : run[n].status \in {"none", "awaiting_approval", "completed",
                                          "blocked"}
    /\ listed \subseteq Runs /\ paused \subseteq Runs /\ pending \subseteq Carts
    /\ bucket \in 0..MaxBucket /\ resets \in 0..MaxResets
    /\ unheard \cup crowded \subseteq Runs

\* Tapping Approve twice, approving again after an answer was lost, or running
\* the same purchase twice charges a cart once per fingerprint window, although
\* every resubmission carries a fresh idempotency key.  The exceptions are calls
\* that left their fingerprint unguarded: the lock's TTL ran out before the
\* reservation, or the handler raised or died between the charge and it.
OneChargePerWindow ==
    \A p, q \in {c \in charges : <<c.by, c.tool>> \notin loose} :
        p.cart = q.cart /\ p.bucket = q.bucket /\ p.resets = q.resets => p = q

\* Runs in which the crew paid by itself.
CrewPaid(n) == \E c \in charges : c.run = n /\ c.tool = "crew"

\* The bot says of a blocked run "No token was issued. The provider was never
\* contacted."  That is true as long as the run's payments came one after the
\* other, every answer came back, the crew did not pay by itself and the BLOCK is
\* not the one for an exception, which may follow a charge.
RefusalIsHonest ==
    \A n \in Runs :
        /\ SaysNeverContacted(n) /\ ~run[n].failClosed
        /\ n \notin unheard \cup crowded /\ ~CrewPaid(n)
        => \A c \in charges : c.run # n

\* The human decides about the cart the bot displays, the first one in the
\* transcript: a token is bound to it, unless the crew called the payment tool
\* for another cart before the graph did.
ApprovesWhatIsShown ==
    \A a \in Taps :
        LET n == thread[a].run
        IN  thread[a].token # NoCart =>
                thread[a].token = ShownCart(n) \/ ShownCart(n) # CartOf[n]
=============================================================================
