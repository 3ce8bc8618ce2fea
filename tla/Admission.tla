----------------------------- MODULE Admission ------------------------------
(***************************************************************************)
(* Who may spend, and how much: the control plane's registry operations    *)
(* against the gateway's checks of one user's payment requests.            *)
(*                                                                         *)
(* The control plane keeps a delegation's revocation twice, in the policy  *)
(* row (Postgres) and in the revocation set (Redis), and writes the two in *)
(* separate steps.  The gateway reads the set when it authenticates and    *)
(* the row when it loads the policy context; it reads the spend and the    *)
(* velocity window there too, and adds to them only after the decision.    *)
(*                                                                         *)
(* The requests are for different carts of one user and one agent, so no   *)
(* lock of the pipeline orders them (PaymentGateway has the locks).        *)
(***************************************************************************)
EXTENDS PolicyDecision, FiniteSetsExt

CONSTANTS
    Requests,       \* payment intents of one user and agent
    Delegations,
    Ops,            \* calls of the control plane's mutating endpoints
    DelegationOf,   \* the delegation of a request
    AmountOf,       \* its amount, in minor units
    ContentOf,      \* its untrusted content: rule, similarity, source
    Policy,         \* the terms every policy row carries
    Verdicts,       \* what the classifier may answer
    Casts,          \* which requests and calls are made in a behaviour
    None

ASSUME AdmissionAssumption ==
    /\ DelegationOf \in [Requests -> Delegations]
    /\ AmountOf \in [Requests -> Nat \ {0}]
    /\ ContentOf \in [Requests -> [rule : 0..1000, similarity : 0..1000,
                                   source : DOMAIN TRUST]]
    /\ Verdicts \subseteq [confidence : 0..1000, degraded : BOOLEAN]
    /\ Policy \in [per_transaction_limit : Nat \ {0}, daily_limit : Nat,
                   approval_threshold : Nat,
                   max_transactions_per_hour : Nat,
                   allow_degraded_classifier : BOOLEAN,
                   degraded_classifier_requires_review : BOOLEAN]
    /\ Casts \subseteq [requests : SUBSET Requests, ops : SUBSET Ops]
    /\ None \notin Delegations

VARIABLES
    policy,     \* spending_policies: absent, or the row's revoked column
    revoked,    \* agentpay:revoked_delegations
    agent,      \* the agent's registration
    merchant,   \* the merchant's registration
    op,         \* progress of each control-plane call
    adminLog,   \* admin_audit_events: the calls that are attributed
    pc,         \* where each request is
    seen,       \* what its load_context has read so far
    answer,     \* the decision, and what it rested on
    state,      \* transactions.state
    velocity,   \* agentpay:velocity: the requests counted this hour
    promised,   \* (history) delegations whose revocation stands
    mustBlock,  \* (history) requests made while it stood
    lateSpend,  \* (history) requests that authorized on an outdated sum
    lateCount   \* (history) requests that were counted on an outdated count

planeVars == <<policy, revoked, agent, merchant, op, adminLog>>
gateVars == <<pc, seen, answer, state, velocity>>
history == <<promised, mustBlock, lateSpend, lateCount>>
vars == <<planeVars, gateVars, history>>

Registration == {"absent", "off", "on"}

OpKinds == {"upsert_policy", "revoke_delegation", "reinstate_delegation",
            "upsert_agent", "upsert_merchant"}

\* The calls that end with a delegation in force again.
Restoring == {"upsert_policy", "reinstate_delegation"}

NoOp == [pc |-> "idle", kind |-> "none", target |-> None, read |-> "absent",
         alone |-> FALSE]

NothingSeen == [policy |-> "absent", agent |-> "absent", merchant |-> "absent",
                spent |-> 0, count |-> 0]

NoAnswer == [decision |-> "none", degraded |-> FALSE, suspected |-> FALSE,
             human |-> FALSE]

SETTLED_STATES == {"AUTHORIZED", "SUBMITTED", "CONFIRMED", "TIMEOUT", "UNKNOWN"}

Settled == {r \in Requests : state[r] \in SETTLED_STATES}

Ended(how) == [NoOp EXCEPT !.pc = how]

InFlight(o) == op[o].pc \in {"commit", "set", "log"}

RestoringInFlight(d) ==
    \E o \in Ops : InFlight(o) /\ op[o].kind \in Restoring /\ op[o].target = d

Init ==
    /\ policy \in [Delegations -> {"absent", "active"}]
    /\ revoked = {}
    /\ agent \in {"absent", "on"}
    /\ merchant = "on"
    /\ \E cast \in Casts :
          /\ op = [o \in Ops |-> IF o \in cast.ops THEN NoOp ELSE Ended("unmade")]
          /\ pc = [r \in Requests |-> IF r \in cast.requests THEN "new" ELSE "unmade"]
    /\ adminLog = {}
    /\ seen = [r \in Requests |-> NothingSeen]
    /\ answer = [r \in Requests |-> NoAnswer]
    /\ state = [r \in Requests |-> "none"]
    /\ velocity = {}
    /\ promised = [d \in Delegations |-> FALSE]
    /\ mustBlock = {}
    /\ lateSpend = {}
    /\ lateCount = {}

-----------------------------------------------------------------------------
(***************************************************************************)
(* The control plane.  require_admin has accepted the caller; a call it    *)
(* rejects changes nothing.                                                *)
(***************************************************************************)

\* s.get / s.merge: the session reads the row.
ReadPolicy(o) ==
    \E kind \in {"upsert_policy", "revoke_delegation", "reinstate_delegation"},
       d \in Delegations :
        /\ op[o].pc = "idle"
        /\ op' = [q \in Ops |->
                    IF q = o
                    THEN [pc |-> "commit", kind |-> kind, target |-> d,
                          read |-> policy[d], alone |-> ~RestoringInFlight(d)]
                    ELSE IF kind \in Restoring /\ op[q].target = d
                         THEN [op[q] EXCEPT !.alone = FALSE]
                         ELSE op[q]]
        /\ IF kind \in Restoring
           THEN /\ promised' = [promised EXCEPT ![d] = FALSE]
                /\ mustBlock' = {r \in mustBlock : DelegationOf[r] # d}
           ELSE UNCHANGED <<promised, mustBlock>>
        /\ UNCHANGED <<policy, revoked, agent, merchant, adminLog, gateVars,
                       lateSpend, lateCount>>

\* The session commits.  SQLAlchemy writes the columns that differ from what
\* it read, so a stale read leaves `revoked` alone.
RevokedColumn(kind, read, now) ==
    IF kind = "revoke_delegation"
    THEN IF read = "active" THEN "revoked" ELSE now
    ELSE IF read = "revoked" THEN "active" ELSE now

CommitPolicy(o) ==
    LET d == op[o].target
        kind == op[o].kind
        read == op[o].read
    IN  /\ op[o].pc = "commit"
        /\ kind \in {"upsert_policy", "revoke_delegation",
                     "reinstate_delegation"}
        /\ \/ /\ read = "absent" /\ kind = "upsert_policy"       \* INSERT
              /\ policy[d] = "absent"
              /\ policy' = [policy EXCEPT ![d] = "active"]
              /\ op' = [op EXCEPT ![o].pc = "set"]
           \/ /\ read = "absent" /\ kind = "upsert_policy"       \* IntegrityError
              /\ policy[d] # "absent"
              /\ op' = [op EXCEPT ![o] = Ended("failed")]
              /\ UNCHANGED policy
           \/ /\ read = "absent" /\ kind = "revoke_delegation"   \* 404
              /\ op' = [op EXCEPT ![o] = Ended("failed")]
              /\ UNCHANGED policy
           \/ /\ read = "absent" /\ kind = "reinstate_delegation"
              /\ op' = [op EXCEPT ![o].pc = "set"]
              /\ UNCHANGED policy
           \/ /\ read # "absent"
              /\ policy' = [policy EXCEPT
                                ![d] = RevokedColumn(kind, read, policy[d])]
              /\ op' = [op EXCEPT ![o].pc = "set"]
        /\ promised' = [promised EXCEPT ![d] =
                            \/ promised[d]
                            \/ /\ kind = "revoke_delegation"
                               /\ read # "absent"
                               /\ op[o].alone]
        /\ UNCHANGED <<revoked, agent, merchant, adminLog, gateVars, mustBlock,
                       lateSpend, lateCount>>

\* sadd or srem on the revocation set.
WriteRevocationSet(o) ==
    LET d == op[o].target
    IN  /\ op[o].pc = "set"
        /\ revoked' = IF op[o].kind = "revoke_delegation"
                      THEN revoked \cup {d} ELSE revoked \ {d}
        /\ promised' = [promised EXCEPT ![d] =
                            \/ promised[d]
                            \/ /\ op[o].kind = "revoke_delegation"
                               /\ ~RestoringInFlight(d)]
        /\ op' = [op EXCEPT ![o].pc = "log"]
        /\ UNCHANGED <<policy, agent, merchant, adminLog, gateVars, mustBlock,
                       lateSpend, lateCount>>

\* upsert_agent and upsert_merchant: one merge, then the audit row.
UpsertAgent(o) ==
    /\ op[o].pc = "idle"
    /\ \E a \in {"on", "off"} : agent' = a
    /\ op' = [op EXCEPT ![o] = [@ EXCEPT !.pc = "log", !.kind = "upsert_agent"]]
    /\ UNCHANGED <<policy, revoked, merchant, adminLog, gateVars, history>>

UpsertMerchant(o) ==
    /\ op[o].pc = "idle"
    /\ \E m \in {"on", "off"} : merchant' = m
    /\ op' = [op EXCEPT ![o] = [@ EXCEPT !.pc = "log", !.kind = "upsert_merchant"]]
    /\ UNCHANGED <<policy, revoked, agent, adminLog, gateVars, history>>

\* record_admin_action swallows its own failure: the call answers ok anyway.
RecordAdminAction(o) ==
    /\ op[o].pc = "log"
    /\ adminLog' \in {adminLog, adminLog \cup {o}}
    /\ op' = [op EXCEPT ![o] = Ended("done")]
    /\ UNCHANGED <<policy, revoked, agent, merchant, gateVars, history>>

\* The control plane dies, or a store raises, between two of a call's steps.
OpDies(o) ==
    /\ InFlight(o)
    /\ op' = [op EXCEPT ![o] = Ended("failed")]
    /\ UNCHANGED <<policy, revoked, agent, merchant, adminLog, gateVars, history>>

-----------------------------------------------------------------------------
(***************************************************************************)
(* The gateway.                                                            *)
(***************************************************************************)
Goto(r, label) == pc' = [pc EXCEPT ![r] = label]

Refuse(r) ==
    /\ answer' = [answer EXCEPT ![r].decision = "BLOCK"]
    /\ Goto(r, "done")

\* authenticate, then enforce_edge_rate_limit.  A bad token, an unreachable
\* revocation set, a revoked delegation and a full window all refuse; the
\* windows are EdgeRateLimit's.
Authenticate(r) ==
    /\ pc[r] = "new"
    /\ mustBlock' = IF promised[DelegationOf[r]] THEN mustBlock \cup {r}
                                                 ELSE mustBlock
    /\ \/ Refuse(r)
       \/ /\ DelegationOf[r] \notin revoked
          /\ Goto(r, "load")
          /\ UNCHANGED answer
    /\ UNCHANGED <<planeVars, seen, state, velocity, promised, lateSpend,
                   lateCount>>

\* Takes every row it finds for one in force.
LoadPolicy_bug(r) ==
    /\ pc[r] = "load"
    /\ seen' = [seen EXCEPT ![r].policy = IF policy[DelegationOf[r]] = "absent"
                                          THEN "absent" ELSE "active",
                            ![r].agent = agent, ![r].merchant = merchant]
    /\ Goto(r, "sum")
    /\ UNCHANGED <<planeVars, answer, state, velocity, history>>

\* load_context, in the order of its statements.
LoadPolicy(r) ==
    /\ pc[r] = "load"
    /\ seen' = [seen EXCEPT ![r].policy = policy[DelegationOf[r]],
                            ![r].agent = agent, ![r].merchant = merchant]
    /\ Goto(r, "sum")
    /\ UNCHANGED <<planeVars, answer, state, velocity, history>>

\* sum(Transaction.amount) over the settled rows of the last day.
Spent(rows) == MapThenSumSet(LAMBDA r : AmountOf[r], rows)

\* Sums what is confirmed and forgets what is still under way.
SumSpent_bug(r) ==
    /\ pc[r] = "sum"
    /\ seen' = [seen EXCEPT ![r].spent =
                    Spent({q \in Requests : state[q] = "CONFIRMED"})]
    /\ Goto(r, "window")
    /\ UNCHANGED <<planeVars, answer, state, velocity, history>>

SumSpent(r) ==
    /\ pc[r] = "sum"
    /\ seen' = [seen EXCEPT ![r].spent = Spent(Settled)]
    /\ Goto(r, "window")
    /\ UNCHANGED <<planeVars, answer, state, velocity, history>>

CountVelocity(r) ==
    /\ pc[r] = "window"
    /\ seen' = [seen EXCEPT ![r].count = Cardinality(velocity)]
    /\ Goto(r, "decide")
    /\ UNCHANGED <<planeVars, answer, state, velocity, history>>

Transaction(r) ==
    [user_id |-> "user", merchant_id |-> "shop", currency |-> "USD",
     cart_hash |-> r, amount |-> AmountOf[r], merchant_verified_claim |-> FALSE,
     agent_scopes |-> {"payments:authorize"}]

\* PolicyContext as load_context fills it; an absent row leaves the defaults.
Context(r) ==
    LET found == seen[r].policy # "absent"
        term(x) == IF found THEN x ELSE 0
    IN  [policy_found |-> found, policy_revoked |-> seen[r].policy = "revoked",
         per_transaction_limit |-> term(Policy.per_transaction_limit),
         daily_limit |-> term(Policy.daily_limit),
         approval_threshold |-> term(Policy.approval_threshold),
         max_transactions_per_hour |->
             IF found THEN Policy.max_transactions_per_hour ELSE 10,
         policy_currency |-> "USD", allowed_merchants |-> {},
         blocked_merchants |-> {}, require_verified_merchant |-> TRUE,
         merchant_known |-> seen[r].merchant # "absent",
         merchant_verified |-> seen[r].merchant = "on",
         merchant_category |-> "general", merchant_registry_risk |-> 200,
         agent_registered |-> seen[r].agent # "absent",
         agent_active |-> seen[r].agent = "on",
         agent_allowed_categories |-> {},
         spent_today |-> seen[r].spent,
         transactions_last_hour |-> seen[r].count]

\* evaluate_token: no token, a verified one (for this cart or for another
\* amount), an expired one, or one that does not verify.
NoApproval == [present |-> FALSE, valid |-> FALSE, expired |-> FALSE,
               bound_amount |-> None, bound_merchant_id |-> None,
               bound_currency |-> None, bound_cart_hash |-> None]

ApprovalFindings(r) ==
    {NoApproval}
    \cup {[NoApproval EXCEPT !.present = TRUE, !.expired = x] : x \in BOOLEAN}
    \cup {[present |-> TRUE, valid |-> TRUE, expired |-> FALSE,
           bound_amount |-> a, bound_merchant_id |-> "shop",
           bound_currency |-> "USD", bound_cart_hash |-> r]
              : a \in {AmountOf[r], AmountOf[r] - 1}}

PolicyInput(r, llm, approval) ==
    build_input(Transaction(r), Context(r),
                AnalysisResult(ContentOf[r], llm),
                [valid |-> TRUE, user_id |-> "user", reason_codes |-> {}],
                [idempotency_conflict |-> FALSE, fingerprint_conflict |-> FALSE],
                approval,
                [allow_degraded_classifier |-> Policy.allow_degraded_classifier,
                 degraded_classifier_requires_review |->
                     Policy.degraded_classifier_requires_review])

\* analyze, evaluate and persist_transaction.  The classifier answers or is
\* degraded (its breaker is CircuitBreaker's) and OPA answers or not; neither
\* touches what requests share.  BLOCK ends in FAILED, REQUIRE_APPROVAL stays
\* CREATED with a parked approval request.
Outcome(input, up) ==
    IF evaluate(input, up) = "ALLOW"
    THEN [decision |-> "ALLOW",
          degraded |-> input.security.classifier_degraded,
          suspected |-> input.security.injection_confidence
                           >= thresholds.injection_review,
          human |-> approval_satisfied(input)]
    ELSE [NoAnswer EXCEPT !.decision = evaluate(input, up)]

Outcomes(r) ==
    {Outcome(input, up) : up \in BOOLEAN, input \in
        {PolicyInput(r, llm, approval) :
            llm \in Verdicts, approval \in ApprovalFindings(r)}}

Decide(r) ==
    /\ pc[r] = "decide"
    /\ \E a \in Outcomes(r) :
          /\ answer' = [answer EXCEPT ![r] = a]
          /\ state' = [state EXCEPT ![r] = IF a.decision = "BLOCK"
                                           THEN "FAILED" ELSE "CREATED"]
          /\ Goto(r, IF a.decision = "ALLOW" THEN "count" ELSE "done")
    /\ seen' = [seen EXCEPT ![r] = NothingSeen]
    /\ UNCHANGED <<planeVars, velocity, history>>

RecordVelocity(r) ==
    /\ pc[r] = "count"
    /\ velocity' = velocity \cup {r}
    /\ lateCount' = lateCount \cup
                       {q \in Requests \ {r} : pc[q] \in {"decide", "count"}}
    /\ Goto(r, "authorize")
    /\ UNCHANGED <<planeVars, seen, answer, state, promised, mustBlock,
                   lateSpend>>

Authorize(r) ==
    /\ pc[r] = "authorize"
    /\ state' = [state EXCEPT ![r] = "AUTHORIZED"]
    /\ lateSpend' = lateSpend \cup
                       {q \in Requests \ {r} :
                           pc[q] \in {"window", "decide", "count", "authorize"}}
    /\ Goto(r, "done")
    /\ UNCHANGED <<planeVars, seen, answer, velocity, promised, mustBlock,
                   lateCount>>

\* A decline leaves a state the enumeration does not have.
Conclude_bug(r) ==
    /\ state[r] = "AUTHORIZED"
    /\ \E s \in {"CONFIRMED", "DECLINED"} :
          state' = [state EXCEPT ![r] = s]
    /\ UNCHANGED <<planeVars, pc, seen, answer, velocity, history>>

\* The provider confirms; or it declines or the authorization expires, which
\* both take the row out of SETTLED_STATES and are one state here.
Conclude(r) ==
    /\ state[r] = "AUTHORIZED"
    /\ \E s \in {"CONFIRMED", "FAILED"} :
          state' = [state EXCEPT ![r] = s]
    /\ UNCHANGED <<planeVars, pc, seen, answer, velocity, history>>

\* An entry of the velocity window gets older than an hour.
WindowSlides ==
    /\ \E r \in velocity : velocity' = velocity \ {r}
    /\ UNCHANGED <<planeVars, pc, seen, answer, state, history>>

\* An await of the pipeline raises, or the process dies.
RequestDies(r) ==
    /\ pc[r] \notin {"unmade", "new", "done", "dead"}
    /\ Goto(r, "dead")
    /\ seen' = [seen EXCEPT ![r] = NothingSeen]
    /\ UNCHANGED <<planeVars, answer, state, velocity, history>>

Next ==
    \/ \E o \in Ops : \/ ReadPolicy(o) \/ CommitPolicy(o)
                      \/ WriteRevocationSet(o) \/ UpsertAgent(o)
                      \/ UpsertMerchant(o) \/ RecordAdminAction(o) \/ OpDies(o)
    \/ \E r \in Requests : \/ Authenticate(r) \/ LoadPolicy(r) \/ SumSpent(r) \/ CountVelocity(r)
                           \/ Decide(r) \/ RecordVelocity(r) \/ Authorize(r)
                           \/ Conclude(r) \/ RequestDies(r)
    \/ WindowSlides

Spec == Init /\ [][Next]_vars

-----------------------------------------------------------------------------
\* Type correctness of the registries, the calls and the requests.
TypeOK ==
    /\ policy \in [Delegations -> {"absent", "active", "revoked"}]
    /\ revoked \subseteq Delegations
    /\ agent \in Registration /\ merchant \in Registration
    /\ op \in [Ops -> [pc : {"unmade", "idle", "commit", "set", "log", "done", "failed"},
                       kind : OpKinds \cup {"none"},
                       target : Delegations \cup {None},
                       read : {"absent", "active", "revoked"},
                       alone : BOOLEAN]]
    /\ adminLog \subseteq Ops
    /\ pc \in [Requests -> {"unmade", "new", "load", "sum", "window",
                            "decide", "count", "authorize", "done", "dead"}]
    /\ answer \in [Requests -> [decision : {"none", "ALLOW", "BLOCK",
                                            "REQUIRE_APPROVAL"},
                                degraded : BOOLEAN, suspected : BOOLEAN,
                                human : BOOLEAN]]
    /\ state \in [Requests -> {"none", "CREATED", "AUTHORIZED", "CONFIRMED",
                               "FAILED"}]
    /\ velocity \subseteq Requests
    /\ promised \in [Delegations -> BOOLEAN]
    /\ mustBlock \cup lateSpend \cup lateCount \subseteq Requests

\* A revocation that was committed alone, or whose set write was the last
\* word, stands: no request made after it is allowed until a policy is saved
\* again or the delegation reinstated.  It holds although the two stores are
\* written apart, the control plane may die between them, and an interleaved
\* save may leave the set without the delegation: the row still denies.
RevocationHolds == \A r \in mustBlock : answer[r].decision # "ALLOW"

\* The daily limit bounds what is authorized or charged, except by the amounts
\* of requests that authorized on a sum another request had outdated (nothing
\* locks the user between load_context and authorize).
DailyLimitHolds == Spent(Settled \ lateSpend) <= Policy.daily_limit

\* The same of the hourly velocity window, which record_velocity fills only
\* after the decision.
VelocityLimitHolds ==
    Cardinality(velocity \ lateCount) <= Policy.max_transactions_per_hour

\* What a machine could not vouch for is not allowed without a human: a
\* degraded classifier, suspected injection, an amount at the threshold.
NoUnreviewedRisk ==
    \A r \in Requests :
        answer[r].decision = "ALLOW" /\ ~answer[r].human =>
            /\ ~answer[r].degraded \/ Policy.allow_degraded_classifier
            /\ ~answer[r].suspected
            /\ AmountOf[r] < Policy.approval_threshold
=============================================================================
