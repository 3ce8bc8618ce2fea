--------------------------- MODULE PolicyDecision ---------------------------
(***************************************************************************)
(* From evidence to decision: the analyzer's arithmetic, the risk engine,  *)
(* the input document and the Rego packages that decide.                   *)
(*                                                                         *)
(* Everything here is a function.  Confidences, scores and ratios are      *)
(* counted in thousandths (the code rounds them to three decimals), money  *)
(* in minor units.  An `input` is the document build_input sends to OPA.   *)
(***************************************************************************)
EXTENDS Integers, FiniteSets

Least(a, b) == IF a <= b THEN a ELSE b
Greatest(a, b) == IF a >= b THEN a ELSE b

-----------------------------------------------------------------------------
(***************************************************************************)
(* Analyzer.                                                               *)
(***************************************************************************)
TRUST == [official_api |-> 950, verified_catalog |-> 800, user_upload |-> 500,
          scraped_page |-> 250, email |-> 150, unknown |-> 100]

\* In ten-thousandths: 1 + (1 - trust) / 4.
injection_prior(source) == 10000 + ((1000 - TRUST[source]) * 5) \div 2

combine(rule, llm, source, similarity) ==
    LET strongest == Greatest(rule, Greatest(llm, similarity))
        positive == Cardinality({l \in {"rule", "llm", "similarity"} :
                        \/ l = "rule" /\ rule > 0
                        \/ l = "llm" /\ llm > 0
                        \/ l = "similarity" /\ similarity > 0})
        base == IF positive >= 2 THEN Least(1000, strongest + 50)
                                 ELSE strongest
    IN  Least(1000, (base * injection_prior(source) + 5000) \div 10000)

\* content: what the deterministic layers see and where it came from;
\* llm: the classifier's result, confidence 0 when degraded.
AnalysisResult(content, llm) ==
    [injection_confidence |-> combine(content.rule, llm.confidence,
                                      content.source, content.similarity),
     deterministic_confidence |-> combine(content.rule, 0,
                                          content.source, content.similarity),
     classifier_degraded |-> llm.degraded]

-----------------------------------------------------------------------------
(***************************************************************************)
(* Risk engine: signals only, never a decision.                            *)
(***************************************************************************)
WEIGHTS == [injection |-> 35, policy_violation |-> 25, budget_anomaly |-> 20,
            merchant |-> 10, velocity |-> 10]

_clamp(x) == Least(1000, Greatest(0, x))

policy_violation_score(txn, ctx) ==
    LET total == \/ ~ctx.policy_found
                 \/ ctx.policy_revoked
                 \/ txn.merchant_id \in ctx.blocked_merchants
                 \/ ctx.agent_registered /\ ~ctx.agent_active
                 \/ "payments:authorize" \notin txn.agent_scopes
        unlisted == /\ ctx.allowed_merchants # {}
                    /\ txn.merchant_id \notin ctx.allowed_merchants
        unverified == ctx.require_verified_merchant /\ ~ctx.merchant_verified
        category == /\ ctx.agent_allowed_categories # {}
                    /\ ctx.merchant_category \notin ctx.agent_allowed_categories
    IN  CASE total -> 1000
          [] ~total /\ unlisted -> 800
          [] ~total /\ ~unlisted /\ unverified -> 750
          [] ~total /\ ~unlisted /\ ~unverified
                /\ txn.currency # ctx.policy_currency -> 600
          [] ~total /\ ~unlisted /\ ~unverified
                /\ txn.currency = ctx.policy_currency /\ category -> 550
          [] OTHER -> 0

\* x ** 1.5 for x in 0..1000 thousandths, to the nearest thousandth.
PowerOneAndAHalf ==
  [x \in 0..1000 |->
    CHOOSE n \in 0..1000 :
        /\ n = 0 \/ 250 * (2 * n - 1) * (2 * n - 1) <= x * x * x
        /\ x * x * x < 250 * (2 * n + 1) * (2 * n + 1)]

budget_anomaly_score(txn, ctx) ==
    LET projected == ctx.spent_today + txn.amount
        per_txn == (1000 * txn.amount) \div ctx.per_transaction_limit
        daily == IF ctx.daily_limit > 0
                 THEN (1000 * projected) \div ctx.daily_limit ELSE 1000
    IN  IF \/ ~ctx.policy_found
           \/ ctx.per_transaction_limit <= 0
           \/ txn.amount > ctx.per_transaction_limit
           \/ ctx.daily_limit > 0 /\ projected > ctx.daily_limit
        THEN 1000
        ELSE PowerOneAndAHalf[Greatest(per_txn, daily)]

merchant_risk_score(ctx) ==
    IF ~ctx.merchant_known THEN 900
    ELSE _clamp(IF ctx.merchant_verified THEN ctx.merchant_registry_risk
                ELSE Greatest(ctx.merchant_registry_risk, 600))

velocity_risk_score(ctx) ==
    IF ctx.max_transactions_per_hour <= 0 THEN 1000
    ELSE _clamp((1000 * ctx.transactions_last_hour)
                    \div ctx.max_transactions_per_hour)

\* weighted_score is 0..100 in the code, so 0..100000 in thousandths.
assess(txn, ctx, analysis) ==
    [merchant_risk_score |-> merchant_risk_score(ctx),
     weighted_score |->
           WEIGHTS.injection * _clamp(analysis.injection_confidence)
         + WEIGHTS.policy_violation * policy_violation_score(txn, ctx)
         + WEIGHTS.budget_anomaly * budget_anomaly_score(txn, ctx)
         + WEIGHTS.merchant * merchant_risk_score(ctx)
         + WEIGHTS.velocity * velocity_risk_score(ctx)]

-----------------------------------------------------------------------------
(***************************************************************************)
(* The document OPA evaluates.                                             *)
(***************************************************************************)
build_input(txn, ctx, analysis, identity, duplicate, approval, flags) ==
    [identity |-> identity, transaction |-> txn, security |-> analysis,
     risk |-> assess(txn, ctx, analysis), context |-> ctx,
     approval |-> approval, duplicate |-> duplicate, flags |-> flags]

-----------------------------------------------------------------------------
(***************************************************************************)
(* The Rego packages.  A rule contributes its code when its body holds.    *)
(***************************************************************************)
thresholds == [injection_hard_block |-> 850, injection_review |-> 500,
               score_review |-> 60000, velocity_review_ratio |-> 800]

Code(code, body) == IF body THEN {code} ELSE {}

escalate_degraded_to_human(input) ==
    /\ input.security.classifier_degraded
    /\ input.flags.degraded_classifier_requires_review
    /\ ~input.flags.allow_degraded_classifier
    /\ input.security.deterministic_confidence < thresholds.injection_review

injection_deny(input) ==
    Code("PROMPT_INJECTION_HIGH_CONFIDENCE",
         input.security.injection_confidence >= thresholds.injection_hard_block)
    \cup Code("CLASSIFIER_UNAVAILABLE_FAIL_CLOSED",
              /\ input.security.classifier_degraded
              /\ ~input.flags.allow_degraded_classifier
              /\ ~escalate_degraded_to_human(input))

\* Forgets the degraded classifier.
injection_require_approval_bug(input) ==
    Code("PROMPT_INJECTION_SUSPECTED",
         /\ input.security.injection_confidence >= thresholds.injection_review
         /\ input.security.injection_confidence < thresholds.injection_hard_block)

injection_require_approval(input) ==
    Code("CLASSIFIER_UNAVAILABLE_HUMAN_REVIEW",
         escalate_degraded_to_human(input))
    \cup Code("PROMPT_INJECTION_SUSPECTED",
              /\ input.security.injection_confidence >= thresholds.injection_review
              /\ input.security.injection_confidence
                    < thresholds.injection_hard_block)

\* Lets one payment too many into the hour.
spending_deny_bug(input) ==
    LET ctx == input.context
        txn == input.transaction
    IN  Code("NO_SPENDING_POLICY_BOUND", ~ctx.policy_found)
        \cup Code("DELEGATION_POLICY_REVOKED", ctx.policy_revoked)
        \cup Code("BUDGET_EXCEEDED",
                  ctx.policy_found /\ txn.amount > ctx.per_transaction_limit)
        \cup Code("DAILY_BUDGET_EXCEEDED",
                  /\ ctx.policy_found
                  /\ ctx.spent_today + txn.amount > ctx.daily_limit)
        \cup Code("VELOCITY_LIMIT_EXCEEDED",
                  ctx.transactions_last_hour > ctx.max_transactions_per_hour)

spending_deny(input) ==
    LET ctx == input.context
        txn == input.transaction
    IN  Code("NO_SPENDING_POLICY_BOUND", ~ctx.policy_found)
        \cup Code("DELEGATION_POLICY_REVOKED", ctx.policy_revoked)
        \cup Code("BUDGET_EXCEEDED",
                  ctx.policy_found /\ txn.amount > ctx.per_transaction_limit)
        \cup Code("DAILY_BUDGET_EXCEEDED",
                  /\ ctx.policy_found
                  /\ ctx.spent_today + txn.amount > ctx.daily_limit)
        \cup Code("CURRENCY_NOT_PERMITTED",
                  ctx.policy_found /\ txn.currency # ctx.policy_currency)
        \cup Code("VELOCITY_LIMIT_EXCEEDED",
                  ctx.transactions_last_hour >= ctx.max_transactions_per_hour)

spending_require_approval(input) ==
    LET ctx == input.context
    IN  Code("ABOVE_APPROVAL_THRESHOLD",
             /\ ctx.policy_found
             /\ input.transaction.amount >= ctx.approval_threshold)
        \cup Code("VELOCITY_ELEVATED",
                  /\ ctx.max_transactions_per_hour > 0
                  /\ 1000 * ctx.transactions_last_hour
                        >= thresholds.velocity_review_ratio
                              * ctx.max_transactions_per_hour
                  /\ ctx.transactions_last_hour < ctx.max_transactions_per_hour)

merchant_deny(input) ==
    LET ctx == input.context
        txn == input.transaction
    IN  Code("MERCHANT_BLOCKED", txn.merchant_id \in ctx.blocked_merchants)
        \cup Code("MERCHANT_NOT_IN_ALLOWLIST",
                  /\ ctx.allowed_merchants # {}
                  /\ txn.merchant_id \notin ctx.allowed_merchants)
        \cup Code("UNVERIFIED_MERCHANT",
                  ctx.require_verified_merchant /\ ~ctx.merchant_verified)
        \cup Code("MERCHANT_VERIFICATION_SPOOFED",
                  /\ txn.merchant_verified_claim
                  /\ ctx.merchant_known
                  /\ ~ctx.merchant_verified)

merchant_require_approval(input) ==
    LET ctx == input.context
    IN  Code("UNKNOWN_MERCHANT",
             ~ctx.merchant_known /\ ~ctx.require_verified_merchant)
        \cup Code("ELEVATED_MERCHANT_RISK",
                  /\ input.risk.merchant_risk_score >= 600
                  /\ ctx.merchant_known
                  /\ ctx.merchant_verified)

agent_scope_deny(input) ==
    LET ctx == input.context
    IN  Code("INVALID_IDENTITY", ~input.identity.valid)
        \cup (IF input.identity.valid THEN {} ELSE input.identity.reason_codes)
        \cup Code("AGENT_NOT_REGISTERED",
                  input.identity.valid /\ ~ctx.agent_registered)
        \cup Code("AGENT_DEACTIVATED",
                  ctx.agent_registered /\ ~ctx.agent_active)
        \cup Code("AGENT_SCOPE_VIOLATION",
                  "payments:authorize" \notin input.transaction.agent_scopes)
        \cup Code("AGENT_CATEGORY_NOT_PERMITTED",
                  /\ ctx.agent_allowed_categories # {}
                  /\ ctx.merchant_category \notin ctx.agent_allowed_categories)
        \cup Code("DELEGATION_USER_MISMATCH",
                  input.transaction.user_id # input.identity.user_id)

\* The fields an approval binds, null when the token could not be verified.
bound(input) ==
    /\ input.approval.bound_amount = input.transaction.amount
    /\ input.approval.bound_merchant_id = input.transaction.merchant_id
    /\ input.approval.bound_currency = input.transaction.currency
    /\ input.approval.bound_cart_hash = input.transaction.cart_hash

approvals_deny(input) ==
    Code("APPROVAL_BINDING_MISMATCH", input.approval.present /\ ~bound(input))
    \cup Code("APPROVAL_EXPIRED", input.approval.present /\ input.approval.expired)
    \cup Code("APPROVAL_INVALID", input.approval.present /\ ~input.approval.valid)

approvals_require_approval(input) ==
    Code("COMPOSITE_RISK_ELEVATED",
         input.risk.weighted_score >= thresholds.score_review)

duplicates_deny(input) ==
    Code("DUPLICATE_IDEMPOTENCY_KEY", input.duplicate.idempotency_conflict)
    \cup Code("DUPLICATE_TRANSACTION_FINGERPRINT",
              input.duplicate.fingerprint_conflict)

deny_reasons(input) ==
    injection_deny(input) \cup spending_deny(input) \cup merchant_deny(input)
        \cup agent_scope_deny(input) \cup approvals_deny(input)
        \cup duplicates_deny(input)

approval_reasons(input) ==
    injection_require_approval(input) \cup spending_require_approval(input)
        \cup merchant_require_approval(input)
        \cup approvals_require_approval(input)

approval_satisfied(input) ==
    /\ input.approval.present
    /\ input.approval.valid
    /\ ~input.approval.expired
    /\ bound(input)

(***************************************************************************)
(* Rego's complete rule `decision`: every body that holds gives a value,   *)
(* two different values are an error and none means the default.           *)
(***************************************************************************)
decision_bodies(deny, review, satisfied) ==
    Code("BLOCK", deny # {})
    \cup Code("REQUIRE_APPROVAL", deny = {} /\ review # {} /\ ~satisfied)
    \cup Code("ALLOW", deny = {} /\ review = {})
    \cup Code("ALLOW", deny = {} /\ review # {} /\ satisfied)

decision(input) ==
    LET values == decision_bodies(deny_reasons(input), approval_reasons(input),
                                  approval_satisfied(input))
    IN  IF values = {} THEN "BLOCK" ELSE CHOOSE d \in values : TRUE

\* evaluate: OPA answers with a decision, or there is no usable answer
\* (transport error, invalid JSON, undefined result, unknown value).
evaluate(input, up) == IF up THEN decision(input) ELSE "BLOCK"
=============================================================================
