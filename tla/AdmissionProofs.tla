--------------------------- MODULE AdmissionProofs ---------------------------
(***************************************************************************)
(* Revocation, review and the velocity and daily limits for any number of  *)
(* requests, delegations and control-plane calls, any policy terms and any *)
(* content; and how the decision depends on the analyzer's evidence.       *)
(***************************************************************************)
EXTENDS Admission, FiniteSetTheorems, WellFoundedInduction, NaturalsInduction,
        TLAPS

-----------------------------------------------------------------------------
(***************************************************************************)
(* The decision.                                                           *)
(***************************************************************************)
DecisionValues == {"ALLOW", "BLOCK", "REQUIRE_APPROVAL"}

\* The bodies of Rego's rule exclude each other, so it never errs.
LEMMA BodiesExclusive ==
    ASSUME NEW deny, NEW review, NEW satisfied \in BOOLEAN
    PROVE  \E d \in DecisionValues : decision_bodies(deny, review, satisfied) = {d}
  BY DEF decision_bodies, Code, DecisionValues

LEMMA DecisionIsBody ==
    ASSUME NEW input
    PROVE  /\ decision(input) \in DecisionValues
           /\ decision(input) \in decision_bodies(deny_reasons(input),
                                    approval_reasons(input), approval_satisfied(input))
  <1>. DEFINE values == decision_bodies(deny_reasons(input),
                            approval_reasons(input), approval_satisfied(input))
  <1>1. approval_satisfied(input) \in BOOLEAN
    BY DEF approval_satisfied, bound
  <1>2. PICK d \in DecisionValues : values = {d}
    BY <1>1, BodiesExclusive
  <1>3. decision(input) = d
    BY <1>2 DEF decision
  <1>. QED
    BY <1>2, <1>3

LEMMA AllowMeans ==
    ASSUME NEW input, decision(input) = "ALLOW"
    PROVE  /\ deny_reasons(input) = {}
           /\ approval_reasons(input) = {} \/ approval_satisfied(input)
  BY DecisionIsBody DEF decision_bodies, Code

LEMMA RevokedIsBlocked ==
    ASSUME NEW input, input.context.policy_revoked = TRUE
    PROVE  decision(input) # "ALLOW"
  <1>1. "DELEGATION_POLICY_REVOKED" \in spending_deny(input)
    BY DEF spending_deny, Code
  <1>2. deny_reasons(input) # {}
    BY <1>1 DEF deny_reasons
  <1>. QED
    BY <1>2, AllowMeans

-----------------------------------------------------------------------------
(***************************************************************************)
(* What Decide makes of a request.                                         *)
(***************************************************************************)
LEMMA CombineIsInt ==
    ASSUME NEW rule \in Int, NEW llm \in Int, NEW similarity \in Int,
           NEW source \in DOMAIN TRUST
    PROVE  combine(rule, llm, source, similarity) \in Int
  <1>1. \A a, b \in Int : Least(a, b) \in Int /\ Greatest(a, b) \in Int
    BY DEF Least, Greatest
  <1>2. TRUST[source] \in Int
    BY DEF TRUST
  <1>3. injection_prior(source) \in Int
    BY <1>2 DEF injection_prior
  <1>. DEFINE strongest == Greatest(rule, Greatest(llm, similarity))
              base == IF Cardinality({l \in {"rule", "llm", "similarity"} :
                                        \/ l = "rule" /\ rule > 0
                                        \/ l = "llm" /\ llm > 0
                                        \/ l = "similarity" /\ similarity > 0}) >= 2
                      THEN Least(1000, strongest + 50) ELSE strongest
  <1>4. base \in Int
    <2>1. strongest \in Int
      BY <1>1
    <2>2. Least(1000, strongest + 50) \in Int
      BY <1>1, <2>1
    <2>. QED
      BY <2>1, <2>2
  <1>5. (base * injection_prior(source) + 5000) \div 10000 \in Int
    <2>. HIDE DEF base
    <2>. QED
      BY <1>3, <1>4
  <1>. QED
    BY <1>1, <1>5 DEF combine

\* The document's parts that the proofs use.
LEMMA InputParts ==
    ASSUME NEW r \in Requests, NEW llm \in Verdicts, NEW approval
    PROVE  LET input == PolicyInput(r, llm, approval)
           IN  /\ input.context = Context(r)
               /\ input.transaction.amount = AmountOf[r]
               /\ input.security.injection_confidence \in Int
               /\ input.security.classifier_degraded = llm.degraded
               /\ input.flags.allow_degraded_classifier
                     = Policy.allow_degraded_classifier
  <1>1. combine(ContentOf[r].rule, llm.confidence, ContentOf[r].source,
                ContentOf[r].similarity) \in Int
    <2>1. ContentOf[r] \in [rule : 0..1000, similarity : 0..1000, source : DOMAIN TRUST]
      BY AdmissionAssumption
    <2>2. llm \in [confidence : 0..1000, degraded : BOOLEAN]
      BY AdmissionAssumption
    <2>. DEFINE permille == 0..1000
    <2>3. ContentOf[r].rule \in permille /\ ContentOf[r].similarity \in permille
      <3>. HIDE DEF permille
      <3>1. ContentOf[r] \in [rule : permille, similarity : permille,
                              source : DOMAIN TRUST]
        BY <2>1 DEF permille
      <3>. QED
        BY <3>1, Zenon
    <2>4. ContentOf[r].source \in DOMAIN TRUST
      BY <2>1
    <2>5. llm.confidence \in Int
      BY <2>2
    <2>6. ContentOf[r].rule \in Int /\ ContentOf[r].similarity \in Int
      <3>1. \A x \in permille : x \in Int
        OBVIOUS
      <3>. HIDE DEF permille
      <3>. QED
        BY <2>3, <3>1, Zenon
    <2>. QED
      BY <2>4, <2>5, <2>6, CombineIsInt, Zenon
  <1>. QED
    BY <1>1 DEF PolicyInput, build_input, AnalysisResult, Transaction

LEMMA OutcomeTyped ==
    ASSUME NEW r \in Requests, NEW llm \in Verdicts, NEW approval, NEW up \in BOOLEAN
    PROVE  LET a == Outcome(PolicyInput(r, llm, approval), up)
           IN  a \in [decision : DecisionValues, degraded : BOOLEAN,
                      suspected : BOOLEAN, human : BOOLEAN]
  <1>. DEFINE input == PolicyInput(r, llm, approval)
  <1>1. evaluate(input, up) \in DecisionValues
    BY DecisionIsBody DEF evaluate, DecisionValues
  <1>2. input.security.classifier_degraded \in BOOLEAN
    BY InputParts, AdmissionAssumption
  <1>3. (input.security.injection_confidence >= thresholds.injection_review) \in BOOLEAN
    OBVIOUS
  <1>4. approval_satisfied(input) \in BOOLEAN
    BY DEF approval_satisfied, bound
  <1>. HIDE DEF input
  <1>. QED
    BY <1>1, <1>2, <1>3, <1>4 DEF Outcome, NoAnswer, DecisionValues, input

LEMMA OutcomeIsReviewed ==
    ASSUME NEW r \in Requests, NEW llm \in Verdicts, NEW approval, NEW up \in BOOLEAN,
           Outcome(PolicyInput(r, llm, approval), up).decision = "ALLOW",
           ~Outcome(PolicyInput(r, llm, approval), up).human
    PROVE  LET a == Outcome(PolicyInput(r, llm, approval), up)
           IN  /\ ~a.degraded \/ Policy.allow_degraded_classifier
               /\ ~a.suspected
               /\ AmountOf[r] < Policy.approval_threshold
  <1>. DEFINE input == PolicyInput(r, llm, approval)
              a == Outcome(input, up)
  <1>1. decision(input) = "ALLOW" /\ evaluate(input, up) = "ALLOW"
    BY DEF Outcome, evaluate, NoAnswer
  <1>2. /\ a.degraded = input.security.classifier_degraded
        /\ a.suspected = (input.security.injection_confidence
                             >= thresholds.injection_review)
        /\ a.human = approval_satisfied(input)
    BY <1>1 DEF Outcome
  <1>3. deny_reasons(input) = {} /\ approval_reasons(input) = {}
    BY <1>1, <1>2, AllowMeans
  <1>4. /\ input.context = Context(r)
        /\ input.transaction.amount = AmountOf[r]
        /\ input.security.injection_confidence \in Int
        /\ input.flags.allow_degraded_classifier = Policy.allow_degraded_classifier
    BY InputParts
  <1>5. /\ injection_deny(input) = {} /\ spending_deny(input) = {}
        /\ injection_require_approval(input) = {}
        /\ spending_require_approval(input) = {}
    BY <1>3 DEF deny_reasons, approval_reasons
  <1>. HIDE DEF input
  <1>6. ~a.degraded \/ Policy.allow_degraded_classifier
    BY <1>2, <1>4, <1>5 DEF injection_deny, injection_require_approval, Code
  <1>7. ~a.suspected
    <2>1. ~(input.security.injection_confidence >= 850)
      BY <1>5 DEF injection_deny, Code, thresholds
    <2>2. ~(/\ input.security.injection_confidence >= 500
            /\ input.security.injection_confidence < 850)
      BY <1>5 DEF injection_require_approval, Code, thresholds
    <2>3. ~(input.security.injection_confidence >= 500)
      BY <1>4, <2>1, <2>2
    <2>4. thresholds.injection_review = 500
      BY DEF thresholds
    <2>. HIDE DEF a
    <2>. QED
      BY <1>2, <2>3, <2>4
  <1>8. AmountOf[r] < Policy.approval_threshold
    <2>1. Context(r).policy_found
      BY <1>4, <1>5 DEF spending_deny, Code
    <2>2. Context(r).approval_threshold = Policy.approval_threshold
      BY <2>1 DEF Context
    <2>3. ~(AmountOf[r] >= Policy.approval_threshold)
      BY <1>4, <1>5, <2>1, <2>2 DEF spending_require_approval, Code
    <2>. QED
      BY <2>3, AdmissionAssumption
  <1>. QED
    BY <1>6, <1>7, <1>8 DEF input

-----------------------------------------------------------------------------
(***************************************************************************)
(* The invariant.  A revocation that stands has no restoring call under    *)
(* way and is written in one of the two stores at least; a request made    *)
(* under it that got past the set has the row against it.                  *)
(***************************************************************************)
OpRecord ==
    [pc : {"unmade", "idle", "commit", "set", "log", "done", "failed"},
     kind : OpKinds \cup {"none"}, target : Delegations \cup {None},
     read : {"absent", "active", "revoked"}, alone : BOOLEAN]

AnswerRecord ==
    [decision : {"none", "ALLOW", "BLOCK", "REQUIRE_APPROVAL"},
     degraded : BOOLEAN, suspected : BOOLEAN, human : BOOLEAN]

\* What load_context has read is a record with a policy in it.
SeenShape ==
    /\ seen = [r \in Requests |-> seen[r]]
    /\ \A r \in Requests : "policy" \in DOMAIN seen[r]

\* A call that ends or moves on: nothing new is under way.
Onward(o) ==
    /\ op' \in [Ops -> OpRecord]
    /\ \A q \in Ops \ {o} : op'[q] = op[q]
    /\ op'[o].pc \in {"commit", "set", "log"} /\ op'[o].kind \in Restoring =>
          InFlight(o) /\ op'[o].kind = op[o].kind /\ op'[o].target = op[o].target
    /\ op'[o].pc # "commit"
    /\ op'[o].pc = "set" => /\ op'[o].target \in Delegations
                            /\ op'[o].kind \in Restoring \cup {"revoke_delegation"}

RowCalls ==
    \A o \in Ops :
        op[o].pc \in {"commit", "set"} =>
            /\ op[o].target \in Delegations
            /\ op[o].kind \in Restoring \cup {"revoke_delegation"}

RevokesAlone ==
    \A o \in Ops :
        op[o].pc = "commit" /\ op[o].kind = "revoke_delegation" /\ op[o].alone =>
            /\ ~RestoringInFlight(op[o].target)
            /\ op[o].read = "revoked" => policy[op[o].target] = "revoked"

RevocationStands ==
    \A d \in Delegations :
        promised[d] => /\ ~RestoringInFlight(d)
                       /\ policy[d] = "revoked" \/ d \in revoked

FreshUnanswered ==
    \A r \in Requests : pc[r] = "new" => answer[r].decision # "ALLOW"

RowStopsIt(r) ==
    /\ pc[r] = "load" => policy[DelegationOf[r]] = "revoked"
    /\ pc[r] \in {"sum", "window", "decide"} => seen[r].policy = "revoked"

Guarded ==
    \A r \in mustBlock : promised[DelegationOf[r]] /\ RowStopsIt(r)

AdmissionInv ==
    /\ TypeOK /\ SeenShape /\ RowCalls /\ RevokesAlone /\ RevocationStands
    /\ FreshUnanswered /\ Guarded /\ RevocationHolds

LEMMA EndedTyped ==
    /\ NoOp \in OpRecord
    /\ \A how \in {"unmade", "done", "failed"} :
          Ended(how) \in OpRecord /\ Ended(how).pc = how
  <1>1. NoOp \in OpRecord
    BY DEF NoOp, OpRecord
  <1>. QED
    BY <1>1 DEF Ended, OpRecord

LEMMA LoggedTyped ==
    ASSUME NEW x \in OpRecord, NEW kind \in OpKinds
    PROVE  [x EXCEPT !.pc = "log", !.kind = kind] \in OpRecord
  BY DEF OpRecord

LEMMA AdmissionInitially == Init => AdmissionInv
  <1>. SUFFICES ASSUME Init PROVE AdmissionInv
    OBVIOUS
  <1>. USE AdmissionAssumption
  <1>1. op \in [Ops -> OpRecord]
    BY EndedTyped DEF Init
  <1>2. answer \in [Requests -> AnswerRecord]
    BY DEF Init, AnswerRecord, NoAnswer
  <1>3. pc \in [Requests -> {"unmade", "new"}]
    BY DEF Init
  <1>4. TypeOK
    BY <1>1, <1>2, <1>3 DEF Init, TypeOK, OpRecord, AnswerRecord, Registration
  <1>5. SeenShape
    BY DEF Init, SeenShape, NothingSeen
  <1>6. \A o \in Ops : op[o].pc \notin {"commit", "set"}
    BY DEF Init, NoOp, Ended
  <1>7. RowCalls /\ RevokesAlone /\ RevocationStands
    BY <1>6 DEF Init, RowCalls, RevokesAlone, RevocationStands
  <1>8. FreshUnanswered
    BY DEF Init, FreshUnanswered, NoAnswer
  <1>9. Guarded /\ RevocationHolds
    BY DEF Init, Guarded, RevocationHolds
  <1>. QED
    BY <1>4, <1>5, <1>7, <1>8, <1>9 DEF AdmissionInv

LEMMA OnwardRestoresNothing ==
    ASSUME TypeOK, NEW o \in Ops, Onward(o)
    PROVE  /\ op' \in [Ops -> OpRecord]
           /\ \A d : RestoringInFlight(d)' => RestoringInFlight(d)
           /\ \A q \in Ops : op'[q].pc = "commit" => op'[q] = op[q]
           /\ RowCalls => RowCalls'
  <1>1. op' \in [Ops -> OpRecord] /\ \A q \in Ops \ {o} : op'[q] = op[q]
    BY DEF Onward
  <1>3. ASSUME NEW d, RestoringInFlight(d)' PROVE RestoringInFlight(d)
    BY <1>1, <1>3 DEF RestoringInFlight, InFlight, Onward
  <1>. QED
    BY <1>1, <1>3 DEF Onward, RowCalls

\* The calls that touch neither a row nor the set.
LEMMA OnwardKeeps ==
    ASSUME AdmissionInv, NEW o \in Ops, Onward(o),
           agent' \in Registration, merchant' \in Registration,
           adminLog' \subseteq Ops,
           UNCHANGED <<policy, revoked, gateVars, history>>
    PROVE  AdmissionInv'
  <1>1. TypeOK'
    BY OnwardRestoresNothing DEF AdmissionInv, TypeOK, OpRecord, gateVars, history
  <1>2. RowCalls' /\ RevokesAlone'
    BY OnwardRestoresNothing DEF AdmissionInv, RevokesAlone
  <1>3. RevocationStands'
    BY OnwardRestoresNothing DEF AdmissionInv, RevocationStands, history
  <1>4. SeenShape' /\ FreshUnanswered' /\ Guarded' /\ RevocationHolds'
    BY DEF AdmissionInv, SeenShape, FreshUnanswered, Guarded, RowStopsIt,
           RevocationHolds, gateVars, history
  <1>. QED
    BY <1>1, <1>2, <1>3, <1>4 DEF AdmissionInv

LEMMA CallKeeps ==
    ASSUME AdmissionInv, NEW o \in Ops,
           UpsertAgent(o) \/ UpsertMerchant(o) \/ RecordAdminAction(o) \/ OpDies(o)
    PROVE  AdmissionInv'
  <1>0. op[o] \in OpRecord /\ op \in [Ops -> OpRecord]
    BY DEF AdmissionInv, TypeOK, OpRecord
  <1>1. CASE UpsertAgent(o)
    <2>1. "upsert_agent" \in OpKinds \ Restoring
      BY DEF OpKinds, Restoring
    <2>2. op' \in [Ops -> OpRecord]
      <3>1. [op[o] EXCEPT !.pc = "log", !.kind = "upsert_agent"] \in OpRecord
        BY <1>0, <2>1, LoggedTyped
      <3>. QED
        BY <1>0, <1>1, <3>1 DEF UpsertAgent
    <2>3. op'[o].pc = "log" /\ op'[o].kind = "upsert_agent"
      BY <1>0, <1>1 DEF UpsertAgent, OpRecord
    <2>4. Onward(o)
      BY <1>0, <1>1, <2>1, <2>2, <2>3 DEF UpsertAgent, Onward
    <2>. QED
      BY <1>1, <2>4, OnwardKeeps DEF UpsertAgent, AdmissionInv, TypeOK, Registration
  <1>2. CASE UpsertMerchant(o)
    <2>1. "upsert_merchant" \in OpKinds \ Restoring
      BY DEF OpKinds, Restoring
    <2>2. op' \in [Ops -> OpRecord]
      <3>1. [op[o] EXCEPT !.pc = "log", !.kind = "upsert_merchant"] \in OpRecord
        BY <1>0, <2>1, LoggedTyped
      <3>. QED
        BY <1>0, <1>2, <3>1 DEF UpsertMerchant
    <2>3. op'[o].pc = "log" /\ op'[o].kind = "upsert_merchant"
      BY <1>0, <1>2 DEF UpsertMerchant, OpRecord
    <2>4. Onward(o)
      BY <1>0, <1>2, <2>1, <2>2, <2>3 DEF UpsertMerchant, Onward
    <2>. QED
      BY <1>2, <2>4, OnwardKeeps DEF UpsertMerchant, AdmissionInv, TypeOK, Registration
  <1>3. CASE RecordAdminAction(o)
    <2>1. Ended("done") \in OpRecord /\ Ended("done").pc = "done"
      BY EndedTyped
    <2>2. Onward(o)
      BY <1>0, <1>3, <2>1 DEF RecordAdminAction, Onward
    <2>. QED
      BY <1>3, <2>2, OnwardKeeps DEF RecordAdminAction, AdmissionInv, TypeOK
  <1>4. CASE OpDies(o)
    <2>1. Ended("failed") \in OpRecord /\ Ended("failed").pc = "failed"
      BY EndedTyped
    <2>2. Onward(o)
      BY <1>0, <1>4, <2>1 DEF OpDies, Onward
    <2>. QED
      BY <1>4, <2>2, OnwardKeeps DEF OpDies, AdmissionInv, TypeOK
  <1>. QED
    BY <1>1, <1>2, <1>3, <1>4

LEMMA ReadPolicyKeeps ==
    ASSUME AdmissionInv, NEW o \in Ops, ReadPolicy(o)
    PROVE  AdmissionInv'
  <1>1. PICK kind \in {"upsert_policy", "revoke_delegation", "reinstate_delegation"},
             d \in Delegations :
          /\ op' = [q \in Ops |->
                      IF q = o
                      THEN [pc |-> "commit", kind |-> kind, target |-> d,
                            read |-> policy[d], alone |-> ~RestoringInFlight(d)]
                      ELSE IF kind \in Restoring /\ op[q].target = d
                           THEN [op[q] EXCEPT !.alone = FALSE]
                           ELSE op[q]]
          /\ IF kind \in Restoring
             THEN /\ promised' = [promised EXCEPT ![d] = FALSE]
                  /\ mustBlock' = {r \in mustBlock : DelegationOf[r] # d}
             ELSE UNCHANGED <<promised, mustBlock>>
    BY DEF ReadPolicy
  <1>2. op[o].pc = "idle"
        /\ UNCHANGED <<policy, revoked, agent, merchant, adminLog, gateVars,
                       lateSpend, lateCount>>
    BY DEF ReadPolicy
  <1>3. op \in [Ops -> OpRecord] /\ promised \in [Delegations -> BOOLEAN]
        /\ mustBlock \subseteq Requests
    BY DEF AdmissionInv, TypeOK, OpRecord
  <1>4. /\ op'[o].pc = "commit" /\ op'[o].kind = kind /\ op'[o].target = d
        /\ op'[o].read = policy[d] /\ op'[o].alone = ~RestoringInFlight(d)
    BY <1>1
  <1>5. ASSUME NEW q \in Ops \ {o}
        PROVE  /\ op'[q].pc = op[q].pc /\ op'[q].kind = op[q].kind
               /\ op'[q].target = op[q].target /\ op'[q].read = op[q].read
               /\ op'[q].alone => op[q].alone
               /\ op'[q].alone /\ kind \in Restoring => op[q].target # d
               /\ op'[q] \in OpRecord
    <2>1. op[q] \in OpRecord
      BY <1>3
    <2>2. CASE kind \in Restoring /\ op[q].target = d
      <3>1. op'[q] = [op[q] EXCEPT !.alone = FALSE]
        BY <1>1, <2>2
      <3>. QED
        BY <2>1, <3>1 DEF OpRecord
    <2>3. CASE ~(kind \in Restoring /\ op[q].target = d)
      <3>1. op'[q] = op[q]
        BY <1>1, <2>3
      <3>. QED
        BY <2>1, <2>3, <3>1
    <2>. QED
      BY <2>2, <2>3
  <1>6. TypeOK'
    <2>1. op'[o] \in OpRecord
      <3>1. policy[d] \in {"absent", "active", "revoked"} /\ kind \in OpKinds
        BY DEF AdmissionInv, TypeOK, OpKinds
      <3>2. op'[o] = [pc |-> "commit", kind |-> kind, target |-> d,
                      read |-> policy[d], alone |-> ~RestoringInFlight(d)]
        BY <1>1
      <3>3. (~RestoringInFlight(d)) \in BOOLEAN
        BY DEF RestoringInFlight
      <3>. QED
        BY <3>1, <3>2, <3>3 DEF OpRecord
    <2>2. op' \in [Ops -> OpRecord]
      <3>1. op' = [q \in Ops |-> op'[q]]
        BY <1>1
      <3>. QED
        BY <1>5, <2>1, <3>1
    <2>3. promised' \in [Delegations -> BOOLEAN] /\ mustBlock' \subseteq Requests
      BY <1>1, <1>3
    <2>. QED
      BY <1>2, <2>2, <2>3 DEF AdmissionInv, TypeOK, OpRecord, gateVars
  <1>7. \A x : RestoringInFlight(x)' =>
                  RestoringInFlight(x) \/ (kind \in Restoring /\ x = d)
    BY <1>4, <1>5 DEF RestoringInFlight, InFlight
  <1>8. RowCalls'
    BY <1>4, <1>5 DEF AdmissionInv, RowCalls, Restoring
  <1>9. RevokesAlone'
    <2>1. ASSUME NEW q \in Ops, NEW t, op'[q].target = t, op'[q].pc = "commit",
                 op'[q].kind = "revoke_delegation", op'[q].alone
          PROVE  /\ ~RestoringInFlight(t)'
                 /\ op'[q].read = "revoked" => policy'[t] = "revoked"
      <3>1. CASE q = o
        <4>1. kind \notin Restoring
          BY <1>4, <2>1, <3>1 DEF Restoring
        <4>. QED
          BY <1>2, <1>4, <1>7, <2>1, <3>1, <4>1
      <3>2. CASE q # o
        BY <1>2, <1>5, <1>7, <2>1, <3>2 DEF AdmissionInv, RevokesAlone
      <3>. QED
        BY <3>1, <3>2
    <2>. QED
      BY <2>1 DEF RevokesAlone, RestoringInFlight, InFlight
  <1>10. RevocationStands'
    BY <1>1, <1>2, <1>3, <1>7 DEF AdmissionInv, RevocationStands
  <1>11. Guarded' /\ RevocationHolds'
    BY <1>1, <1>2, <1>3, AdmissionAssumption
       DEF AdmissionInv, Guarded, RowStopsIt, RevocationHolds, gateVars
  <1>12. SeenShape' /\ FreshUnanswered'
    BY <1>2 DEF AdmissionInv, SeenShape, FreshUnanswered, gateVars
  <1>. QED
    BY <1>6, <1>8, <1>9, <1>10, <1>11, <1>12 DEF AdmissionInv

\* A call that moves on while rows and set change by its target only.
LEMMA StoreKeeps ==
    ASSUME AdmissionInv, NEW o \in Ops, NEW d \in Delegations, Onward(o),
           policy' \in [Delegations -> {"absent", "active", "revoked"}],
           revoked' \subseteq Delegations,
           promised' \in [Delegations -> BOOLEAN],
           UNCHANGED <<agent, merchant, adminLog, gateVars, mustBlock,
                       lateSpend, lateCount>>,
           \A x \in Delegations \ {d} :
              /\ policy'[x] = policy[x] /\ promised'[x] = promised[x]
              /\ x \in revoked' <=> x \in revoked,
           \/ /\ RestoringInFlight(d)
              /\ promised'[d] = promised[d]
           \/ /\ policy[d] = "revoked" => policy'[d] = "revoked"
              /\ d \in revoked => d \in revoked'
              /\ promised[d] => promised'[d]
              /\ promised'[d] =>
                    \/ promised[d]
                    \/ /\ ~RestoringInFlight(d)
                       /\ policy'[d] = "revoked" \/ d \in revoked'
    PROVE  AdmissionInv'
  <1>1. /\ op' \in [Ops -> OpRecord]
        /\ \A x : RestoringInFlight(x)' => RestoringInFlight(x)
        /\ \A q \in Ops : op'[q].pc = "commit" => op'[q] = op[q]
        /\ RowCalls'
    BY OnwardRestoresNothing DEF AdmissionInv
  <1>2. TypeOK'
    BY <1>1 DEF AdmissionInv, TypeOK, OpRecord, gateVars
  <1>3. RestoringInFlight(d) => ~promised[d]
    BY DEF AdmissionInv, RevocationStands
  <1>4. RevocationStands'
    <2>1. ASSUME NEW x \in Delegations, promised'[x]
          PROVE  ~RestoringInFlight(x) /\ (policy'[x] = "revoked" \/ x \in revoked')
      <3>1. CASE x = d
        BY <1>3, <2>1, <3>1 DEF AdmissionInv, RevocationStands
      <3>2. CASE x # d
        BY <2>1, <3>2 DEF AdmissionInv, RevocationStands
      <3>. QED
        BY <3>1, <3>2
    <2>. QED
      BY <1>1, <2>1 DEF RevocationStands
  <1>5. RevokesAlone'
    <2>1. ASSUME NEW q \in Ops, NEW t, op'[q].target = t, op'[q].pc = "commit",
                 op'[q].kind = "revoke_delegation", op'[q].alone
          PROVE  /\ ~RestoringInFlight(t)'
                 /\ op'[q].read = "revoked" => policy'[t] = "revoked"
      <3>1. /\ op'[q] = op[q] /\ t \in Delegations
            /\ ~RestoringInFlight(t)
            /\ op[q].read = "revoked" => policy[t] = "revoked"
        BY <1>1, <2>1 DEF AdmissionInv, RevokesAlone, RowCalls
      <3>2. ~RestoringInFlight(t)'
        BY <1>1, <3>1
      <3>3. policy[t] = "revoked" => policy'[t] = "revoked"
        BY <3>1
      <3>. QED
        BY <3>1, <3>2, <3>3
    <2>. QED
      BY <2>1 DEF RevokesAlone, RestoringInFlight, InFlight
  <1>6. Guarded' /\ RevocationHolds'
    <2>1. ASSUME NEW r \in mustBlock
          PROVE  promised'[DelegationOf[r]] /\ RowStopsIt(r)'
      <3>1. /\ DelegationOf[r] \in Delegations
            /\ promised[DelegationOf[r]] /\ RowStopsIt(r)
        BY AdmissionAssumption DEF AdmissionInv, TypeOK, Guarded
      <3>2. /\ promised'[DelegationOf[r]]
            /\ policy[DelegationOf[r]] = "revoked" => policy'[DelegationOf[r]] = "revoked"
        BY <1>3, <3>1
      <3>. QED
        BY <3>1, <3>2 DEF RowStopsIt, gateVars
    <2>. QED
      BY <2>1 DEF Guarded, RevocationHolds, AdmissionInv, gateVars
  <1>7. SeenShape' /\ FreshUnanswered'
    BY DEF AdmissionInv, SeenShape, FreshUnanswered, gateVars
  <1>. QED
    BY <1>1, <1>2, <1>4, <1>5, <1>6, <1>7 DEF AdmissionInv

LEMMA CommitPolicyKeeps ==
    ASSUME AdmissionInv, NEW o \in Ops, CommitPolicy(o)
    PROVE  AdmissionInv'
  <1>1. PICK d \in Delegations : d = op[o].target
    BY DEF AdmissionInv, RowCalls, CommitPolicy
  <1>2. /\ op \in [Ops -> OpRecord] /\ op[o] \in OpRecord
        /\ policy \in [Delegations -> {"absent", "active", "revoked"}]
        /\ promised \in [Delegations -> BOOLEAN]
    BY DEF AdmissionInv, TypeOK, OpRecord
  <1>3. /\ op[o].pc = "commit"
        /\ op[o].kind \in Restoring \cup {"revoke_delegation"}
        /\ promised' = [promised EXCEPT ![d] =
                            \/ promised[d]
                            \/ /\ op[o].kind = "revoke_delegation"
                               /\ op[o].read # "absent"
                               /\ op[o].alone]
        /\ UNCHANGED <<revoked, agent, merchant, adminLog, gateVars, mustBlock,
                       lateSpend, lateCount>>
    BY <1>1 DEF CommitPolicy, Restoring
  <1>4. \/ op' = [op EXCEPT ![o].pc = "set"]
        \/ op' = [op EXCEPT ![o] = Ended("failed")]
    BY DEF CommitPolicy
  <1>5. Onward(o)
    <2>1. CASE op' = [op EXCEPT ![o].pc = "set"]
      <3>1. /\ op' \in [Ops -> OpRecord]
            /\ op'[o].pc = "set" /\ op'[o].kind = op[o].kind
            /\ op'[o].target = op[o].target
            /\ \A q \in Ops \ {o} : op'[q] = op[q]
        BY <1>2, <2>1 DEF OpRecord
      <3>. QED
        BY <1>1, <1>3, <3>1 DEF Onward, InFlight
    <2>2. CASE op' = [op EXCEPT ![o] = Ended("failed")]
      BY <1>2, <2>2, EndedTyped DEF Onward
    <2>. QED
      BY <1>4, <2>1, <2>2
  <1>6. \/ UNCHANGED policy /\ (op[o].read = "absent" \/ op[o].kind \in Restoring)
        \/ op[o].kind \in Restoring /\ policy' = [policy EXCEPT ![d] = "active"]
        \/ /\ op[o].read # "absent"
           /\ policy' = [policy EXCEPT
                  ![d] = RevokedColumn(op[o].kind, op[o].read, policy[d])]
    BY <1>1 DEF CommitPolicy, Restoring
  <1>7. RevokedColumn(op[o].kind, op[o].read, policy[d])
            \in {"absent", "active", "revoked"}
    BY <1>2 DEF RevokedColumn
  <1>8. /\ policy' \in [Delegations -> {"absent", "active", "revoked"}]
        /\ \A x \in Delegations \ {d} : policy'[x] = policy[x] /\ promised'[x] = promised[x]
        /\ promised'[d] = (\/ promised[d]
                           \/ /\ op[o].kind = "revoke_delegation"
                              /\ op[o].read # "absent"
                              /\ op[o].alone)
        /\ promised' \in [Delegations -> BOOLEAN]
    BY <1>2, <1>3, <1>6, <1>7 DEF OpRecord
  <1>9. CASE op[o].kind \in Restoring
    <2>1. RestoringInFlight(d)
      BY <1>1, <1>3, <1>9 DEF RestoringInFlight, InFlight
    <2>2. promised'[d] = promised[d]
      BY <1>2, <1>8, <1>9 DEF Restoring
    <2>. QED
      BY <1>3, <1>5, <1>8, <2>1, <2>2, StoreKeeps DEF AdmissionInv, TypeOK
  <1>10. CASE op[o].kind = "revoke_delegation"
    <2>1. policy[d] = "revoked" => policy'[d] = "revoked"
      BY <1>2, <1>6, <1>10 DEF RevokedColumn, Restoring
    <2>2. ASSUME promised'[d], ~promised[d]
          PROVE  ~RestoringInFlight(d) /\ policy'[d] = "revoked"
      <3>1. op[o].read # "absent" /\ op[o].alone
        BY <1>2, <1>8, <2>2
      <3>2. /\ ~RestoringInFlight(d)
            /\ op[o].read = "revoked" => policy[d] = "revoked"
        BY <1>1, <1>3, <1>10, <3>1 DEF AdmissionInv, RevokesAlone
      <3>3. op[o].read \in {"active", "revoked"}
        BY <1>2, <3>1 DEF OpRecord
      <3>4. policy' = [policy EXCEPT ![d] = RevokedColumn("revoke_delegation", op[o].read, policy[d])]
        BY <1>6, <1>10, <3>1 DEF Restoring
      <3>. QED
        BY <1>2, <3>2, <3>3, <3>4 DEF RevokedColumn
    <2>3. promised[d] => promised'[d]
      BY <1>2, <1>8
    <2>. QED
      BY <1>3, <1>5, <1>8, <2>1, <2>2, <2>3, StoreKeeps DEF AdmissionInv, TypeOK
  <1>. QED
    BY <1>3, <1>9, <1>10

LEMMA WriteSetKeeps ==
    ASSUME AdmissionInv, NEW o \in Ops, WriteRevocationSet(o)
    PROVE  AdmissionInv'
  <1>1. PICK d \in Delegations : d = op[o].target
    BY DEF AdmissionInv, RowCalls, WriteRevocationSet
  <1>2. /\ op \in [Ops -> OpRecord] /\ op[o] \in OpRecord
        /\ promised \in [Delegations -> BOOLEAN]
        /\ revoked \subseteq Delegations
    BY DEF AdmissionInv, TypeOK, OpRecord
  <1>3. /\ op[o].pc = "set" /\ op' = [op EXCEPT ![o].pc = "log"]
        /\ op[o].kind \in Restoring \cup {"revoke_delegation"}
        /\ revoked' = IF op[o].kind = "revoke_delegation"
                      THEN revoked \cup {d} ELSE revoked \ {d}
        /\ promised' = [promised EXCEPT ![d] =
                            \/ promised[d]
                            \/ /\ op[o].kind = "revoke_delegation"
                               /\ ~RestoringInFlight(d)]
        /\ UNCHANGED <<policy, agent, merchant, adminLog, gateVars, mustBlock,
                       lateSpend, lateCount>>
    BY <1>1 DEF WriteRevocationSet, AdmissionInv, RowCalls
  <1>4. Onward(o)
    <2>1. /\ op' \in [Ops -> OpRecord]
          /\ op'[o].pc = "log" /\ op'[o].kind = op[o].kind
          /\ op'[o].target = op[o].target
          /\ \A q \in Ops \ {o} : op'[q] = op[q]
      BY <1>2, <1>3 DEF OpRecord
    <2>. QED
      BY <1>3, <2>1 DEF Onward, InFlight
  <1>5. /\ revoked' \subseteq Delegations
        /\ \A x \in Delegations \ {d} : /\ promised'[x] = promised[x]
                                        /\ x \in revoked' <=> x \in revoked
        /\ promised'[d] = (promised[d] \/ (op[o].kind = "revoke_delegation"
                                               /\ ~RestoringInFlight(d)))
    BY <1>2, <1>3
  <1>6. promised' \in [Delegations -> BOOLEAN]
    <2>1. (promised[d] \/ (op[o].kind = "revoke_delegation" /\ ~RestoringInFlight(d)))
             \in BOOLEAN
      OBVIOUS
    <2>. QED
      BY <1>2, <1>3, <2>1
  <1>7. CASE op[o].kind \in Restoring
    <2>1. RestoringInFlight(d)
      BY <1>1, <1>3, <1>7 DEF RestoringInFlight, InFlight
    <2>2. promised'[d] = promised[d]
      BY <1>2, <1>5, <1>7 DEF Restoring
    <2>. QED
      BY <1>3, <1>4, <1>5, <1>6, <2>1, <2>2, StoreKeeps DEF AdmissionInv, TypeOK
  <1>8. CASE op[o].kind = "revoke_delegation"
    <2>1. /\ d \in revoked'
          /\ promised[d] => promised'[d]
          /\ promised'[d] => promised[d] \/ ~RestoringInFlight(d)
      BY <1>2, <1>3, <1>5, <1>8
    <2>. QED
      BY <1>3, <1>4, <1>5, <1>6, <2>1, StoreKeeps DEF AdmissionInv, TypeOK
  <1>. QED
    BY <1>3, <1>7, <1>8
-----------------------------------------------------------------------------
(***************************************************************************)
(* The gateway's steps.  Each is about one request and leaves the registry *)
(* and the promises alone.                                                 *)
(***************************************************************************)
Labels == {"unmade", "new", "load", "sum", "window", "decide", "count",
           "authorize", "done", "dead"}

States == {"none", "CREATED", "AUTHORIZED", "CONFIRMED", "FAILED"}

LEMMA RequestKeeps ==
    ASSUME AdmissionInv, NEW r \in Requests,
           UNCHANGED <<planeVars, promised>>,
           pc' \in [Requests -> Labels],
           answer' \in [Requests -> AnswerRecord],
           state' \in [Requests -> States],
           velocity' \subseteq Requests,
           lateSpend' \subseteq Requests, lateCount' \subseteq Requests,
           mustBlock' \subseteq mustBlock \cup {r},
           SeenShape',
           \A q \in Requests \ {r} : /\ pc'[q] = pc[q] /\ seen'[q] = seen[q]
                                     /\ answer'[q] = answer[q],
           pc'[r] = "new" => pc[r] = "new" /\ answer'[r] = answer[r],
           r \in mustBlock' => /\ promised[DelegationOf[r]]
                               /\ RowStopsIt(r)'
                               /\ answer'[r].decision # "ALLOW"
    PROVE  AdmissionInv'
  <1>1. mustBlock' \subseteq Requests
    BY DEF AdmissionInv, TypeOK
  <1>2. TypeOK'
    BY <1>1 DEF AdmissionInv, TypeOK, planeVars, Labels, States, AnswerRecord
  <1>3. RowCalls' /\ RevokesAlone' /\ RevocationStands'
    BY DEF AdmissionInv, RowCalls, RevokesAlone, RevocationStands,
           RestoringInFlight, InFlight, planeVars
  <1>4. FreshUnanswered'
    BY DEF AdmissionInv, FreshUnanswered
  <1>5. ASSUME NEW q \in mustBlock'
        PROVE  /\ promised'[DelegationOf[q]] /\ RowStopsIt(q)'
               /\ answer'[q].decision # "ALLOW"
    <2>1. CASE q = r
      BY <1>5, <2>1
    <2>2. CASE q # r
      <3>1. /\ q \in mustBlock /\ q \in Requests
            /\ promised[DelegationOf[q]] /\ RowStopsIt(q)
            /\ answer[q].decision # "ALLOW"
        BY <1>1, <1>5, <2>2 DEF AdmissionInv, Guarded, RevocationHolds
      <3>. QED
        BY <2>2, <3>1 DEF RowStopsIt, planeVars
    <2>. QED
      BY <2>1, <2>2
  <1>6. Guarded' /\ RevocationHolds'
    BY <1>5 DEF Guarded, RevocationHolds
  <1>. QED
    BY <1>2, <1>3, <1>4, <1>6 DEF AdmissionInv

\* The shape of what a request of a state of the invariant is.
LEMMA RequestParts ==
    ASSUME AdmissionInv
    PROVE  /\ pc \in [Requests -> Labels]
           /\ answer \in [Requests -> AnswerRecord]
           /\ state \in [Requests -> States]
           /\ velocity \subseteq Requests
           /\ lateSpend \subseteq Requests /\ lateCount \subseteq Requests
           /\ mustBlock \subseteq Requests
           /\ promised \in [Delegations -> BOOLEAN]
           /\ SeenShape
  BY DEF AdmissionInv, TypeOK, Labels, States, AnswerRecord

LEMMA AuthenticateKeeps ==
    ASSUME AdmissionInv, NEW r \in Requests, Authenticate(r)
    PROVE  AdmissionInv'
  <1>1. /\ pc[r] = "new" /\ answer[r].decision # "ALLOW" /\ answer[r] \in AnswerRecord
        /\ DelegationOf[r] \in Delegations
    BY RequestParts, AdmissionAssumption DEF Authenticate, AdmissionInv, FreshUnanswered
  <1>2. /\ UNCHANGED <<planeVars, seen, state, velocity, promised, lateSpend, lateCount>>
        /\ mustBlock' = IF promised[DelegationOf[r]] THEN mustBlock \cup {r}
                                                     ELSE mustBlock
    BY DEF Authenticate
  <1>3. \/ pc' = [pc EXCEPT ![r] = "done"]
        \/ pc' = [pc EXCEPT ![r] = "load"] /\ DelegationOf[r] \notin revoked
    BY DEF Authenticate, Refuse, Goto
  <1>4. /\ answer' \in [Requests -> AnswerRecord]
        /\ answer'[r].decision # "ALLOW"
        /\ \A q \in Requests \ {r} : answer'[q] = answer[q]
    <2>1. CASE answer' = [answer EXCEPT ![r].decision = "BLOCK"]
      BY <1>1, <2>1, RequestParts DEF AnswerRecord
    <2>2. CASE UNCHANGED answer
      BY <1>1, <2>2, RequestParts
    <2>. QED
      BY <2>1, <2>2 DEF Authenticate, Refuse
  <1>5. r \in mustBlock' => promised[DelegationOf[r]]
    BY <1>2 DEF AdmissionInv, Guarded
  <1>6. r \in mustBlock' => RowStopsIt(r)'
    <2>. SUFFICES ASSUME r \in mustBlock' PROVE RowStopsIt(r)'
      OBVIOUS
    <2>1. policy[DelegationOf[r]] = "revoked" \/ DelegationOf[r] \in revoked
      BY <1>1, <1>5 DEF AdmissionInv, RevocationStands
    <2>2. pc'[r] = "done" \/ (pc'[r] = "load" /\ policy'[DelegationOf[r]] = "revoked")
      BY <1>2, <1>3, <2>1, RequestParts DEF planeVars
    <2>. QED
      BY <2>2 DEF RowStopsIt
  <1>7. /\ pc' \in [Requests -> Labels] /\ pc'[r] # "new"
        /\ \A q \in Requests \ {r} : pc'[q] = pc[q]
    BY <1>3, RequestParts DEF Labels
  <1>8. SeenShape' /\ mustBlock' \subseteq mustBlock \cup {r}
    BY <1>2, RequestParts DEF SeenShape
  <1>. QED
    BY <1>2, <1>4, <1>5, <1>6, <1>7, <1>8, RequestParts, RequestKeeps

\* load_context: one more thing is read.
LEMMA LoadKeeps ==
    ASSUME AdmissionInv, NEW r \in Requests,
           LoadPolicy(r) \/ SumSpent(r) \/ CountVelocity(r)
    PROVE  AdmissionInv'
  <1>1. /\ UNCHANGED <<planeVars, answer, state, velocity, history>>
        /\ \/ pc[r] = "load" /\ pc' = [pc EXCEPT ![r] = "sum"]
           \/ pc[r] = "sum" /\ pc' = [pc EXCEPT ![r] = "window"]
           \/ pc[r] = "window" /\ pc' = [pc EXCEPT ![r] = "decide"]
    BY DEF LoadPolicy, SumSpent, CountVelocity, Goto
  <1>2. PICK x : /\ seen' = [seen EXCEPT ![r] = x]
                 /\ "policy" \in DOMAIN x
                 /\ IF pc[r] = "load" THEN x.policy = policy[DelegationOf[r]]
                                      ELSE x.policy = seen[r].policy
    <2>0. "policy" \in DOMAIN seen[r]
      BY DEF AdmissionInv, SeenShape
    <2>1. CASE LoadPolicy(r)
      <3>. DEFINE x == [seen[r] EXCEPT !.policy = policy[DelegationOf[r]],
                                       !.agent = agent, !.merchant = merchant]
      <3>1. seen' = [seen EXCEPT ![r] = x] /\ pc[r] = "load"
        BY <2>1 DEF LoadPolicy, AdmissionInv, SeenShape
      <3>2. "policy" \in DOMAIN x /\ x.policy = policy[DelegationOf[r]]
        BY <2>0
      <3>. QED
        BY <3>1, <3>2
    <2>2. CASE SumSpent(r)
      <3>. DEFINE x == [seen[r] EXCEPT !.spent = Spent(Settled)]
      <3>1. seen' = [seen EXCEPT ![r] = x] /\ pc[r] = "sum"
        BY <2>2 DEF SumSpent
      <3>2. "policy" \in DOMAIN x /\ x.policy = seen[r].policy
        BY <2>0
      <3>. QED
        BY <3>1, <3>2
    <2>3. CASE CountVelocity(r)
      <3>. DEFINE x == [seen[r] EXCEPT !.count = Cardinality(velocity)]
      <3>1. seen' = [seen EXCEPT ![r] = x] /\ pc[r] = "window"
        BY <2>3 DEF CountVelocity
      <3>2. "policy" \in DOMAIN x /\ x.policy = seen[r].policy
        BY <2>0
      <3>. QED
        BY <3>1, <3>2
    <2>. QED
      BY <2>1, <2>2, <2>3
  <1>3. /\ SeenShape' /\ seen'[r] = x
        /\ \A q \in Requests \ {r} : seen'[q] = seen[q]
    BY <1>2 DEF AdmissionInv, SeenShape
  <1>4. /\ pc' \in [Requests -> Labels] /\ pc'[r] \in {"sum", "window", "decide"}
        /\ \A q \in Requests \ {r} : pc'[q] = pc[q]
    BY <1>1, RequestParts DEF Labels
  <1>5. r \in mustBlock' => /\ promised[DelegationOf[r]]
                            /\ RowStopsIt(r)'
                            /\ answer'[r].decision # "ALLOW"
    <2>. SUFFICES ASSUME r \in mustBlock'
                  PROVE  /\ promised[DelegationOf[r]] /\ RowStopsIt(r)'
                         /\ answer'[r].decision # "ALLOW"
      OBVIOUS
    <2>1. /\ r \in mustBlock /\ promised[DelegationOf[r]] /\ RowStopsIt(r)
          /\ answer'[r].decision # "ALLOW"
      BY <1>1 DEF AdmissionInv, Guarded, RevocationHolds, history
    <2>2. x.policy = "revoked"
      BY <1>1, <1>2, <2>1 DEF RowStopsIt
    <2>. QED
      BY <1>3, <1>4, <2>1, <2>2 DEF RowStopsIt
  <1>. QED
    BY <1>1, <1>3, <1>4, <1>5, RequestParts, RequestKeeps DEF history

\* What Decide answers, and that a revoked row makes it anything but ALLOW.
LEMMA DecideParts ==
    ASSUME AdmissionInv, NEW r \in Requests, Decide(r)
    PROVE  \E llm \in Verdicts, up \in BOOLEAN, approval \in ApprovalFindings(r) :
              LET a == Outcome(PolicyInput(r, llm, approval), up)
              IN  /\ answer' = [answer EXCEPT ![r] = a]
                  /\ state' = [state EXCEPT ![r] = IF a.decision = "BLOCK"
                                                   THEN "FAILED" ELSE "CREATED"]
                  /\ pc' = [pc EXCEPT ![r] = IF a.decision = "ALLOW"
                                             THEN "count" ELSE "done"]
  <1>1. PICK a \in Outcomes(r) :
          /\ answer' = [answer EXCEPT ![r] = a]
          /\ state' = [state EXCEPT ![r] = IF a.decision = "BLOCK"
                                           THEN "FAILED" ELSE "CREATED"]
          /\ pc' = [pc EXCEPT ![r] = IF a.decision = "ALLOW" THEN "count" ELSE "done"]
    BY DEF Decide, Goto
  <1>2. PICK up \in BOOLEAN, llm \in Verdicts, approval \in ApprovalFindings(r) :
          a = Outcome(PolicyInput(r, llm, approval), up)
    BY DEF Outcomes
  <1>. WITNESS llm \in Verdicts, up \in BOOLEAN, approval \in ApprovalFindings(r)
  <1>. QED
    BY <1>1, <1>2

LEMMA DecideKeeps ==
    ASSUME AdmissionInv, NEW r \in Requests, Decide(r)
    PROVE  AdmissionInv'
  <1>1. PICK llm \in Verdicts, up \in BOOLEAN, approval \in ApprovalFindings(r) :
           LET a == Outcome(PolicyInput(r, llm, approval), up)
           IN  /\ answer' = [answer EXCEPT ![r] = a]
               /\ state' = [state EXCEPT ![r] = IF a.decision = "BLOCK"
                                                THEN "FAILED" ELSE "CREATED"]
               /\ pc' = [pc EXCEPT ![r] = IF a.decision = "ALLOW"
                                          THEN "count" ELSE "done"]
    BY DecideParts
  <1>. DEFINE input == PolicyInput(r, llm, approval)
              a == Outcome(input, up)
  <1>2. /\ pc[r] = "decide" /\ seen' = [seen EXCEPT ![r] = NothingSeen]
        /\ UNCHANGED <<planeVars, velocity, history>>
    BY DEF Decide
  <1>3. a \in AnswerRecord
    BY OutcomeTyped DEF AnswerRecord, DecisionValues
  <1>4. seen[r].policy = "revoked" => a.decision # "ALLOW"
    <2>1. input.context = Context(r)
      BY InputParts
    <2>2. Context(r).policy_revoked = (seen[r].policy = "revoked")
      BY DEF Context
    <2>3. seen[r].policy = "revoked" => decision(input) # "ALLOW"
      <3>1. seen[r].policy = "revoked" => input.context.policy_revoked = TRUE
        BY <2>1, <2>2
      <3>. QED
        BY <3>1, RevokedIsBlocked
    <2>4. a.decision = evaluate(input, up)
      <3>. HIDE DEF input
      <3>. QED
        BY DEF Outcome, NoAnswer
    <2>5. evaluate(input, up) = "ALLOW" => decision(input) = "ALLOW"
      BY DEF evaluate
    <2>. QED
      BY <2>3, <2>4, <2>5
  <1>. HIDE DEF a, input
  <1>5. /\ answer' = [answer EXCEPT ![r] = a]
        /\ state' = [state EXCEPT ![r] = IF a.decision = "BLOCK"
                                         THEN "FAILED" ELSE "CREATED"]
        /\ pc' = [pc EXCEPT ![r] = IF a.decision = "ALLOW" THEN "count" ELSE "done"]
    BY <1>1 DEF a, input
  <1>6. /\ pc' \in [Requests -> Labels] /\ pc'[r] \in {"count", "done"}
        /\ answer' \in [Requests -> AnswerRecord] /\ answer'[r] = a
        /\ state' \in [Requests -> States]
        /\ \A q \in Requests \ {r} : pc'[q] = pc[q] /\ answer'[q] = answer[q]
    BY <1>3, <1>5, RequestParts DEF Labels, States
  <1>7. SeenShape' /\ \A q \in Requests \ {r} : seen'[q] = seen[q]
    BY <1>2, RequestParts DEF SeenShape, NothingSeen
  <1>8. r \in mustBlock' => /\ promised[DelegationOf[r]]
                            /\ RowStopsIt(r)'
                            /\ answer'[r].decision # "ALLOW"
    <2>1. r \in mustBlock' => promised[DelegationOf[r]] /\ seen[r].policy = "revoked"
      BY <1>2 DEF AdmissionInv, Guarded, RowStopsIt, history
    <2>. QED
      BY <1>4, <1>6, <2>1 DEF RowStopsIt
  <1>. QED
    BY <1>2, <1>6, <1>7, <1>8, RequestParts, RequestKeeps DEF history

\* The steps after the decision, and a request that dies.
LEMMA SettleKeeps ==
    ASSUME AdmissionInv, NEW r \in Requests,
           \/ RecordVelocity(r) \/ Authorize(r) \/ Conclude(r) \/ RequestDies(r)
    PROVE  AdmissionInv'
  <1>1. /\ UNCHANGED <<planeVars, promised, mustBlock, answer>>
        /\ velocity' \subseteq Requests
        /\ lateSpend' \subseteq Requests /\ lateCount' \subseteq Requests
    BY RequestParts DEF RecordVelocity, Authorize, Conclude, RequestDies, history
  <1>2. \/ UNCHANGED pc /\ state[r] = "AUTHORIZED"
        \/ /\ pc[r] # "new"
           /\ \E l \in {"authorize", "done", "dead"} : pc' = [pc EXCEPT ![r] = l]
    BY DEF RecordVelocity, Authorize, Conclude, RequestDies, Goto
  <1>3. /\ pc' \in [Requests -> Labels]
        /\ \A q \in Requests \ {r} : pc'[q] = pc[q]
        /\ pc'[r] = pc[r] \/ pc'[r] \in {"authorize", "done", "dead"}
    BY <1>2, RequestParts DEF Labels
  <1>4. state' \in [Requests -> States]
    BY RequestParts DEF RecordVelocity, Authorize, Conclude, RequestDies, States
  <1>5. /\ SeenShape' /\ \A q \in Requests \ {r} : seen'[q] = seen[q]
        /\ pc'[r] = pc[r] => seen'[r] = seen[r]
    <2>1. CASE RequestDies(r)
      <3>1. pc'[r] = "dead" /\ pc[r] # "dead"
        BY <2>1, RequestParts DEF RequestDies, Goto
      <3>. QED
        BY <2>1, <3>1, RequestParts DEF RequestDies, SeenShape, NothingSeen
    <2>2. CASE UNCHANGED seen
      BY <2>2, RequestParts DEF SeenShape
    <2>. QED
      BY <2>1, <2>2 DEF RecordVelocity, Authorize, Conclude
  <1>6. r \in mustBlock' => /\ promised[DelegationOf[r]]
                            /\ RowStopsIt(r)'
                            /\ answer'[r].decision # "ALLOW"
    <2>1. r \in mustBlock' => /\ promised[DelegationOf[r]] /\ RowStopsIt(r)
                              /\ answer[r].decision # "ALLOW"
      BY <1>1 DEF AdmissionInv, Guarded, RevocationHolds
    <2>2. r \in mustBlock' => RowStopsIt(r)'
      <3>1. CASE pc'[r] = pc[r]
        BY <1>1, <1>5, <2>1, <3>1 DEF RowStopsIt, planeVars
      <3>2. CASE pc'[r] \in {"authorize", "done", "dead"}
        BY <3>2 DEF RowStopsIt
      <3>. QED
        BY <1>3, <3>1, <3>2
    <2>. QED
      BY <1>1, <2>1, <2>2
  <1>. QED
    BY <1>1, <1>3, <1>4, <1>5, <1>6, RequestParts, RequestKeeps

LEMMA StillKeeps ==
    ASSUME AdmissionInv, WindowSlides \/ UNCHANGED vars
    PROVE  AdmissionInv'
  <1>1. /\ UNCHANGED <<planeVars, pc, seen, answer, state, history>>
        /\ velocity' \subseteq Requests
    BY RequestParts DEF WindowSlides, vars, gateVars
  <1>2. TypeOK'
    BY <1>1 DEF AdmissionInv, TypeOK, planeVars, history
  <1>3. RowCalls' /\ RevokesAlone' /\ RevocationStands'
    BY <1>1 DEF AdmissionInv, RowCalls, RevokesAlone, RevocationStands,
                RestoringInFlight, InFlight, planeVars, history
  <1>4. SeenShape' /\ FreshUnanswered' /\ Guarded' /\ RevocationHolds'
    BY <1>1 DEF AdmissionInv, SeenShape, FreshUnanswered, Guarded, RowStopsIt,
                RevocationHolds, planeVars, history
  <1>. QED
    BY <1>2, <1>3, <1>4 DEF AdmissionInv

-----------------------------------------------------------------------------
LEMMA AdmissionStep == AdmissionInv /\ [Next]_vars => AdmissionInv'
  <1>. SUFFICES ASSUME AdmissionInv, [Next]_vars PROVE AdmissionInv'
    OBVIOUS
  <1>1. ASSUME NEW o \in Ops,
               \/ ReadPolicy(o) \/ CommitPolicy(o) \/ WriteRevocationSet(o)
               \/ UpsertAgent(o) \/ UpsertMerchant(o) \/ RecordAdminAction(o)
               \/ OpDies(o)
        PROVE  AdmissionInv'
    BY <1>1, CallKeeps, ReadPolicyKeeps, CommitPolicyKeeps, WriteSetKeeps
  <1>2. ASSUME NEW r \in Requests,
               \/ Authenticate(r) \/ LoadPolicy(r) \/ SumSpent(r) \/ CountVelocity(r)
               \/ Decide(r) \/ RecordVelocity(r) \/ Authorize(r) \/ Conclude(r)
               \/ RequestDies(r)
        PROVE  AdmissionInv'
    BY <1>2, AuthenticateKeeps, LoadKeeps, DecideKeeps, SettleKeeps
  <1>3. CASE WindowSlides \/ UNCHANGED vars
    BY <1>3, StillKeeps
  <1>. QED
    BY <1>1, <1>2, <1>3 DEF Next

\* The invariant holds of the control plane and the gateway together.
THEOREM AdmissionInvariant == Spec => []AdmissionInv
  BY AdmissionInitially, AdmissionStep, PTL DEF Spec

\* The registries, the calls and the requests keep their types, for any number
\* of them and any policy terms.
THEOREM AdmissionTypeCorrect == Spec => []TypeOK
  <1>1. AdmissionInv => TypeOK
    BY DEF AdmissionInv
  <1>. QED
    BY <1>1, AdmissionInvariant, PTL

\* revoke_delegation against authenticate and load_context: once a revocation
\* stands no request made after it is allowed, wherever the control plane dies
\* and however its calls interleave.
THEOREM RevocationAlwaysHolds == Spec => []RevocationHolds
  <1>1. AdmissionInv => RevocationHolds
    BY DEF AdmissionInv
  <1>. QED
    BY <1>1, AdmissionInvariant, PTL

LEMMA ReviewStep ==
    AdmissionInv /\ NoUnreviewedRisk /\ [Next]_vars => NoUnreviewedRisk'
  <1>. SUFFICES ASSUME AdmissionInv, NoUnreviewedRisk, [Next]_vars
                PROVE  NoUnreviewedRisk'
    OBVIOUS
  <1>1. ASSUME NEW r \in Requests, Decide(r)
        PROVE  NoUnreviewedRisk'
    <2>1. PICK llm \in Verdicts, up \in BOOLEAN, approval \in ApprovalFindings(r) :
             LET a == Outcome(PolicyInput(r, llm, approval), up)
             IN  answer' = [answer EXCEPT ![r] = a]
      BY <1>1, DecideParts
    <2>. DEFINE a == Outcome(PolicyInput(r, llm, approval), up)
    <2>2. a.decision = "ALLOW" /\ ~a.human =>
             /\ ~a.degraded \/ Policy.allow_degraded_classifier
             /\ ~a.suspected
             /\ AmountOf[r] < Policy.approval_threshold
      BY OutcomeIsReviewed
    <2>3. answer'[r] = a /\ \A q \in Requests \ {r} : answer'[q] = answer[q]
      <3>. HIDE DEF a
      <3>1. answer' = [answer EXCEPT ![r] = a]
        BY <2>1 DEF a
      <3>. QED
        BY <3>1, RequestParts
    <2>. HIDE DEF a
    <2>. QED
      BY <2>2, <2>3 DEF NoUnreviewedRisk
  <1>2. ASSUME NEW r \in Requests, Authenticate(r)
        PROVE  NoUnreviewedRisk'
    <2>1. \/ UNCHANGED answer
          \/ /\ answer'[r].decision = "BLOCK"
             /\ \A q \in Requests \ {r} : answer'[q] = answer[q]
      BY <1>2, RequestParts DEF Authenticate, Refuse, AnswerRecord
    <2>. QED
      BY <2>1 DEF NoUnreviewedRisk
  <1>3. CASE UNCHANGED answer
    BY <1>3 DEF NoUnreviewedRisk
  <1>4. \/ \E r \in Requests : Decide(r) \/ Authenticate(r)
        \/ UNCHANGED answer
    BY DEF Next, vars, gateVars, history, ReadPolicy, CommitPolicy, WriteRevocationSet,
           UpsertAgent, UpsertMerchant, RecordAdminAction, OpDies, LoadPolicy,
           SumSpent, CountVelocity, RecordVelocity, Authorize, Conclude,
           RequestDies, WindowSlides
  <1>. QED
    BY <1>1, <1>2, <1>3, <1>4

\* evaluate over build_input: whatever the classifier, the rules and the
\* approval token said, an ALLOW without a human's approval had no degraded
\* classifier (unless the policy accepts one), no suspected injection and an
\* amount under the threshold.
THEOREM RiskIsAlwaysReviewed == Spec => []NoUnreviewedRisk
  <1>1. Init => NoUnreviewedRisk
    BY DEF Init, NoUnreviewedRisk, NoAnswer
  <1>. QED
    BY <1>1, ReviewStep, AdmissionInvariant, PTL DEF Spec

-----------------------------------------------------------------------------
(***************************************************************************)
(* The hourly window.  VelocityLimitHolds is not inductive: a request that *)
(* is allowed is counted only later, so the room it found must still be    *)
(* there.  It is, unless another request was counted since it read the     *)
(* window; then it is in lateCount.                                        *)
(***************************************************************************)
\* The requests of the window that count against the limit.
InTime == velocity \ lateCount

Counts ==
    /\ IsFiniteSet(velocity)
    /\ \A r \in Requests : "count" \in DOMAIN seen[r]

\* A request that is about to be decided has read no less than what is counted
\* against the limit.
CountStands ==
    \A r \in Requests :
        pc[r] = "decide" /\ r \notin lateCount =>
            seen[r].count \in Nat /\ Cardinality(InTime) <= seen[r].count

\* A request that was allowed has room in the window.
RoomLeft ==
    \A r \in Requests :
        pc[r] = "count" /\ r \notin lateCount =>
            Cardinality(InTime) < Policy.max_transactions_per_hour

VelocityInv == Counts /\ CountStands /\ RoomLeft /\ VelocityLimitHolds

LEMMA InTimeSmaller ==
    ASSUME NEW S, NEW T, IsFiniteSet(S), T \subseteq S
    PROVE  /\ IsFiniteSet(T)
           /\ Cardinality(T) \in Nat /\ Cardinality(S) \in Nat
           /\ Cardinality(T) <= Cardinality(S)
  BY FS_Subset, FS_CardinalityType

LEMMA OneMoreInTime ==
    ASSUME NEW S, NEW T, NEW x, IsFiniteSet(S), T = S \cup {x}
    PROVE  /\ IsFiniteSet(T)
           /\ Cardinality(S) \in Nat /\ Cardinality(T) \in Nat
           /\ Cardinality(T) <= Cardinality(S) + 1
  <1>1. Cardinality(S) \in Nat
    BY FS_CardinalityType
  <1>2. CASE x \in S
    <2>1. T = S
      BY <1>2
    <2>. QED
      BY <1>1, <2>1
  <1>3. CASE x \notin S
    <2>1. IsFiniteSet(T) /\ Cardinality(T) = Cardinality(S) + 1
      BY <1>3, FS_AddElement
    <2>. QED
      BY <1>1, <2>1
  <1>. QED
    BY <1>2, <1>3

\* What counts against the limit does not grow.
LEMMA InTimeShrinks ==
    ASSUME VelocityInv, InTime' \subseteq InTime
    PROVE  /\ Cardinality(InTime) \in Nat /\ Cardinality(InTime') \in Nat
           /\ Cardinality(InTime') <= Cardinality(InTime)
  <1>1. IsFiniteSet(InTime)
    BY InTimeSmaller DEF VelocityInv, Counts, InTime
  <1>. QED
    BY <1>1, InTimeSmaller

LEMMA VelocityKept ==
    ASSUME VelocityInv, InTime' \subseteq InTime, IsFiniteSet(velocity'),
           lateCount \subseteq lateCount',
           \A r \in Requests : "count" \in DOMAIN seen'[r],
           \A r \in Requests :
              pc'[r] = "decide" /\ r \notin lateCount =>
                 \/ pc[r] = "decide" /\ seen'[r] = seen[r]
                 \/ seen'[r].count \in Nat /\ Cardinality(InTime) <= seen'[r].count,
           \A r \in Requests :
              pc'[r] = "count" /\ r \notin lateCount =>
                 \/ pc[r] = "count"
                 \/ Cardinality(InTime) < Policy.max_transactions_per_hour
    PROVE  VelocityInv'
  <1>1. /\ Cardinality(InTime) \in Nat /\ Cardinality(InTime') \in Nat
        /\ Cardinality(InTime') <= Cardinality(InTime)
        /\ Policy.max_transactions_per_hour \in Nat
    BY InTimeShrinks, AdmissionAssumption
  <1>2. Counts'
    BY DEF Counts
  <1>3. CountStands'
    <2>. SUFFICES ASSUME NEW r \in Requests, pc'[r] = "decide", r \notin lateCount'
                  PROVE  seen'[r].count \in Nat /\ Cardinality(InTime') <= seen'[r].count
      BY DEF CountStands
    <2>1. seen'[r].count \in Nat /\ Cardinality(InTime) <= seen'[r].count
      BY DEF VelocityInv, CountStands
    <2>. QED
      BY <1>1, <2>1
  <1>4. RoomLeft'
    <2>. SUFFICES ASSUME NEW r \in Requests, pc'[r] = "count", r \notin lateCount'
                  PROVE  Cardinality(InTime') < Policy.max_transactions_per_hour
      BY DEF RoomLeft
    <2>1. Cardinality(InTime) < Policy.max_transactions_per_hour
      BY DEF VelocityInv, RoomLeft
    <2>. QED
      BY <1>1, <2>1
  <1>5. VelocityLimitHolds'
    BY <1>1 DEF VelocityInv, VelocityLimitHolds, InTime
  <1>. QED
    BY <1>2, <1>3, <1>4, <1>5 DEF VelocityInv

\* An ALLOW found room in the window it was decided on.
LEMMA AllowHadRoom ==
    ASSUME NEW r \in Requests, NEW llm \in Verdicts, NEW approval, NEW up \in BOOLEAN,
           seen[r].count \in Nat,
           Outcome(PolicyInput(r, llm, approval), up).decision = "ALLOW"
    PROVE  seen[r].count < Policy.max_transactions_per_hour
  <1>. DEFINE input == PolicyInput(r, llm, approval)
  <1>1. decision(input) = "ALLOW"
    BY DEF Outcome, evaluate, NoAnswer
  <1>2. spending_deny(input) = {}
    BY <1>1, AllowMeans DEF deny_reasons
  <1>3. input.context = Context(r)
    BY InputParts
  <1>. HIDE DEF input
  <1>4. /\ Context(r).policy_found
        /\ ~(Context(r).transactions_last_hour >= Context(r).max_transactions_per_hour)
    BY <1>2, <1>3 DEF spending_deny, Code
  <1>5. /\ Context(r).transactions_last_hour = seen[r].count
        /\ Context(r).max_transactions_per_hour = Policy.max_transactions_per_hour
    BY <1>4 DEF Context
  <1>6. Policy.max_transactions_per_hour \in Nat
    BY AdmissionAssumption
  <1>. QED
    BY <1>4, <1>5, <1>6

\* The steps that change neither the window nor what the requests read of it.
LEMMA OthersKeepVelocity ==
    ASSUME AdmissionInv, VelocityInv, UNCHANGED <<velocity, lateCount>>,
           \A r \in Requests : "count" \in DOMAIN seen'[r],
           \A r \in Requests :
              /\ pc'[r] = "count" => pc[r] = "count"
              /\ pc'[r] = "decide" => pc[r] = "decide" /\ seen'[r] = seen[r]
    PROVE  VelocityInv'
  <1>1. InTime' \subseteq InTime /\ IsFiniteSet(velocity')
    BY DEF InTime, VelocityInv, Counts
  <1>. QED
    BY <1>1, VelocityKept

LEMMA VelocityStep ==
    AdmissionInv /\ VelocityInv /\ [Next]_vars => VelocityInv'
  <1>. SUFFICES ASSUME AdmissionInv, VelocityInv, [Next]_vars
                PROVE  VelocityInv'
    OBVIOUS
  <1>0. /\ pc \in [Requests -> Labels] /\ seen = [r \in Requests |-> seen[r]]
        /\ \A r \in Requests : "count" \in DOMAIN seen[r]
        /\ velocity \subseteq Requests /\ lateCount \subseteq Requests
        /\ IsFiniteSet(velocity)
    BY RequestParts DEF SeenShape, VelocityInv, Counts
  <1>a. IsFiniteSet(InTime) /\ Cardinality(InTime) \in Nat
    BY <1>0, InTimeSmaller DEF InTime
  <1>b. Policy.max_transactions_per_hour \in Nat
    BY AdmissionAssumption
  <1>1. CASE UNCHANGED <<pc, seen, velocity, lateCount>>
    BY <1>0, <1>1, OthersKeepVelocity
  <1>2. ASSUME NEW r \in Requests,
               Authenticate(r) \/ LoadPolicy(r) \/ SumSpent(r) \/ RequestDies(r)
                  \/ Authorize(r)
        PROVE  VelocityInv'
    <2>1. /\ UNCHANGED <<velocity, lateCount>>
          /\ \E l \in Labels \ {"decide", "count"} : pc' = [pc EXCEPT ![r] = l]
      BY <1>2 DEF Authenticate, Refuse, LoadPolicy, SumSpent, RequestDies,
                  Authorize, Goto, history, Labels
    <2>2. PICK x : seen' = [seen EXCEPT ![r] = x] /\ "count" \in DOMAIN x
      <3>1. CASE LoadPolicy(r)
        <4>. DEFINE x == [seen[r] EXCEPT !.policy = policy[DelegationOf[r]],
                                         !.agent = agent, !.merchant = merchant]
        <4>1. seen' = [seen EXCEPT ![r] = x] /\ "count" \in DOMAIN x
          BY <1>0, <3>1 DEF LoadPolicy
        <4>. QED
          BY <4>1
      <3>2. CASE SumSpent(r)
        <4>. DEFINE x == [seen[r] EXCEPT !.spent = Spent(Settled)]
        <4>1. seen' = [seen EXCEPT ![r] = x] /\ "count" \in DOMAIN x
          BY <1>0, <3>2 DEF SumSpent
        <4>. QED
          BY <4>1
      <3>3. CASE RequestDies(r)
        <4>1. "count" \in DOMAIN NothingSeen
          BY DEF NothingSeen
        <4>2. seen' = [seen EXCEPT ![r] = NothingSeen]
          BY <3>3 DEF RequestDies
        <4>. QED
          BY <4>1, <4>2
      <3>4. CASE Authenticate(r) \/ Authorize(r)
        <4>1. seen' = [seen EXCEPT ![r] = seen[r]]
          BY <1>0, <3>4 DEF Authenticate, Authorize
        <4>. QED
          BY <1>0, <4>1
      <3>. QED
        BY <1>2, <3>1, <3>2, <3>3, <3>4
    <2>3. /\ \A q \in Requests : "count" \in DOMAIN seen'[q]
          /\ \A q \in Requests \ {r} : pc'[q] = pc[q] /\ seen'[q] = seen[q]
          /\ pc'[r] \notin {"decide", "count"}
      BY <1>0, <2>1, <2>2
    <2>. QED
      BY <2>1, <2>3, OthersKeepVelocity
  <1>3. ASSUME NEW r \in Requests, CountVelocity(r)
        PROVE  VelocityInv'
    <2>1. /\ UNCHANGED <<velocity, lateCount>>
          /\ pc' = [pc EXCEPT ![r] = "decide"]
          /\ seen' = [seen EXCEPT ![r] = [seen[r] EXCEPT !.count = Cardinality(velocity)]]
      BY <1>0, <1>3 DEF CountVelocity, Goto, history
    <2>2. /\ pc'[r] = "decide" /\ seen'[r].count = Cardinality(velocity)
          /\ \A q \in Requests : "count" \in DOMAIN seen'[q]
          /\ \A q \in Requests \ {r} : pc'[q] = pc[q] /\ seen'[q] = seen[q]
      BY <1>0, <2>1
    <2>3. Cardinality(velocity) \in Nat /\ Cardinality(InTime) <= Cardinality(velocity)
      BY <1>0, InTimeSmaller DEF InTime
    <2>4. InTime' \subseteq InTime
      BY <2>1 DEF InTime
    <2>. QED
      BY <1>0, <2>1, <2>2, <2>3, <2>4, VelocityKept
  <1>4. ASSUME NEW r \in Requests, Decide(r)
        PROVE  VelocityInv'
    <2>1. /\ pc[r] = "decide" /\ seen' = [seen EXCEPT ![r] = NothingSeen]
          /\ UNCHANGED <<velocity, lateCount>>
      BY <1>4 DEF Decide, history
    <2>2. PICK llm \in Verdicts, up \in BOOLEAN, approval \in ApprovalFindings(r) :
             LET a == Outcome(PolicyInput(r, llm, approval), up)
             IN  pc' = [pc EXCEPT ![r] = IF a.decision = "ALLOW"
                                         THEN "count" ELSE "done"]
      BY <1>4, DecideParts
    <2>. DEFINE allowed == Outcome(PolicyInput(r, llm, approval), up).decision = "ALLOW"
    <2>3. allowed /\ r \notin lateCount =>
             Cardinality(InTime) < Policy.max_transactions_per_hour
      <3>. SUFFICES ASSUME allowed, r \notin lateCount
                    PROVE  Cardinality(InTime) < Policy.max_transactions_per_hour
        OBVIOUS
      <3>1. seen[r].count \in Nat /\ Cardinality(InTime) <= seen[r].count
        BY <2>1 DEF VelocityInv, CountStands
      <3>2. seen[r].count < Policy.max_transactions_per_hour
        BY <3>1, AllowHadRoom
      <3>. HIDE DEF allowed
      <3>. QED
        BY <1>a, <1>b, <3>1, <3>2
    <2>. HIDE DEF allowed
    <2>4. pc' = [pc EXCEPT ![r] = IF allowed THEN "count" ELSE "done"]
      BY <2>2 DEF allowed
    <2>5. /\ pc'[r] \in {"count", "done"} /\ (pc'[r] = "count" => allowed)
          /\ \A q \in Requests : "count" \in DOMAIN seen'[q]
          /\ \A q \in Requests \ {r} : pc'[q] = pc[q] /\ seen'[q] = seen[q]
      BY <1>0, <2>1, <2>4 DEF NothingSeen
    <2>6. InTime' \subseteq InTime
      BY <2>1 DEF InTime
    <2>. QED
      BY <1>0, <2>1, <2>3, <2>5, <2>6, VelocityKept
  <1>5. ASSUME NEW r \in Requests, RecordVelocity(r)
        PROVE  VelocityInv'
    <2>1. /\ pc[r] = "count" /\ UNCHANGED seen
          /\ velocity' = velocity \cup {r}
          /\ lateCount' = lateCount \cup
                             {q \in Requests \ {r} : pc[q] \in {"decide", "count"}}
          /\ pc' = [pc EXCEPT ![r] = "authorize"]
      BY <1>5 DEF RecordVelocity, Goto
    <2>2. IsFiniteSet(velocity')
      BY <1>0, <2>1, OneMoreInTime
    <2>3. \A q \in Requests : pc'[q] \in {"decide", "count"} => q \in lateCount'
      BY <1>0, <2>1
    <2>4. Counts' /\ CountStands' /\ RoomLeft'
      BY <1>0, <2>1, <2>2, <2>3 DEF Counts, CountStands, RoomLeft
    <2>5. Cardinality(InTime') <= Policy.max_transactions_per_hour
      <3>2. CASE r \in lateCount
        <4>1. InTime' \subseteq InTime
          BY <2>1, <3>2 DEF InTime
        <4>. QED
          BY <1>a, <1>b, <4>1, InTimeShrinks DEF VelocityInv, VelocityLimitHolds, InTime
      <3>3. CASE r \notin lateCount
        <4>1. Cardinality(InTime) < Policy.max_transactions_per_hour
          BY <2>1, <3>3 DEF VelocityInv, RoomLeft
        <4>2. InTime' \subseteq InTime \cup {r}
          BY <2>1 DEF InTime
        <4>3. /\ IsFiniteSet(InTime \cup {r})
              /\ Cardinality(InTime) \in Nat
              /\ Cardinality(InTime \cup {r}) \in Nat
              /\ Cardinality(InTime \cup {r}) <= Cardinality(InTime) + 1
          BY <1>a, OneMoreInTime
        <4>4. /\ Cardinality(InTime') \in Nat
              /\ Cardinality(InTime') <= Cardinality(InTime \cup {r})
          BY <4>2, <4>3, InTimeSmaller
        <4>. QED
          BY <1>b, <4>1, <4>3, <4>4
      <3>. QED
        BY <3>2, <3>3
    <2>. QED
      BY <2>4, <2>5 DEF VelocityInv, VelocityLimitHolds, InTime
  <1>6. CASE WindowSlides
    <2>1. velocity' \subseteq velocity /\ UNCHANGED <<pc, seen, lateCount>>
      BY <1>6 DEF WindowSlides, history
    <2>2. IsFiniteSet(velocity') /\ InTime' \subseteq InTime
      BY <1>0, <2>1, InTimeSmaller DEF InTime
    <2>. QED
      BY <1>0, <2>1, <2>2, VelocityKept
  <1>7. \/ \E r \in Requests :
              \/ Authenticate(r) \/ LoadPolicy(r) \/ SumSpent(r) \/ RequestDies(r)
              \/ Authorize(r) \/ CountVelocity(r) \/ Decide(r) \/ RecordVelocity(r)
        \/ WindowSlides
        \/ UNCHANGED <<pc, seen, velocity, lateCount>>
    <2>1. ASSUME NEW o \in Ops, ReadPolicy(o) PROVE UNCHANGED <<gateVars, lateCount>>
      BY <2>1 DEF ReadPolicy
    <2>2. ASSUME NEW o \in Ops, CommitPolicy(o) PROVE UNCHANGED <<gateVars, lateCount>>
      BY <2>2 DEF CommitPolicy
    <2>3. ASSUME NEW o \in Ops, WriteRevocationSet(o) \/ UpsertAgent(o)
                    \/ UpsertMerchant(o) \/ RecordAdminAction(o) \/ OpDies(o)
          PROVE  UNCHANGED <<gateVars, lateCount>>
      BY <2>3 DEF WriteRevocationSet, UpsertAgent, UpsertMerchant,
                  RecordAdminAction, OpDies, history
    <2>4. ASSUME NEW r \in Requests, Conclude(r)
          PROVE  UNCHANGED <<pc, seen, velocity, lateCount>>
      BY <2>4 DEF Conclude, history
    <2>5. UNCHANGED vars => UNCHANGED <<pc, seen, velocity, lateCount>>
      BY DEF vars, gateVars, history
    <2>6. UNCHANGED <<gateVars, lateCount>>
             => UNCHANGED <<pc, seen, velocity, lateCount>>
      BY DEF gateVars
    <2>. QED
      BY <2>1, <2>2, <2>3, <2>4, <2>5, <2>6 DEF Next
  <1>. QED
    BY <1>1, <1>2, <1>3, <1>4, <1>5, <1>6, <1>7

\* The invariant of the window.
LEMMA VelocityInvariant == Spec => []VelocityInv
  <1>1. Init => VelocityInv
    <2>. SUFFICES ASSUME Init PROVE VelocityInv
      OBVIOUS
    <2>1. /\ velocity = {} /\ InTime = {} /\ velocity \ lateCount = {}
          /\ \A r \in Requests : /\ "count" \in DOMAIN seen[r]
                                 /\ pc[r] \notin {"decide", "count"}
      BY DEF Init, NothingSeen, InTime
    <2>2. IsFiniteSet({}) /\ Cardinality({}) = 0
      BY FS_EmptySet
    <2>3. Policy.max_transactions_per_hour \in Nat
      BY AdmissionAssumption
    <2>4. VelocityLimitHolds
      BY <2>1, <2>2, <2>3 DEF VelocityLimitHolds
    <2>. QED
      BY <2>1, <2>2, <2>4 DEF VelocityInv, Counts, CountStands, RoomLeft
  <1>. QED
    BY <1>1, VelocityStep, AdmissionInvariant, PTL DEF Spec

\* load_context's zcard against record_velocity's zadd: whatever the number of
\* requests in flight, those counted in the window stay within the policy's
\* hourly maximum, but for the ones that were decided on a count another
\* request had outdated.
THEOREM VelocityLimitAlwaysHolds == Spec => []VelocityLimitHolds
  <1>1. VelocityInv => VelocityLimitHolds
    BY DEF VelocityInv
  <1>. QED
    BY <1>1, VelocityInvariant, PTL

-----------------------------------------------------------------------------
(***************************************************************************)
(* Sums of amounts.  Spent is a fold, whose value is fixed by a recursive  *)
(* function on the subsets of its rows.  Counting the units of money gives *)
(* the sum without recursion (Total); it satisfies the equations of the    *)
(* fold, and a smallest set on which the two differ cannot exist.          *)
(***************************************************************************)
\* A unit of money per unit of amount: counting units adds amounts up.
Block(r) == {r} \X (1..AmountOf[r])

Units(rows) == UNION {Block(r) : r \in rows}

Total(rows) == Cardinality(Units(rows))

LEMMA BlockSize ==
    ASSUME NEW r \in Requests
    PROVE  /\ IsFiniteSet(Block(r)) /\ Cardinality(Block(r)) = AmountOf[r]
           /\ AmountOf[r] \in Nat
  <1>1. AmountOf[r] \in Nat \ {0}
    BY AdmissionAssumption
  <1>2. IsFiniteSet(1..AmountOf[r]) /\ Cardinality(1..AmountOf[r]) = AmountOf[r]
    <2>. DEFINE n == AmountOf[r]
    <2>1. 1 \in Int /\ n \in Int /\ ~(1 > n) /\ n - 1 + 1 = n
      BY <1>1
    <2>. HIDE DEF n
    <2>2. IsFiniteSet(1..n) /\ Cardinality(1..n) = IF 1 > n THEN 0 ELSE n - 1 + 1
      BY <2>1, FS_Interval, Zenon
    <2>. QED
      BY <2>1, <2>2 DEF n
  <1>3. IsFiniteSet({r}) /\ Cardinality({r}) = 1
    BY FS_Singleton
  <1>4. /\ IsFiniteSet(Block(r))
        /\ Cardinality(Block(r)) = Cardinality({r}) * Cardinality(1..AmountOf[r])
    BY <1>2, <1>3, FS_Product, Zenon DEF Block
  <1>. QED
    BY <1>1, <1>2, <1>3, <1>4

LEMMA UnitsFinite ==
    ASSUME NEW S \in SUBSET Requests, IsFiniteSet(S)
    PROVE  IsFiniteSet(Units(S)) /\ Total(S) \in Nat
  <1>. DEFINE blocks == {Block(r) : r \in S}
             f == [r \in S |-> Block(r)]
  <1>1. f \in Surjection(S, blocks)
    BY DEF Surjection
  <1>2. IsFiniteSet(blocks)
    BY <1>1, FS_Surjection
  <1>3. \A b \in blocks : IsFiniteSet(b)
    BY BlockSize
  <1>4. IsFiniteSet(UNION blocks)
    BY <1>2, <1>3, FS_UNION
  <1>. QED
    BY <1>4, FS_CardinalityType DEF Units, Total

LEMMA TotalOfNothing == Total({}) = 0
  <1>1. Units({}) = {}
    BY DEF Units
  <1>. QED
    BY <1>1, FS_EmptySet DEF Total

LEMMA TotalAdds ==
    ASSUME NEW S \in SUBSET Requests, IsFiniteSet(S), NEW x \in Requests \ S
    PROVE  Total(S \cup {x}) = AmountOf[x] + Total(S)
  <1>1. Units(S \cup {x}) = Units(S) \cup Block(x)
    BY DEF Units
  <1>2. Units(S) \cap Block(x) = {}
    BY DEF Units, Block
  <1>3. /\ IsFiniteSet(Units(S)) /\ Cardinality(Units(S)) \in Nat
        /\ IsFiniteSet(Block(x)) /\ Cardinality(Block(x)) = AmountOf[x]
        /\ AmountOf[x] \in Nat
    BY UnitsFinite, BlockSize DEF Total
  <1>4. Cardinality(Units(S) \cup Block(x)) =
           Cardinality(Units(S)) + Cardinality(Block(x)) - Cardinality(Units(S) \cap Block(x))
    BY <1>3, FS_Union, Zenon
  <1>5. Cardinality(Units(S) \cap Block(x)) = 0
    BY <1>2, FS_EmptySet
  <1>6. \A a, b, c : a \in Nat /\ b \in Nat /\ c = 0 => a + b - c = b + a
    OBVIOUS
  <1>7. Cardinality(Units(S) \cup Block(x)) = AmountOf[x] + Cardinality(Units(S))
    <2>. HIDE DEF Units, Block
    <2>. QED
      BY <1>3, <1>4, <1>5, <1>6, Zenon
  <1>. QED
    BY <1>1, <1>7, Zenon DEF Total

LEMMA TotalGrows ==
    ASSUME NEW S \in SUBSET Requests, IsFiniteSet(S), NEW T \in SUBSET S
    PROVE  /\ IsFiniteSet(T) /\ Total(T) \in Nat /\ Total(S) \in Nat
           /\ Total(T) <= Total(S)
  <1>1. IsFiniteSet(T) /\ T \subseteq Requests
    BY FS_Subset
  <1>2. Units(T) \subseteq Units(S)
    BY DEF Units
  <1>. QED
    BY <1>1, <1>2, UnitsFinite, FS_Subset DEF Total

\* What the fold computes.
Picked(s) == CHOOSE x \in s : TRUE

Folded(g, S) ==
    [s \in SUBSET S |-> IF s = {} THEN 0
                        ELSE AmountOf[Picked(s)] + g[s \ {Picked(s)}]]

LEMMA SpentUnfolds ==
    ASSUME NEW S
    PROVE  Spent(S) = (CHOOSE g : g = Folded(g, S))[S]
  BY DEF Spent, MapThenSumSet, MapThenFoldSet, Folded, Picked

LEMMA SmallestSet ==
    ASSUME NEW S, NEW T, T \subseteq FiniteSubsetsOf(S), T # {}
    PROVE  \E s \in T : \A u \in T : ~(u \subseteq s /\ u # s)
  <1>1. PICK s \in T : \A u \in T : <<u, s>> \notin StrictSubsetOrdering(S)
    BY FS_StrictSubsetOrderingWellFounded, WFMin
  <1>2. \A u \in T : u \in SUBSET S /\ s \in SUBSET S
    BY DEF FiniteSubsetsOf
  <1>. QED
    BY <1>1, <1>2 DEF StrictSubsetOrdering

LEMMA SpentIsTotal ==
    ASSUME NEW S \in SUBSET Requests, IsFiniteSet(S)
    PROVE  Spent(S) = Total(S)
  <1>. DEFINE t == [s \in SUBSET S |-> Total(s)]
             g == CHOOSE h : h = Folded(h, S)
  <1>1. ASSUME NEW s \in SUBSET S, s # {}
        PROVE  /\ Picked(s) \in s /\ s \ {Picked(s)} \in SUBSET S
               /\ Total(s) = AmountOf[Picked(s)] + Total(s \ {Picked(s)})
    <2>1. Picked(s) \in s
      BY <1>1 DEF Picked
    <2>2. (s \ {Picked(s)}) \cup {Picked(s)} = s
      BY <2>1
    <2>3. IsFiniteSet(s \ {Picked(s)})
      BY FS_Subset
    <2>. QED
      BY <2>1, <2>2, <2>3, TotalAdds
  <1>2. t = Folded(t, S)
    <2>1. ASSUME NEW s \in SUBSET S
          PROVE  t[s] = Folded(t, S)[s]
      BY <1>1, TotalOfNothing DEF Folded
    <2>. QED
      BY <2>1 DEF Folded
  <1>3. g = Folded(g, S)
    BY <1>2
  <1>. HIDE DEF g
  <1>4. \A s \in SUBSET S : g[s] = Total(s)
    <2>. DEFINE T == {s \in SUBSET S : g[s] # Total(s)}
    <2>. SUFFICES ASSUME T # {} PROVE FALSE
      OBVIOUS
    <2>1. T \subseteq FiniteSubsetsOf(S)
      BY FS_Subset DEF FiniteSubsetsOf
    <2>2. PICK s \in T : \A u \in T : ~(u \subseteq s /\ u # s)
      <3>. HIDE DEF T
      <3>. QED
        BY <2>1, SmallestSet
    <2>3. CASE s = {}
      BY <1>3, <2>3, TotalOfNothing DEF Folded
    <2>4. CASE s # {}
      <3>. DEFINE u == s \ {Picked(s)}
      <3>1. u \in SUBSET S /\ u # s /\ u \subseteq s
        BY <1>1, <2>4
      <3>2. g[u] = Total(u)
        BY <2>2, <3>1
      <3>3. g[s] = AmountOf[Picked(s)] + g[u]
        BY <1>3, <2>4 DEF Folded
      <3>. QED
        BY <1>1, <2>4, <3>2, <3>3
    <2>. QED
      BY <2>3, <2>4
  <1>. QED
    BY <1>4, SpentUnfolds DEF g

-----------------------------------------------------------------------------
(***************************************************************************)
(* The daily limit.  As in the window, the room that an allowed request    *)
(* found must still be there when it authorizes: it is, unless another     *)
(* request authorized since it summed the day; then it is in lateSpend.    *)
(***************************************************************************)
\* The rows that count against the limit.
OnTime == Settled \ lateSpend

Sums ==
    /\ IsFiniteSet(Settled)
    /\ \A r \in Requests : "spent" \in DOMAIN seen[r]

\* A request that is about to be decided has summed no less than what counts
\* against the limit.
SumStands ==
    \A r \in Requests :
        pc[r] \in {"window", "decide"} /\ r \notin lateSpend =>
            seen[r].spent \in Nat /\ Total(OnTime) <= seen[r].spent

\* A request that was allowed still fits into the day.
FitsTheDay ==
    \A r \in Requests :
        pc[r] \in {"count", "authorize"} /\ r \notin lateSpend =>
            Total(OnTime) + AmountOf[r] <= Policy.daily_limit

SpendInv ==
    Sums /\ SumStands /\ FitsTheDay /\ Total(OnTime) <= Policy.daily_limit

LEMMA OnTimeParts ==
    ASSUME SpendInv
    PROVE  /\ OnTime \in SUBSET Requests /\ IsFiniteSet(OnTime)
           /\ Total(OnTime) \in Nat /\ Total(Settled) \in Nat
           /\ Total(OnTime) <= Total(Settled)
           /\ Policy.daily_limit \in Nat
           /\ \A r \in Requests : AmountOf[r] \in Nat
  <1>1. Settled \in SUBSET Requests /\ OnTime \in SUBSET Settled /\ IsFiniteSet(Settled)
    BY DEF SpendInv, Sums, OnTime, Settled
  <1>. QED
    BY <1>1, TotalGrows, AdmissionAssumption

LEMMA SpendKept ==
    ASSUME SpendInv, Settled' \subseteq Settled, lateSpend \subseteq lateSpend',
           \A r \in Requests : "spent" \in DOMAIN seen'[r],
           \A r \in Requests :
              pc'[r] \in {"window", "decide"} /\ r \notin lateSpend =>
                 \/ pc[r] \in {"window", "decide"} /\ seen'[r].spent = seen[r].spent
                 \/ seen'[r].spent \in Nat /\ Total(OnTime) <= seen'[r].spent,
           \A r \in Requests :
              pc'[r] \in {"count", "authorize"} /\ r \notin lateSpend =>
                 \/ pc[r] \in {"count", "authorize"}
                 \/ Total(OnTime) + AmountOf[r] <= Policy.daily_limit
    PROVE  SpendInv'
  <1>1. IsFiniteSet(Settled')
    BY FS_Subset DEF SpendInv, Sums
  <1>2. OnTime' \in SUBSET OnTime
    BY DEF OnTime
  <1>3. Total(OnTime') \in Nat /\ Total(OnTime') <= Total(OnTime)
    BY <1>2, OnTimeParts, TotalGrows
  <1>4. Total(OnTime)' = Total(OnTime')
    BY DEF Total, Units, Block
  <1>5. SumStands'
    <2>. SUFFICES ASSUME NEW r \in Requests, pc'[r] \in {"window", "decide"},
                         r \notin lateSpend'
                  PROVE  seen'[r].spent \in Nat /\ Total(OnTime') <= seen'[r].spent
      BY <1>4 DEF SumStands
    <2>1. seen'[r].spent \in Nat /\ Total(OnTime) <= seen'[r].spent
      BY DEF SpendInv, SumStands
    <2>. QED
      BY <1>3, <2>1, OnTimeParts
  <1>6. FitsTheDay'
    <2>. SUFFICES ASSUME NEW r \in Requests, pc'[r] \in {"count", "authorize"},
                         r \notin lateSpend'
                  PROVE  Total(OnTime') + AmountOf[r] <= Policy.daily_limit
      BY <1>4 DEF FitsTheDay
    <2>1. Total(OnTime) + AmountOf[r] <= Policy.daily_limit
      BY DEF SpendInv, FitsTheDay
    <2>. QED
      BY <1>3, <2>1, OnTimeParts
  <1>7. Total(OnTime') <= Policy.daily_limit
    BY <1>3, OnTimeParts DEF SpendInv
  <1>. QED
    BY <1>1, <1>4, <1>5, <1>6, <1>7 DEF SpendInv, Sums

\* An ALLOW fitted into the day it was decided on.
LEMMA AllowFitted ==
    ASSUME NEW r \in Requests, NEW llm \in Verdicts, NEW approval, NEW up \in BOOLEAN,
           seen[r].spent \in Nat,
           Outcome(PolicyInput(r, llm, approval), up).decision = "ALLOW"
    PROVE  seen[r].spent + AmountOf[r] <= Policy.daily_limit
  <1>. DEFINE input == PolicyInput(r, llm, approval)
  <1>1. decision(input) = "ALLOW"
    BY DEF Outcome, evaluate, NoAnswer
  <1>2. spending_deny(input) = {}
    BY <1>1, AllowMeans DEF deny_reasons
  <1>3. input.context = Context(r) /\ input.transaction.amount = AmountOf[r]
    BY InputParts
  <1>. HIDE DEF input
  <1>4. /\ Context(r).policy_found
        /\ ~(Context(r).spent_today + AmountOf[r] > Context(r).daily_limit)
    BY <1>2, <1>3 DEF spending_deny, Code
  <1>5. /\ Context(r).spent_today = seen[r].spent
        /\ Context(r).daily_limit = Policy.daily_limit
    BY <1>4 DEF Context
  <1>6. Policy.daily_limit \in Nat /\ AmountOf[r] \in Nat
    BY AdmissionAssumption
  <1>. QED
    BY <1>4, <1>5, <1>6

LEMMA SpendStep ==
    AdmissionInv /\ SpendInv /\ [Next]_vars => SpendInv'
  <1>. SUFFICES ASSUME AdmissionInv, SpendInv, [Next]_vars
                PROVE  SpendInv'
    OBVIOUS
  <1>0. /\ pc \in [Requests -> Labels] /\ seen = [r \in Requests |-> seen[r]]
        /\ state \in [Requests -> States]
        /\ \A r \in Requests : "spent" \in DOMAIN seen[r]
        /\ IsFiniteSet(Settled)
    BY RequestParts DEF SeenShape, SpendInv, Sums
  <1>1. CASE UNCHANGED <<pc, seen, state, lateSpend>>
    <2>1. Settled' = Settled
      BY <1>1 DEF Settled
    <2>. QED
      BY <1>0, <1>1, <2>1, SpendKept
  <1>2. ASSUME NEW r \in Requests,
               Authenticate(r) \/ LoadPolicy(r) \/ RequestDies(r) \/ RecordVelocity(r)
                  \/ CountVelocity(r)
        PROVE  SpendInv'
    <2>1. /\ UNCHANGED <<state, lateSpend>>
          /\ \E l \in Labels : /\ pc' = [pc EXCEPT ![r] = l]
                               /\ l \in {"window", "decide"} => pc[r] \in {"window", "decide"}
                               /\ l \in {"count", "authorize"} => pc[r] \in {"count", "authorize"}
      BY <1>2 DEF Authenticate, Refuse, LoadPolicy, RequestDies, RecordVelocity,
                  CountVelocity, Goto, history, Labels
    <2>2. PICK x : /\ seen' = [seen EXCEPT ![r] = x] /\ "spent" \in DOMAIN x
                   /\ pc'[r] \in {"window", "decide"} => x.spent = seen[r].spent
      <3>1. CASE LoadPolicy(r)
        <4>. DEFINE x == [seen[r] EXCEPT !.policy = policy[DelegationOf[r]],
                                         !.agent = agent, !.merchant = merchant]
        <4>1. seen' = [seen EXCEPT ![r] = x] /\ "spent" \in DOMAIN x /\ pc'[r] = "sum"
          BY <1>0, <3>1 DEF LoadPolicy, Goto
        <4>. QED
          BY <4>1
      <3>2. CASE CountVelocity(r)
        <4>. DEFINE x == [seen[r] EXCEPT !.count = Cardinality(velocity)]
        <4>1. /\ seen' = [seen EXCEPT ![r] = x] /\ "spent" \in DOMAIN x
              /\ x.spent = seen[r].spent
          BY <1>0, <3>2 DEF CountVelocity
        <4>. QED
          BY <4>1
      <3>3. CASE RequestDies(r)
        <4>1. "spent" \in DOMAIN NothingSeen
          BY DEF NothingSeen
        <4>2. seen' = [seen EXCEPT ![r] = NothingSeen] /\ pc'[r] = "dead"
          BY <1>0, <3>3 DEF RequestDies, Goto
        <4>. QED
          BY <4>1, <4>2
      <3>4. CASE Authenticate(r) \/ RecordVelocity(r)
        <4>1. seen' = [seen EXCEPT ![r] = seen[r]]
          BY <1>0, <3>4 DEF Authenticate, RecordVelocity
        <4>. QED
          BY <1>0, <4>1
      <3>. QED
        BY <1>2, <3>1, <3>2, <3>3, <3>4
    <2>3. /\ \A q \in Requests : "spent" \in DOMAIN seen'[q]
          /\ \A q \in Requests \ {r} : pc'[q] = pc[q] /\ seen'[q] = seen[q]
          /\ pc'[r] \in {"window", "decide"} =>
                pc[r] \in {"window", "decide"} /\ seen'[r].spent = seen[r].spent
          /\ pc'[r] \in {"count", "authorize"} => pc[r] \in {"count", "authorize"}
      BY <1>0, <2>1, <2>2
    <2>4. Settled' = Settled
      BY <2>1 DEF Settled
    <2>. QED
      BY <2>1, <2>3, <2>4, SpendKept
  <1>3. ASSUME NEW r \in Requests, SumSpent(r)
        PROVE  SpendInv'
    <2>1. /\ UNCHANGED <<state, lateSpend>>
          /\ pc' = [pc EXCEPT ![r] = "window"]
          /\ seen' = [seen EXCEPT ![r] = [seen[r] EXCEPT !.spent = Spent(Settled)]]
      BY <1>0, <1>3 DEF SumSpent, Goto, history
    <2>2. /\ pc'[r] = "window" /\ seen'[r].spent = Spent(Settled)
          /\ \A q \in Requests : "spent" \in DOMAIN seen'[q]
          /\ \A q \in Requests \ {r} : pc'[q] = pc[q] /\ seen'[q] = seen[q]
      BY <1>0, <2>1
    <2>3. Settled' = Settled
      BY <2>1 DEF Settled
    <2>4. Spent(Settled) = Total(Settled)
      BY <1>0, SpentIsTotal DEF Settled
    <2>5. seen'[r].spent \in Nat /\ Total(OnTime) <= seen'[r].spent
      BY <2>2, <2>4, OnTimeParts
    <2>. QED
      BY <2>1, <2>2, <2>3, <2>5, SpendKept
  <1>4. ASSUME NEW r \in Requests, Decide(r)
        PROVE  SpendInv'
    <2>1. /\ pc[r] = "decide" /\ seen' = [seen EXCEPT ![r] = NothingSeen]
          /\ UNCHANGED lateSpend
      BY <1>4 DEF Decide, history
    <2>2. PICK llm \in Verdicts, up \in BOOLEAN, approval \in ApprovalFindings(r) :
             LET a == Outcome(PolicyInput(r, llm, approval), up)
             IN  /\ state' = [state EXCEPT ![r] = IF a.decision = "BLOCK"
                                                  THEN "FAILED" ELSE "CREATED"]
                 /\ pc' = [pc EXCEPT ![r] = IF a.decision = "ALLOW"
                                            THEN "count" ELSE "done"]
      BY <1>4, DecideParts
    <2>. DEFINE allowed == Outcome(PolicyInput(r, llm, approval), up).decision = "ALLOW"
                blocked == Outcome(PolicyInput(r, llm, approval), up).decision = "BLOCK"
    <2>3. allowed /\ r \notin lateSpend =>
             Total(OnTime) + AmountOf[r] <= Policy.daily_limit
      <3>. SUFFICES ASSUME allowed, r \notin lateSpend
                    PROVE  Total(OnTime) + AmountOf[r] <= Policy.daily_limit
        OBVIOUS
      <3>1. seen[r].spent \in Nat /\ Total(OnTime) <= seen[r].spent
        BY <2>1 DEF SpendInv, SumStands
      <3>2. seen[r].spent + AmountOf[r] <= Policy.daily_limit
        BY <3>1, AllowFitted
      <3>. HIDE DEF allowed
      <3>. QED
        BY <3>1, <3>2, OnTimeParts
    <2>4. /\ pc' = [pc EXCEPT ![r] = IF allowed THEN "count" ELSE "done"]
          /\ state' = [state EXCEPT ![r] = IF blocked THEN "FAILED" ELSE "CREATED"]
      BY <2>2
    <2>. HIDE DEF allowed, blocked
    <2>5. /\ pc'[r] \in {"count", "done"} /\ (pc'[r] = "count" => allowed)
          /\ \A q \in Requests : "spent" \in DOMAIN seen'[q]
          /\ \A q \in Requests \ {r} : pc'[q] = pc[q] /\ seen'[q] = seen[q]
      BY <1>0, <2>1, <2>4 DEF NothingSeen
    <2>6. Settled' \subseteq Settled
      BY <1>0, <2>4 DEF Settled, SETTLED_STATES
    <2>. QED
      BY <2>1, <2>3, <2>5, <2>6, SpendKept
  <1>5. ASSUME NEW r \in Requests, Authorize(r)
        PROVE  SpendInv'
    <2>1. /\ pc[r] = "authorize" /\ UNCHANGED seen
          /\ state' = [state EXCEPT ![r] = "AUTHORIZED"]
          /\ lateSpend' = lateSpend \cup
                             {q \in Requests \ {r} :
                                 pc[q] \in {"window", "decide", "count", "authorize"}}
          /\ pc' = [pc EXCEPT ![r] = "done"]
      BY <1>5 DEF Authorize, Goto
    <2>2. Settled' = Settled \cup {r}
      BY <1>0, <2>1 DEF Settled, SETTLED_STATES
    <2>3. IsFiniteSet(Settled')
      BY <1>0, <2>2, FS_AddElement
    <2>4. \A q \in Requests :
             pc'[q] \in {"window", "decide", "count", "authorize"} => q \in lateSpend'
      BY <1>0, <2>1
    <2>5. Sums' /\ SumStands' /\ FitsTheDay'
      BY <1>0, <2>1, <2>3, <2>4 DEF Sums, SumStands, FitsTheDay
    <2>6. Total(OnTime') <= Policy.daily_limit
      <3>1. CASE OnTime' \in SUBSET OnTime
        BY <3>1, OnTimeParts, TotalGrows DEF SpendInv
      <3>2. CASE OnTime' \notin SUBSET OnTime
        <4>1. r \notin OnTime /\ r \notin lateSpend /\ OnTime' \in SUBSET (OnTime \cup {r})
          BY <2>1, <2>2, <3>2 DEF OnTime
        <4>2. Total(OnTime) + AmountOf[r] <= Policy.daily_limit
          BY <2>1, <4>1 DEF SpendInv, FitsTheDay
        <4>3. Total(OnTime \cup {r}) = AmountOf[r] + Total(OnTime)
          BY <4>1, OnTimeParts, TotalAdds
        <4>4. IsFiniteSet(OnTime \cup {r}) /\ OnTime \cup {r} \in SUBSET Requests
          BY OnTimeParts, FS_AddElement
        <4>5. /\ Total(OnTime') \in Nat /\ Total(OnTime \cup {r}) \in Nat
              /\ Total(OnTime') <= Total(OnTime \cup {r})
          BY <4>1, <4>4, TotalGrows
        <4>. QED
          BY <4>2, <4>3, <4>5, OnTimeParts
      <3>. QED
        BY <3>1, <3>2
    <2>7. Total(OnTime)' = Total(OnTime')
      BY DEF Total, Units, Block
    <2>. QED
      BY <2>5, <2>6, <2>7 DEF SpendInv
  <1>6. ASSUME NEW r \in Requests, Conclude(r)
        PROVE  SpendInv'
    <2>1. PICK s \in {"CONFIRMED", "FAILED"} : state' = [state EXCEPT ![r] = s]
      BY <1>6 DEF Conclude
    <2>2. state[r] = "AUTHORIZED" /\ UNCHANGED <<pc, seen, lateSpend>>
      BY <1>6 DEF Conclude, history
    <2>3. Settled' \subseteq Settled
      BY <1>0, <2>1, <2>2 DEF Settled, SETTLED_STATES
    <2>. QED
      BY <1>0, <2>2, <2>3, SpendKept
  <1>7. \/ \E r \in Requests :
              \/ Authenticate(r) \/ LoadPolicy(r) \/ SumSpent(r) \/ RequestDies(r)
              \/ Authorize(r) \/ CountVelocity(r) \/ Decide(r) \/ RecordVelocity(r)
              \/ Conclude(r)
        \/ UNCHANGED <<pc, seen, state, lateSpend>>
    <2>1. ASSUME NEW o \in Ops, ReadPolicy(o) PROVE UNCHANGED <<gateVars, lateSpend>>
      BY <2>1 DEF ReadPolicy
    <2>2. ASSUME NEW o \in Ops, CommitPolicy(o) PROVE UNCHANGED <<gateVars, lateSpend>>
      BY <2>2 DEF CommitPolicy
    <2>3. ASSUME NEW o \in Ops, WriteRevocationSet(o) \/ UpsertAgent(o)
                    \/ UpsertMerchant(o) \/ RecordAdminAction(o) \/ OpDies(o)
          PROVE  UNCHANGED <<gateVars, lateSpend>>
      BY <2>3 DEF WriteRevocationSet, UpsertAgent, UpsertMerchant,
                  RecordAdminAction, OpDies, history
    <2>4. WindowSlides => UNCHANGED <<pc, seen, state, lateSpend>>
      BY DEF WindowSlides, history
    <2>5. UNCHANGED vars => UNCHANGED <<pc, seen, state, lateSpend>>
      BY DEF vars, gateVars, history
    <2>6. UNCHANGED <<gateVars, lateSpend>>
             => UNCHANGED <<pc, seen, state, lateSpend>>
      BY DEF gateVars
    <2>. QED
      BY <2>1, <2>2, <2>3, <2>4, <2>5, <2>6 DEF Next
  <1>. QED
    BY <1>1, <1>2, <1>3, <1>4, <1>5, <1>6, <1>7

\* The invariant of the day's sum.
LEMMA SpendInvariant == Spec => []SpendInv
  <1>1. Init => SpendInv
    <2>. SUFFICES ASSUME Init PROVE SpendInv
      OBVIOUS
    <2>1. /\ Settled = {} /\ OnTime = {}
          /\ \A r \in Requests : /\ "spent" \in DOMAIN seen[r]
                                 /\ pc[r] \in {"new", "unmade"}
      BY DEF Init, NothingSeen, OnTime, Settled, SETTLED_STATES
    <2>2. IsFiniteSet({}) /\ Total({}) = 0
      BY FS_EmptySet, TotalOfNothing
    <2>3. Policy.daily_limit \in Nat
      BY AdmissionAssumption
    <2>. QED
      BY <2>1, <2>2, <2>3 DEF SpendInv, Sums, SumStands, FitsTheDay
  <1>. QED
    BY <1>1, SpendStep, AdmissionInvariant, PTL DEF Spec

\* load_context's sum against authorize: whatever the number of requests in
\* flight and their amounts, what is authorized or charged stays within the
\* policy's daily limit, but for the requests that authorized on a sum another
\* request had outdated.
THEOREM DailyLimitAlwaysHolds == Spec => []DailyLimitHolds
  <1>1. SpendInv => DailyLimitHolds
    <2>. SUFFICES ASSUME SpendInv PROVE DailyLimitHolds
      OBVIOUS
    <2>1. Spent(OnTime) = Total(OnTime)
      BY OnTimeParts, SpentIsTotal
    <2>. QED
      BY <2>1 DEF SpendInv, DailyLimitHolds, OnTime
  <1>. QED
    BY <1>1, SpendInvariant, PTL

-----------------------------------------------------------------------------
(***************************************************************************)
(* From evidence to decision, for every document the gateway can send.     *)
(* The engine's score is a weighted sum of bounded signals; the analyzer's *)
(* confidence takes the strongest layer, so the deterministic layers are a *)
(* floor under it; and more evidence, or the same without the classifier,  *)
(* never makes a decision laxer.                                           *)
(***************************************************************************)
Permille == 0..1000

\* A weighted score: 0 to 100, in thousandths.
Scores == {n \in Nat : n <= 100000}

ThreeLayers(rule, llm, similarity) ==
    {l \in {"rule", "llm", "similarity"} :
        \/ l = "rule" /\ rule > 0
        \/ l = "llm" /\ llm > 0
        \/ l = "similarity" /\ similarity > 0}

Base(rule, llm, similarity) ==
    IF Cardinality(ThreeLayers(rule, llm, similarity)) >= 2
    THEN Least(1000, Greatest(rule, Greatest(llm, similarity)) + 50)
    ELSE Greatest(rule, Greatest(llm, similarity))

\* More layers see something when the classifier does.
LEMMA LayersGrow ==
    ASSUME NEW rule \in Permille, NEW similarity \in Permille,
           NEW a \in Permille, NEW b \in Permille, a <= b
    PROVE  /\ Cardinality(ThreeLayers(rule, a, similarity)) \in Nat
           /\ Cardinality(ThreeLayers(rule, b, similarity)) \in Nat
           /\ Cardinality(ThreeLayers(rule, a, similarity))
                 <= Cardinality(ThreeLayers(rule, b, similarity))
  <1>1. IsFiniteSet({"rule", "llm", "similarity"})
    <2>1. IsFiniteSet({})
      BY FS_EmptySet
    <2>2. IsFiniteSet({} \cup {"rule"})
      BY <2>1, FS_AddElement
    <2>3. IsFiniteSet(({} \cup {"rule"}) \cup {"llm"})
      BY <2>2, FS_AddElement
    <2>4. IsFiniteSet((({} \cup {"rule"}) \cup {"llm"}) \cup {"similarity"})
      BY <2>3, FS_AddElement
    <2>5. (({} \cup {"rule"}) \cup {"llm"}) \cup {"similarity"}
             = {"rule", "llm", "similarity"}
      OBVIOUS
    <2>. QED
      BY <2>4, <2>5
  <1>2. ThreeLayers(rule, b, similarity) \subseteq {"rule", "llm", "similarity"}
    BY DEF ThreeLayers
  <1>3. IsFiniteSet(ThreeLayers(rule, b, similarity))
    BY <1>1, <1>2, FS_Subset
  <1>4. ThreeLayers(rule, a, similarity) \subseteq ThreeLayers(rule, b, similarity)
    BY DEF ThreeLayers, Permille
  <1>. QED
    BY <1>3, <1>4, FS_Subset, FS_CardinalityType

LEMMA BaseGrows ==
    ASSUME NEW rule \in Permille, NEW similarity \in Permille,
           NEW a \in Permille, NEW b \in Permille, a <= b
    PROVE  /\ Base(rule, a, similarity) \in Permille
           /\ Base(rule, b, similarity) \in Permille
           /\ Base(rule, a, similarity) <= Base(rule, b, similarity)
  <1>. DEFINE m == Cardinality(ThreeLayers(rule, a, similarity))
              n == Cardinality(ThreeLayers(rule, b, similarity))
              s == Greatest(rule, Greatest(a, similarity))
              t == Greatest(rule, Greatest(b, similarity))
  <1>1. m \in Nat /\ n \in Nat /\ m <= n
    BY LayersGrow
  <1>2. s \in Permille /\ t \in Permille /\ s <= t
    BY DEF Greatest, Permille
  <1>3. /\ Base(rule, a, similarity) = IF m >= 2 THEN Least(1000, s + 50) ELSE s
        /\ Base(rule, b, similarity) = IF n >= 2 THEN Least(1000, t + 50) ELSE t
    BY DEF Base
  <1>. HIDE DEF m, n, s, t
  <1>. QED
    BY <1>1, <1>2, <1>3 DEF Least, Permille

\* The prior of a source is a whole number of ten-thousandths.
LEMMA PriorIsNat ==
    ASSUME NEW source \in DOMAIN TRUST
    PROVE  injection_prior(source) \in Nat
  <1>1. TRUST[source] \in 100..950
    BY DEF TRUST
  <1>. DEFINE t == TRUST[source]
  <1>. HIDE DEF t
  <1>2. t \in 100..950 /\ ((1000 - t) * 5) \div 2 \in Nat
    BY <1>1 DEF t
  <1>. QED
    BY <1>2 DEF injection_prior, t

LEMMA CombineGrows ==
    ASSUME NEW rule \in Permille, NEW similarity \in Permille,
           NEW a \in Permille, NEW b \in Permille, a <= b,
           NEW source \in DOMAIN TRUST
    PROVE  /\ combine(rule, a, source, similarity) \in Permille
           /\ combine(rule, b, source, similarity) \in Permille
           /\ combine(rule, a, source, similarity)
                 <= combine(rule, b, source, similarity)
  <1>. DEFINE c == Base(rule, a, similarity)
              d == Base(rule, b, similarity)
              p == injection_prior(source)
  <1>1. c \in Permille /\ d \in Permille /\ c <= d
    BY BaseGrows
  <1>2. p \in Nat
    BY PriorIsNat
  <1>3. /\ combine(rule, a, source, similarity)
              = Least(1000, (c * p + 5000) \div 10000)
        /\ combine(rule, b, source, similarity)
              = Least(1000, (d * p + 5000) \div 10000)
    BY DEF combine, Base, ThreeLayers
  <1>. HIDE DEF c, d, p
  <1>. DEFINE x == c * p
              y == d * p
  <1>4. x \in Nat /\ y \in Nat /\ x <= y
    <2>1. c \in Nat /\ d \in Nat /\ c <= d
      BY <1>1 DEF Permille
    <2>. QED
      BY <1>2, <2>1
  <1>5. /\ combine(rule, a, source, similarity) = Least(1000, (x + 5000) \div 10000)
        /\ combine(rule, b, source, similarity) = Least(1000, (y + 5000) \div 10000)
    BY <1>3
  <1>. HIDE DEF x, y
  <1>. DEFINE u == (x + 5000) \div 10000
              v == (y + 5000) \div 10000
  <1>6. u \in Nat /\ v \in Nat /\ u <= v
    BY <1>4
  <1>7. /\ combine(rule, a, source, similarity) = Least(1000, u)
        /\ combine(rule, b, source, similarity) = Least(1000, v)
    BY <1>5
  <1>. HIDE DEF u, v
  <1>. QED
    BY <1>6, <1>7 DEF Least, Permille

Content == [rule : Permille, similarity : Permille, source : DOMAIN TRUST]
Verdict == [confidence : Permille, degraded : BOOLEAN]

\* combine takes the strongest of the layers, so that the rules and the
\* similarity set a floor under the confidence whatever the classifier answers,
\* and a classifier that reports more never brings it down.
THEOREM ClassifierOnlyRaises ==
    ASSUME NEW content \in Content, NEW low \in Verdict, NEW high \in Verdict,
           low.confidence <= high.confidence
    PROVE  LET less == AnalysisResult(content, low)
               more == AnalysisResult(content, high)
           IN  /\ less.injection_confidence \in Permille
               /\ more.injection_confidence \in Permille
               /\ less.deterministic_confidence \in Permille
               /\ less.deterministic_confidence = more.deterministic_confidence
               /\ less.deterministic_confidence <= less.injection_confidence
               /\ less.injection_confidence <= more.injection_confidence
  <1>1. /\ content.rule \in Permille /\ content.similarity \in Permille
        /\ content.source \in DOMAIN TRUST
    BY DEF Content
  <1>2. low.confidence \in Permille /\ high.confidence \in Permille
    BY DEF Verdict
  <1>3. 0 \in Permille /\ 0 <= low.confidence
    BY <1>2 DEF Permille
  <1>4. /\ combine(content.rule, 0, content.source, content.similarity) \in Permille
        /\ combine(content.rule, 0, content.source, content.similarity)
              <= combine(content.rule, low.confidence, content.source,
                         content.similarity)
    BY <1>1, <1>2, <1>3, CombineGrows
  <1>5. /\ combine(content.rule, low.confidence, content.source,
                   content.similarity) \in Permille
        /\ combine(content.rule, high.confidence, content.source,
                   content.similarity) \in Permille
        /\ combine(content.rule, low.confidence, content.source, content.similarity)
              <= combine(content.rule, high.confidence, content.source,
                         content.similarity)
    BY <1>1, <1>2, CombineGrows
  <1>. QED
    BY <1>4, <1>5 DEF AnalysisResult

LEMMA LargestOf ==
    ASSUME NEW S, S \subseteq Permille, S # {}
    PROVE  \E e \in S : \A f \in S : f <= e
  <1>. DEFINE Less == {ss \in Nat \X Nat : ss[1] < ss[2]}
              T == {d \in Nat : \E e \in S : d = 1000 - e}
  <1>0. IsWellFoundedOn(Less, Nat)
    BY NatLessThanWellFounded DEF OpToRel
  <1>1. \A e \in S : e \in Nat /\ 1000 - e \in Nat
    BY DEF Permille
  <1>2. T \subseteq Nat /\ T # {}
    BY <1>1
  <1>3. PICK x \in T : \A y \in T : ~(<<y, x>> \in Less)
    <2>. HIDE DEF T, Less
    <2>. QED
      BY <1>0, <1>2, WFMin
  <1>4. PICK e \in S : x = 1000 - e
    OBVIOUS
  <1>5. ASSUME NEW f \in S PROVE f <= e
    <2>1. 1000 - f \in T
      BY <1>1
    <2>2. 1000 - f < x => <<1000 - f, x>> \in Less
      BY <1>1
    <2>3. ~(1000 - f < x)
      BY <1>3, <2>1, <2>2
    <2>. QED
      BY <1>1, <1>4, <2>3
  <1>. QED
    BY <1>5

\* n is x ** 1.5, rounded.
Rounded(x, n) ==
    /\ n = 0 \/ 250 * (2 * n - 1) * (2 * n - 1) <= x * x * x
    /\ x * x * x < 250 * (2 * n + 1) * (2 * n + 1)

LEMMA PowerIsRounded ==
    ASSUME NEW x \in Permille, NEW n \in Permille, Rounded(x, n)
    PROVE  PowerOneAndAHalf[x] \in Permille
  <1>1. PowerOneAndAHalf = [y \in Permille |-> CHOOSE m \in Permille : Rounded(y, m)]
    BY SMT DEF PowerOneAndAHalf, Rounded, Permille
  <1>2. PowerOneAndAHalf[x] = CHOOSE m \in Permille : Rounded(x, m)
    BY <1>1, Zenon
  <1>. QED
    BY <1>2, Zenon

\* x ** 1.5 has a nearest thousandth between 0 and 1.
LEMMA PowerTyped ==
    ASSUME NEW x \in Permille
    PROVE  PowerOneAndAHalf[x] \in Permille
  <1>. DEFINE cube == x * x * x
              Below(n) == n = 0 \/ 250 * (2 * n - 1) * (2 * n - 1) <= cube
              S == {n \in Permille : Below(n)}
  <1>1. cube \in Nat /\ cube <= 1000000000
    <2>1. x \in Nat /\ x <= 1000
      BY DEF Permille
    <2>2. x * x \in Nat /\ x * x <= 1000 * 1000
      BY <2>1
    <2>. DEFINE square == x * x
    <2>. HIDE DEF square
    <2>3. square * x \in Nat /\ square * x <= 1000000 * 1000
      BY <2>1, <2>2 DEF square
    <2>. QED
      BY <2>3 DEF square
  <1>2. 0 \in S
    BY DEF Permille
  <1>3. PICK m \in S : \A f \in S : f <= m
    <2>. HIDE DEF S
    <2>1. S \subseteq Permille
      BY DEF S
    <2>. QED
      BY <1>2, <2>1, LargestOf
  <1>4. m \in Permille /\ Below(m)
    BY <1>3
  <1>5. cube < 250 * (2 * m + 1) * (2 * m + 1)
    <2>. HIDE DEF cube
    <2>1. CASE m = 1000
      BY <1>1, <2>1
    <2>2. CASE m # 1000
      <3>1. m + 1 \in Permille /\ m + 1 # 0 /\ ~(m + 1 <= m) /\ m \in Nat
        BY <1>4, <2>2 DEF Permille
      <3>2. ~Below(m + 1)
        BY <1>3, <3>1
      <3>3. 2 * (m + 1) - 1 = 2 * m + 1
        BY <3>1
      <3>4. ~(250 * (2 * m + 1) * (2 * m + 1) <= cube)
        BY <3>1, <3>2, <3>3
      <3>. DEFINE bound_m == 250 * (2 * m + 1) * (2 * m + 1)
      <3>5. bound_m \in Nat
        BY <3>1
      <3>. HIDE DEF bound_m
      <3>6. cube < bound_m
        BY <1>1, <3>4, <3>5 DEF bound_m
      <3>. QED
        BY <3>6 DEF bound_m
    <2>. QED
      BY <2>1, <2>2
  <1>6. Rounded(x, m)
    BY <1>4, <1>5 DEF Rounded
  <1>. QED
    BY <1>4, <1>6, PowerIsRounded

\* A part of a limit, in thousandths of it.
LEMMA PartOfLimit ==
    ASSUME NEW part \in Nat, NEW limit \in Nat, limit > 0
    PROVE  /\ (1000 * part) \div limit \in Nat
           /\ part <= limit => (1000 * part) \div limit \in Permille
  <1>. DEFINE q == (1000 * part) \div limit
              r == (1000 * part) % limit
  <1>1. q \in Int /\ r \in 0..(limit - 1) /\ 1000 * part = limit * q + r
    OBVIOUS
  <1>. HIDE DEF q, r
  <1>2. r \in Nat /\ r < limit
    BY <1>1
  <1>3. q >= 0
    <2>1. ASSUME q <= -1 PROVE FALSE
      <3>1. limit * q <= limit * (-1)
        BY <1>1, <2>1
      <3>. QED
        BY <1>1, <1>2, <3>1
    <2>. QED
      BY <1>1, <2>1
  <1>4. ASSUME part <= limit PROVE q <= 1000
    <2>1. ASSUME q >= 1001 PROVE FALSE
      <3>1. limit * q >= limit * 1001
        BY <1>1, <2>1
      <3>. QED
        BY <1>1, <1>2, <1>4, <3>1
    <2>. QED
      BY <1>1, <2>1
  <1>. QED
    BY <1>1, <1>3, <1>4 DEF q, Permille

\* The figures the engine computes with are the ones the schema admits.
WellFormed(txn, ctx) ==
    /\ txn.amount \in Nat
    /\ ctx.spent_today \in Nat /\ ctx.transactions_last_hour \in Nat
    /\ ctx.per_transaction_limit \in Int /\ ctx.daily_limit \in Int
    /\ ctx.max_transactions_per_hour \in Int
    /\ ctx.merchant_registry_risk \in Int

LEMMA SignalsTyped ==
    ASSUME NEW txn, NEW ctx, WellFormed(txn, ctx)
    PROVE  /\ policy_violation_score(txn, ctx) \in Permille
           /\ budget_anomaly_score(txn, ctx) \in Permille
           /\ merchant_risk_score(ctx) \in Permille
           /\ velocity_risk_score(ctx) \in Permille
  <1>1. \A n \in Int : _clamp(n) \in Permille
    BY DEF _clamp, Least, Greatest, Permille
  <1>2. policy_violation_score(txn, ctx) \in {0, 550, 600, 750, 800, 1000}
    BY DEF policy_violation_score
  <1>3. budget_anomaly_score(txn, ctx) \in Permille
    <2>. DEFINE projected == ctx.spent_today + txn.amount
                per_txn == (1000 * txn.amount) \div ctx.per_transaction_limit
                daily == IF ctx.daily_limit > 0
                         THEN (1000 * projected) \div ctx.daily_limit ELSE 1000
                over == \/ ~ctx.policy_found
                        \/ ctx.per_transaction_limit <= 0
                        \/ txn.amount > ctx.per_transaction_limit
                        \/ ctx.daily_limit > 0 /\ projected > ctx.daily_limit
    <2>1. budget_anomaly_score(txn, ctx)
             = IF over THEN 1000 ELSE PowerOneAndAHalf[Greatest(per_txn, daily)]
      BY DEF budget_anomaly_score
    <2>2. CASE over
      <3>1. budget_anomaly_score(txn, ctx) = 1000
        BY <2>1, <2>2
      <3>. QED
        BY <3>1 DEF Permille
    <2>3. CASE ~over
      <3>1. /\ ctx.per_transaction_limit \in Nat /\ ctx.per_transaction_limit > 0
            /\ txn.amount \in Nat /\ txn.amount <= ctx.per_transaction_limit
        BY <2>3 DEF WellFormed
      <3>2. per_txn \in Permille
        BY <3>1, PartOfLimit
      <3>3. ASSUME ctx.daily_limit > 0
            PROVE  /\ ctx.daily_limit \in Nat /\ projected \in Nat
                   /\ projected <= ctx.daily_limit
        BY <2>3, <3>3 DEF WellFormed
      <3>4. daily \in Permille
        <4>1. CASE ctx.daily_limit > 0
          BY <3>3, <4>1, PartOfLimit
        <4>2. CASE ~(ctx.daily_limit > 0)
          <5>1. daily = 1000
            BY <4>2
          <5>. HIDE DEF daily
          <5>. QED
            BY <5>1 DEF Permille
        <4>. QED
          BY <4>1, <4>2
      <3>. HIDE DEF per_txn, daily, over
      <3>5. Greatest(per_txn, daily) \in Permille
        BY <3>2, <3>4 DEF Greatest
      <3>. QED
        BY <2>1, <2>3, <3>5, PowerTyped
    <2>. QED
      BY <2>2, <2>3
  <1>4. merchant_risk_score(ctx) \in Permille
    <2>1. ctx.merchant_registry_risk \in Int
      BY DEF WellFormed
    <2>2. Greatest(ctx.merchant_registry_risk, 600) \in Int
      BY <2>1 DEF Greatest
    <2>3. 900 \in Permille
      BY DEF Permille
    <2>. QED
      BY <1>1, <2>1, <2>2, <2>3 DEF merchant_risk_score
  <1>5. velocity_risk_score(ctx) \in Permille
    <2>. DEFINE count == ctx.transactions_last_hour
                limit == ctx.max_transactions_per_hour
    <2>1. count \in Nat /\ limit \in Int
      BY DEF WellFormed
    <2>2. velocity_risk_score(ctx) =
             IF limit <= 0 THEN 1000 ELSE _clamp((1000 * count) \div limit)
      BY DEF velocity_risk_score
    <2>. HIDE DEF count, limit
    <2>3. CASE limit <= 0
      BY <2>2, <2>3 DEF Permille
    <2>4. CASE ~(limit <= 0)
      <3>1. limit \in Nat /\ limit > 0
        BY <2>1, <2>4
      <3>2. (1000 * count) \div limit \in Int
        BY <2>1, <3>1, PartOfLimit
      <3>. QED
        BY <1>1, <2>2, <2>4, <3>2
    <2>. QED
      BY <2>3, <2>4
  <1>6. policy_violation_score(txn, ctx) \in Permille
    <2>1. {0, 550, 600, 750, 800, 1000} \subseteq Permille
      BY DEF Permille
    <2>. QED
      BY <1>2, <2>1
  <1>. QED
    BY <1>3, <1>4, <1>5, <1>6

Weighted(i, p, b, m, v) == 35 * i + 25 * p + 20 * b + 10 * m + 10 * v

LEMMA ScoreBounds ==
    ASSUME NEW n \in Int
    PROVE  n \in Scores <=> (0 <= n /\ n <= 100000)
  BY SMT DEF Scores

LEMMA WeightedSum ==
    ASSUME NEW i \in Permille, NEW j \in Permille, i <= j, NEW p \in Permille,
           NEW b \in Permille, NEW m \in Permille, NEW v \in Permille
    PROVE  /\ Weighted(i, p, b, m, v) \in Scores
           /\ Weighted(j, p, b, m, v) \in Scores
           /\ Weighted(i, p, b, m, v) <= Weighted(j, p, b, m, v)
  <1>1. /\ i \in Nat /\ i <= 1000 /\ j \in Nat /\ j <= 1000 /\ i <= j
        /\ p \in Nat /\ p <= 1000 /\ b \in Nat /\ b <= 1000
        /\ m \in Nat /\ m <= 1000 /\ v \in Nat /\ v <= 1000
    BY SMT DEF Permille
  <1>. QED
    <2>. DEFINE x == Weighted(i, p, b, m, v)
                y == Weighted(j, p, b, m, v)
    <2>1. x \in Int /\ x >= 0 /\ y \in Int /\ y >= 0
      BY <1>1, SMT DEF Weighted
    <2>2. x <= 100000
      BY <1>1, SMT DEF Weighted
    <2>3. y <= 100000
      BY <1>1, SMT DEF Weighted
    <2>4. x <= y
      BY <1>1, SMT DEF Weighted
    <2>. HIDE DEF x, y
    <2>5. x \in Scores /\ y \in Scores
      BY <2>1, <2>2, <2>3, ScoreBounds
    <2>. QED
      BY <2>4, <2>5 DEF x, y

\* The engine's R = 35*I + 25*P + 20*B + 10*M + 10*V stays in 0..100 for every
\* transaction, context and confidence, and grows with the confidence.
THEOREM RiskScoreInRange ==
    ASSUME NEW txn, NEW ctx, WellFormed(txn, ctx),
           NEW less, NEW more, less.injection_confidence \in Permille,
           more.injection_confidence \in Permille,
           less.injection_confidence <= more.injection_confidence
    PROVE  /\ assess(txn, ctx, less).weighted_score \in Scores
           /\ assess(txn, ctx, more).weighted_score \in Scores
           /\ assess(txn, ctx, less).weighted_score
                 <= assess(txn, ctx, more).weighted_score
  <1>. DEFINE p == policy_violation_score(txn, ctx)
              b == budget_anomaly_score(txn, ctx)
              m == merchant_risk_score(ctx)
              v == velocity_risk_score(ctx)
              i == less.injection_confidence
              j == more.injection_confidence
  <1>1. p \in Permille /\ b \in Permille /\ m \in Permille /\ v \in Permille
    BY SignalsTyped
  <1>2. i \in Permille /\ j \in Permille /\ i <= j
    OBVIOUS
  <1>3. \A n \in Permille : _clamp(n) = n
    BY DEF _clamp, Least, Greatest, Permille
  <1>4. /\ assess(txn, ctx, less).weighted_score
              = Weighted(_clamp(i), p, b, m, v)
        /\ assess(txn, ctx, more).weighted_score
              = Weighted(_clamp(j), p, b, m, v)
    BY SMT DEF assess, WEIGHTS, Weighted
  <1>. HIDE DEF p, b, m, v, i, j
  <1>5. /\ assess(txn, ctx, less).weighted_score = Weighted(i, p, b, m, v)
        /\ assess(txn, ctx, more).weighted_score = Weighted(j, p, b, m, v)
    BY <1>2, <1>3, <1>4, Zenon
  <1>. QED
    <2>1. /\ Weighted(i, p, b, m, v) \in Scores
          /\ Weighted(j, p, b, m, v) \in Scores
          /\ Weighted(i, p, b, m, v) <= Weighted(j, p, b, m, v)
      BY <1>1, <1>2, WeightedSum, SMT
    <2>. QED
      BY <1>5, <2>1, Zenon

Analysis == [injection_confidence : Permille, deterministic_confidence : Permille,
             classifier_degraded : BOOLEAN]

Strictness == [ALLOW |-> 0, REQUIRE_APPROVAL |-> 1, BLOCK |-> 2]

\* What the Rego rule makes of the reasons.
LEMMA DecisionIs ==
    ASSUME NEW input
    PROVE  Strictness[decision(input)] =
              IF deny_reasons(input) # {} THEN 2
              ELSE IF approval_reasons(input) # {} /\ ~approval_satisfied(input)
                   THEN 1 ELSE 0
  <1>1. decision(input) \in decision_bodies(deny_reasons(input),
                               approval_reasons(input), approval_satisfied(input))
    BY DecisionIsBody
  <1>2. decision(input) =
           IF deny_reasons(input) # {} THEN "BLOCK"
           ELSE IF approval_reasons(input) # {} /\ ~approval_satisfied(input)
                THEN "REQUIRE_APPROVAL" ELSE "ALLOW"
    BY <1>1 DEF decision_bodies, Code
  <1>. QED
    BY <1>2 DEF Strictness

\* More evidence, or the same without the classifier, never makes a decision
\* laxer: whatever the transaction, its context, the caller, the approval
\* and the flags, a document with no less confidence in any layer, and with the
\* classifier lost where it was lost before, is decided at least as strictly.
THEOREM MoreEvidenceNeverLoosens ==
    ASSUME NEW txn, NEW ctx, WellFormed(txn, ctx), NEW identity, NEW duplicate,
           NEW approval, NEW flags,
           NEW less \in Analysis, NEW more \in Analysis,
           less.injection_confidence <= more.injection_confidence,
           less.deterministic_confidence <= more.deterministic_confidence,
           less.classifier_degraded => more.classifier_degraded
    PROVE  Strictness[decision(build_input(txn, ctx, less, identity, duplicate,
                                           approval, flags))]
              <= Strictness[decision(build_input(txn, ctx, more, identity,
                                                 duplicate, approval, flags))]
  <1>. DEFINE A == build_input(txn, ctx, less, identity, duplicate, approval, flags)
              B == build_input(txn, ctx, more, identity, duplicate, approval, flags)
              i == less.injection_confidence
              j == more.injection_confidence
              k == less.deterministic_confidence
              l == more.deterministic_confidence
  <1>1. /\ A.transaction = txn /\ A.context = ctx /\ A.identity = identity
        /\ A.duplicate = duplicate /\ A.approval = approval /\ A.flags = flags
        /\ A.security = less /\ A.risk = assess(txn, ctx, less)
    BY DEF build_input
  <1>2. /\ B.transaction = txn /\ B.context = ctx /\ B.identity = identity
        /\ B.duplicate = duplicate /\ B.approval = approval /\ B.flags = flags
        /\ B.security = more /\ B.risk = assess(txn, ctx, more)
    BY DEF build_input
  <1>3. /\ i \in Permille /\ j \in Permille /\ i <= j
        /\ k \in Permille /\ l \in Permille /\ k <= l
    BY DEF Analysis
  <1>4. /\ A.risk.weighted_score \in Scores /\ B.risk.weighted_score \in Scores
        /\ A.risk.weighted_score <= B.risk.weighted_score
    BY <1>1, <1>2, <1>3, RiskScoreInRange
  <1>5. A.risk.merchant_risk_score = B.risk.merchant_risk_score
    BY <1>1, <1>2 DEF assess
  <1>. HIDE DEF A, B
  \* The rules that do not look at the evidence.
  <1>6. /\ spending_deny(A) = spending_deny(B)
        /\ merchant_deny(A) = merchant_deny(B)
        /\ agent_scope_deny(A) = agent_scope_deny(B)
        /\ duplicates_deny(A) = duplicates_deny(B)
    BY <1>1, <1>2 DEF spending_deny, merchant_deny, agent_scope_deny,
                      duplicates_deny
  <1>7. bound(A) = bound(B) /\ approval_satisfied(A) = approval_satisfied(B)
    BY <1>1, <1>2 DEF bound, approval_satisfied
  <1>8. approvals_deny(A) = approvals_deny(B)
    BY <1>1, <1>2, <1>7 DEF approvals_deny
  <1>9. /\ spending_require_approval(A) = spending_require_approval(B)
        /\ merchant_require_approval(A) = merchant_require_approval(B)
    BY <1>1, <1>2, <1>5 DEF spending_require_approval, merchant_require_approval
  \* The rules that do.
  <1>10. /\ A.security.injection_confidence = i
         /\ A.security.deterministic_confidence = k
         /\ B.security.injection_confidence = j
         /\ B.security.deterministic_confidence = l
         /\ A.security.classifier_degraded => B.security.classifier_degraded
    BY <1>1, <1>2
  <1>. HIDE DEF i, j, k, l
  <1>11. /\ i >= 850 => j >= 850
         /\ i >= 500 => j >= 500
         /\ j >= 500 /\ ~(j < 850) => j >= 850
         /\ l < 500 => k < 500
    BY <1>3 DEF Permille
  <1>12. /\ thresholds.injection_hard_block = 850
         /\ thresholds.injection_review = 500
    BY DEF thresholds
  <1>13. injection_deny(A) # {} => injection_deny(B) # {}
    <2>1. \/ i >= 850
          \/ /\ A.security.classifier_degraded
             /\ ~A.flags.allow_degraded_classifier
             /\ ~escalate_degraded_to_human(A)
          \/ injection_deny(A) = {}
      BY <1>10, <1>12 DEF injection_deny, Code
    <2>2. /\ j >= 850 => injection_deny(B) # {}
          /\ /\ B.security.classifier_degraded
             /\ ~B.flags.allow_degraded_classifier
             /\ ~escalate_degraded_to_human(B)
             => injection_deny(B) # {}
      BY <1>10, <1>12 DEF injection_deny, Code
    <2>3. ~escalate_degraded_to_human(A) /\ A.security.classifier_degraded
             => ~escalate_degraded_to_human(B)
      BY <1>1, <1>2, <1>10, <1>11, <1>12 DEF escalate_degraded_to_human
    <2>. QED
      BY <1>1, <1>2, <1>10, <1>11, <2>1, <2>2, <2>3
  <1>14. injection_require_approval(A) # {} =>
            injection_require_approval(B) # {} \/ injection_deny(B) # {}
    <2>1. \/ escalate_degraded_to_human(A)
          \/ i >= 500
          \/ injection_require_approval(A) = {}
      BY <1>10, <1>12 DEF injection_require_approval, Code
    <2>2. /\ j >= 850 => injection_deny(B) # {}
          /\ /\ B.security.classifier_degraded
             /\ ~B.flags.allow_degraded_classifier
             => injection_deny(B) # {} \/ escalate_degraded_to_human(B)
      BY <1>10, <1>12 DEF injection_deny, Code
    <2>3. /\ escalate_degraded_to_human(B) => injection_require_approval(B) # {}
          /\ j >= 500 /\ j < 850 => injection_require_approval(B) # {}
      BY <1>10, <1>12 DEF injection_require_approval, Code
    <2>4. escalate_degraded_to_human(A) =>
             /\ B.security.classifier_degraded
             /\ ~B.flags.allow_degraded_classifier
      BY <1>1, <1>2, <1>10 DEF escalate_degraded_to_human
    <2>. QED
      BY <1>11, <2>1, <2>2, <2>3, <2>4
  <1>15. approvals_require_approval(A) # {} => approvals_require_approval(B) # {}
    <2>. DEFINE x == A.risk.weighted_score
                y == B.risk.weighted_score
                t == thresholds.score_review
    <2>1. x \in Int /\ y \in Int /\ x <= y /\ t \in Int
      <3>1. Scores \subseteq Int
        BY SMT DEF Scores
      <3>2. t \in Int
        BY SMT DEF thresholds
      <3>. QED
        BY <1>4, <3>1, <3>2, Zenon
    <2>2. /\ approvals_require_approval(A) = Code("COMPOSITE_RISK_ELEVATED", x >= t)
          /\ approvals_require_approval(B) = Code("COMPOSITE_RISK_ELEVATED", y >= t)
      BY DEF approvals_require_approval
    <2>. HIDE DEF x, y, t
    <2>3. x >= t => y >= t
      BY <2>1
    <2>. QED
      BY <2>2, <2>3 DEF Code
  <1>16. deny_reasons(A) # {} => deny_reasons(B) # {}
    BY <1>6, <1>8, <1>13 DEF deny_reasons
  <1>17. approval_reasons(A) # {} =>
            approval_reasons(B) # {} \/ deny_reasons(B) # {}
    BY <1>9, <1>14, <1>15 DEF deny_reasons, approval_reasons
  <1>. QED
    <2>1. Strictness[decision(A)] <= Strictness[decision(B)]
      BY <1>7, <1>16, <1>17, DecisionIs
    <2>. QED
      BY <2>1 DEF A, B

-----------------------------------------------------------------------------
(***************************************************************************)
(* The same of the requests that are decided: what load_context has read   *)
(* of a request is well formed, so the classifier's answer to it never     *)
(* talks the decision down.                                                *)
(***************************************************************************)
SeenRecord == [policy : {"absent", "active", "revoked"}, agent : Registration,
               merchant : Registration, spent : Nat, count : Nat]

SeenTyped == seen \in [Requests -> SeenRecord]

LEMMA SeenStep ==
    ASSUME TypeOK, VelocityInv, SpendInv, SeenTyped, [Next]_vars
    PROVE  SeenTyped'
  <1>. USE DEF SeenTyped
  <1>1. NothingSeen \in SeenRecord
    BY DEF NothingSeen, SeenRecord, Registration
  <1>2. CASE UNCHANGED seen
    BY <1>2
  <1>3. ASSUME NEW r \in Requests, NEW s \in SeenRecord,
               seen' = [seen EXCEPT ![r] = s]
        PROVE  SeenTyped'
    BY <1>3
  <1>4. ASSUME NEW r \in Requests, LoadPolicy(r) PROVE SeenTyped'
    <2>1. /\ policy[DelegationOf[r]] \in {"absent", "active", "revoked"}
          /\ agent \in Registration /\ merchant \in Registration
      BY AdmissionAssumption DEF TypeOK
    <2>2. [seen[r] EXCEPT !.policy = policy[DelegationOf[r]], !.agent = agent,
                          !.merchant = merchant] \in SeenRecord
      BY <2>1 DEF SeenRecord
    <2>. QED
      BY <1>3, <1>4, <2>2 DEF LoadPolicy
  <1>5. ASSUME NEW r \in Requests, SumSpent(r) PROVE SeenTyped'
    <2>1. Spent(Settled) \in Nat
      <3>1. Settled \in SUBSET Requests /\ IsFiniteSet(Settled)
        BY DEF SpendInv, Sums, Settled
      <3>2. Spent(Settled) = Total(Settled)
        BY <3>1, SpentIsTotal
      <3>. QED
        BY <3>2, OnTimeParts
    <2>2. [seen[r] EXCEPT !.spent = Spent(Settled)] \in SeenRecord
      BY <2>1 DEF SeenRecord
    <2>. QED
      BY <1>3, <1>5, <2>2 DEF SumSpent
  <1>6. ASSUME NEW r \in Requests, CountVelocity(r) PROVE SeenTyped'
    <2>1. Cardinality(velocity) \in Nat
      BY FS_CardinalityType DEF VelocityInv, Counts
    <2>2. [seen[r] EXCEPT !.count = Cardinality(velocity)] \in SeenRecord
      BY <2>1 DEF SeenRecord
    <2>. QED
      BY <1>3, <1>6, <2>2 DEF CountVelocity
  <1>7. ASSUME NEW r \in Requests, Decide(r) \/ RequestDies(r) PROVE SeenTyped'
    BY <1>1, <1>3, <1>7 DEF Decide, RequestDies
  <1>8. ASSUME NEW r \in Requests,
               Authenticate(r) \/ RecordVelocity(r) \/ Authorize(r) \/ Conclude(r)
        PROVE  SeenTyped'
    BY <1>2, <1>8 DEF Authenticate, RecordVelocity, Authorize, Conclude
  <1>9. ASSUME NEW o \in Ops,
               \/ ReadPolicy(o) \/ CommitPolicy(o) \/ WriteRevocationSet(o)
               \/ UpsertAgent(o) \/ UpsertMerchant(o) \/ RecordAdminAction(o)
               \/ OpDies(o)
        PROVE  SeenTyped'
    BY <1>2, <1>9 DEF ReadPolicy, CommitPolicy, WriteRevocationSet, UpsertAgent,
                      UpsertMerchant, RecordAdminAction, OpDies, gateVars
  <1>10. CASE WindowSlides \/ UNCHANGED vars
    BY <1>2, <1>10 DEF WindowSlides, vars, gateVars
  <1>. QED
    BY <1>4, <1>5, <1>6, <1>7, <1>8, <1>9, <1>10 DEF Next

LEMMA SeenAlwaysTyped == Spec => []SeenTyped
  <1>1. Init => SeenTyped
    BY DEF Init, SeenTyped, NothingSeen, SeenRecord, Registration
  <1>2. TypeOK /\ VelocityInv /\ SpendInv /\ SeenTyped /\ [Next]_vars => SeenTyped'
    BY SeenStep
  <1>. QED
    BY <1>1, <1>2, AdmissionTypeCorrect, VelocityInvariant, SpendInvariant, PTL
       DEF Spec

\* The document of a request is one the risk engine scores.
LEMMA RequestWellFormed ==
    ASSUME SeenTyped, NEW r \in Requests
    PROVE  WellFormed(Transaction(r), Context(r))
  <1>1. seen[r].spent \in Nat /\ seen[r].count \in Nat
    BY DEF SeenTyped, SeenRecord
  <1>2. /\ Policy.per_transaction_limit \in Nat /\ Policy.daily_limit \in Nat
        /\ Policy.max_transactions_per_hour \in Nat /\ AmountOf[r] \in Nat
    BY AdmissionAssumption
  <1>3. Transaction(r).amount \in Nat
    BY <1>2 DEF Transaction
  <1>4. /\ Context(r).spent_today \in Nat
        /\ Context(r).transactions_last_hour \in Nat
    BY <1>1 DEF Context
  <1>5. /\ Context(r).per_transaction_limit \in Int
        /\ Context(r).daily_limit \in Int
        /\ Context(r).max_transactions_per_hour \in Int
        /\ Context(r).merchant_registry_risk \in Int
    BY <1>2 DEF Context
  <1>. QED
    BY <1>3, <1>4, <1>5 DEF WellFormed

\* Of two answers the classifier may give on a request, the one with no less
\* confidence, lost where the other was lost, is never the laxer decision.
ClassifierNeverLoosens ==
    \A r \in Requests : \A low, high \in Verdicts :
        \A approval \in ApprovalFindings(r) :
            low.confidence <= high.confidence /\ (low.degraded => high.degraded) =>
                Strictness[decision(PolicyInput(r, low, approval))]
                   <= Strictness[decision(PolicyInput(r, high, approval))]

\* Whatever load_context has read of the request, at any moment of any history
\* of the control plane and of the other requests: a more suspicious verdict
\* of the classifier never gets a request through that a milder one would have
\* held.  An outage counts as a verdict of confidence 0, so it is compared with
\* an answer that found nothing, not with one that raised the alarm.
THEOREM ClassifierNeverTalksDown == Spec => []ClassifierNeverLoosens
  <1>1. SeenTyped => ClassifierNeverLoosens
    <2>. SUFFICES ASSUME SeenTyped, NEW r \in Requests,
                         NEW low \in Verdicts, NEW high \in Verdicts,
                         NEW approval \in ApprovalFindings(r),
                         low.confidence <= high.confidence,
                         low.degraded => high.degraded
                  PROVE  Strictness[decision(PolicyInput(r, low, approval))]
                            <= Strictness[decision(PolicyInput(r, high, approval))]
      BY DEF ClassifierNeverLoosens
    <2>. DEFINE less == AnalysisResult(ContentOf[r], low)
                more == AnalysisResult(ContentOf[r], high)
    <2>1. ContentOf[r] \in Content /\ low \in Verdict /\ high \in Verdict
      BY AdmissionAssumption DEF Content, Verdict, Permille
    <2>2. /\ less.injection_confidence \in Permille
          /\ more.injection_confidence \in Permille
          /\ less.deterministic_confidence \in Permille
          /\ less.deterministic_confidence = more.deterministic_confidence
          /\ less.injection_confidence <= more.injection_confidence
      BY <2>1, ClassifierOnlyRaises, Zenon
    <2>3. /\ less.classifier_degraded = low.degraded
          /\ more.classifier_degraded = high.degraded
          /\ low.degraded \in BOOLEAN /\ high.degraded \in BOOLEAN
      BY <2>1 DEF AnalysisResult, Verdict
    <2>4. less \in Analysis /\ more \in Analysis
      BY <2>2, <2>3 DEF Analysis, AnalysisResult
    <2>. HIDE DEF less, more
    <2>5. less.deterministic_confidence <= more.deterministic_confidence
      <3>1. \A n \in Permille : n <= n
        BY DEF Permille
      <3>. QED
        BY <2>2, <3>1, Zenon
    <2>6. WellFormed(Transaction(r), Context(r))
      BY RequestWellFormed
    <2>7. \A identity, duplicate, flags :
             Strictness[decision(build_input(Transaction(r), Context(r), less,
                                    identity, duplicate, approval, flags))]
               <= Strictness[decision(build_input(Transaction(r), Context(r), more,
                                         identity, duplicate, approval, flags))]
      BY <2>2, <2>3, <2>4, <2>5, <2>6, MoreEvidenceNeverLoosens, Zenon
    <2>. QED
      BY <2>7 DEF PolicyInput, less, more
  <1>. QED
    BY <1>1, SeenAlwaysTyped, PTL
=============================================================================
