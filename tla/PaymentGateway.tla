--------------------------- MODULE PaymentGateway ---------------------------
(***************************************************************************)
(* The payment path of the gateway: POST /v1/payment-intents from its      *)
(* arrival to the answer the client gets, POST /v1/reconcile, and the      *)
(* stores, the database and the provider they act on.                      *)
(*                                                                         *)
(* A request is one call of create_payment_intent.  It draws its own       *)
(* payment_authorization_id, so the request, its row in `transactions` and *)
(* its authorization are named by the same value.  A sweeper is one caller *)
(* of /v1/reconcile; it may call again and again.  Every await of the code *)
(* is a point where another request or sweeper may run, so an action is    *)
(* what runs between two awaits that touch shared state.                   *)
(*                                                                         *)
(* One user is modelled: every shared key of the code carries the user id. *)
(***************************************************************************)
EXTENDS Naturals, FiniteSets

CONSTANTS
    Requests,       \* calls of create_payment_intent = authorization ids
    Sweepers,       \* callers of /v1/reconcile
    Keys,           \* client-supplied idempotency keys
    Fingerprints,   \* transaction fingerprints (cart and time window)
    KeyOf,          \* the idempotency key a request carries
    FpOf,           \* the fingerprint of a request
    PayloadOf,      \* the payload hash of a request
    Execute,        \* requests made with execute=true
    Faults,         \* what the environment may do wrong
    None            \* the absent value

FaultKinds ==
    { "lock_expiry",   \* a critical section outlives the TTL of its lock
      "token_expiry",  \* a pipeline outlives the TTL of the token it issued
      "audit",         \* an audit write raises
      "outage",        \* any other await of the pipeline raises
      "crash",         \* the process of a request dies
      "sweep_crash",   \* the process of a reconciliation dies
      "late",          \* a charge is processed after the gateway gave up
      "ageing",        \* a row gets older than the reconciliation cutoff
      "forget" }       \* the idempotency record reaches its TTL

ASSUME InputsAssumption ==
    /\ KeyOf \in [Requests -> Keys]
    /\ FpOf \in [Requests -> Fingerprints]
    /\ Execute \subseteq Requests
    /\ Faults \subseteq FaultKinds

ASSUME ProcsAssumption ==
    /\ Requests \cap Sweepers = {}
    /\ None \notin Requests

VARIABLES
    pc,         \* where each request is in create_payment_intent
    verdict,    \* the PDP's decision for the request
    conflict,   \* outcome.is_conflict of check_duplicate
    rstate,     \* response.state while the response is being built
    answer,     \* what the handler returns
    idemLock,   \* agentpay:lock:idem:* -> the request that set it
    fpLock,     \* agentpay:lock:fp:*   -> the request that set it
    idem,       \* agentpay:idem:*, the stored responses
    fp,         \* agentpay:fp:*, the authorization that reserved the slot
    row,        \* the transactions table
    velocity,   \* agentpay:velocity, the authorizations counted
    parked,     \* agentpay:approval:*, authorizations awaiting a human
    expired,    \* authorizations whose token TTL has elapsed
    old,        \* rows older than the reconciliation cutoff
    provider,   \* what became of the charge request at the provider
    trail,      \* audit events written, as <<authorization, event>>
    phase,      \* progress of the set_state call a process is in
    target,     \* the state that call is to set
    sweep,      \* where each sweeper is in reconcile()
    pending,    \* the rows a sweep has still to look at
    cur         \* the row a sweep is looking at

requestVars == <<pc, verdict, conflict, rstate, answer>>
storeVars == <<idemLock, fpLock, idem, fp, velocity, parked>>
timeVars == <<expired, old>>
callVars == <<phase, target>>
sweepVars == <<sweep, pending, cur>>
vars == <<requestVars, storeVars, row, timeVars, provider, trail, callVars,
          sweepVars>>

Procs == Requests \cup Sweepers

Decisions == {"ALLOW", "REQUIRE_APPROVAL", "BLOCK"}

PaymentState == {"CREATED", "AUTHORIZED", "SUBMITTED", "CONFIRMED", "FAILED",
                 "TIMEOUT", "UNKNOWN", "EXPIRED"}

VALID_TRANSITIONS ==
    [CREATED    |-> {"AUTHORIZED", "FAILED"},
     AUTHORIZED |-> {"SUBMITTED", "EXPIRED", "FAILED"},
     SUBMITTED  |-> {"CONFIRMED", "FAILED", "TIMEOUT"},
     TIMEOUT    |-> {"UNKNOWN"},
     UNKNOWN    |-> {"CONFIRMED", "FAILED"},
     CONFIRMED  |-> {},
     FAILED     |-> {},
     EXPIRED    |-> {}]

NoRow == [decision |-> "none", state |-> "none", uses |-> 0, token |-> FALSE]

NoRecord == [pa |-> None, payload |-> None, decision |-> "none",
             state |-> "none"]

NoAnswer == [kind |-> "none", decision |-> "none", state |-> "none",
             pa |-> None]

HasRow(r) == row[r].decision # "none"

\* The provider's table of charges: what GET /charges/{id} reports.
Charged(r) == provider[r] = "confirmed"

(***************************************************************************)
(* A response of the handler.                                              *)
(***************************************************************************)
Refusal(kind, r) ==
    [kind |-> kind, decision |-> "BLOCK", state |-> "FAILED", pa |-> r]

\* The handler is about to return `a`; leaving the `async with` comes first.
Return(r, a) ==
    /\ answer' = [answer EXCEPT ![r] = a]
    /\ pc' = [pc EXCEPT ![r] = "release"]

Goto(r, label) == pc' = [pc EXCEPT ![r] = label]

Idle(p) == phase[p] = "idle"

-----------------------------------------------------------------------------
Init ==
    /\ pc = [r \in Requests |-> "new"]
    /\ verdict = [r \in Requests |-> "none"]
    /\ conflict = [r \in Requests |-> FALSE]
    /\ rstate = [r \in Requests |-> "none"]
    /\ answer = [r \in Requests |-> NoAnswer]
    /\ idemLock = [k \in Keys |-> None]
    /\ fpLock = [f \in Fingerprints |-> None]
    /\ idem = [k \in Keys |-> NoRecord]
    /\ fp = [f \in Fingerprints |-> None]
    /\ row = [r \in Requests |-> NoRow]
    /\ velocity = {}
    /\ parked = {}
    /\ expired = {}
    /\ old = {}
    /\ provider = [r \in Requests |-> "none"]
    /\ trail = {}
    /\ phase = [p \in Procs |-> "idle"]
    /\ target = [p \in Procs |-> "none"]
    /\ sweep = [s \in Sweepers |-> "off"]
    /\ pending = [s \in Sweepers |-> {}]
    /\ cur = [s \in Sweepers |-> None]

-----------------------------------------------------------------------------
(***************************************************************************)
(* Arrival, and the two locks taken in a fixed order.                      *)
(***************************************************************************)

\* Identity and edge rate limit passed; the canonical transaction is built.
Arrive(r) ==
    /\ pc[r] = "new"
    /\ Goto(r, "lock_idem")
    /\ UNCHANGED <<verdict, conflict, rstate, answer, storeVars, row,
                   timeVars, provider, trail, callVars, sweepVars>>

\* Bad identity, revoked delegation or edge rate limit: answered and audited
\* without a row, a lock or a token.
BlockedBeforePipeline(r) ==
    /\ pc[r] = "new"
    /\ answer' = [answer EXCEPT ![r] = Refusal("blocked", r)]
    /\ Goto(r, "done")
    /\ \/ trail' = trail \cup {<<r, "BLOCK">>}
       \/ "audit" \in Faults /\ UNCHANGED trail
    /\ UNCHANGED <<verdict, conflict, rstate, storeVars, row, timeVars,
                   provider, callVars, sweepVars>>

AcquireIdem(r) ==
    /\ pc[r] = "lock_idem"
    /\ idemLock[KeyOf[r]] = None
    /\ idemLock' = [idemLock EXCEPT ![KeyOf[r]] = r]
    /\ Goto(r, "lock_fp")
    /\ UNCHANGED <<verdict, conflict, rstate, answer, fpLock, idem, fp,
                   velocity, parked, row, timeVars, provider, trail, callVars,
                   sweepVars>>

\* Mutant: no lock is taken on the fingerprint.
AcquireFp_bug(r) ==
    /\ pc[r] = "lock_fp"
    /\ Goto(r, "check_idem")
    /\ UNCHANGED <<verdict, conflict, rstate, answer, storeVars, row,
                   timeVars, provider, trail, callVars, sweepVars>>

AcquireFp(r) ==
    /\ pc[r] = "lock_fp"
    /\ fpLock[FpOf[r]] = None
    /\ fpLock' = [fpLock EXCEPT ![FpOf[r]] = r]
    /\ Goto(r, "check_idem")
    /\ UNCHANGED <<verdict, conflict, rstate, answer, idemLock, idem, fp,
                   velocity, parked, row, timeVars, provider, trail, callVars,
                   sweepVars>>

\* Mutant: the idempotency lock is polled for ever.
LockTimeout_bug(r) ==
    /\ pc[r] = "lock_fp" /\ fpLock[FpOf[r]] # None
    /\ Return(r, Refusal("inflight", r))
    /\ UNCHANGED <<verdict, conflict, rstate, storeVars, row, timeVars,
                   provider, trail, callVars, sweepVars>>

\* Fifty polls found the lock taken.
LockTimeout(r) ==
    /\ \/ pc[r] = "lock_idem" /\ idemLock[KeyOf[r]] # None
       \/ pc[r] = "lock_fp" /\ fpLock[FpOf[r]] # None
    /\ Return(r, Refusal("inflight", r))
    /\ UNCHANGED <<verdict, conflict, rstate, storeVars, row, timeVars,
                   provider, trail, callVars, sweepVars>>

\* Leaving `async with`: each lock is deleted if it still holds our token.
Release(r) ==
    /\ pc[r] = "release"
    /\ idemLock' = [k \in Keys |-> IF idemLock[k] = r THEN None
                                                      ELSE idemLock[k]]
    /\ fpLock' = [f \in Fingerprints |-> IF fpLock[f] = r THEN None
                                                          ELSE fpLock[f]]
    /\ Goto(r, "done")
    /\ UNCHANGED <<verdict, conflict, rstate, answer, idem, fp, velocity,
                   parked, row, timeVars, provider, trail, callVars,
                   sweepVars>>

-----------------------------------------------------------------------------
(***************************************************************************)
(* check_duplicate: the idempotency record first, then the fingerprint.    *)
(***************************************************************************)

\* Mutant: the replayed response is rebuilt under the new authorization id.
Replay_bug(r) ==
    LET record == idem[KeyOf[r]] IN
    /\ pc[r] = "check_idem"
    /\ record.pa # None
    /\ record.payload = PayloadOf[r]
    /\ Return(r, [kind |-> "replay", decision |-> record.decision,
                  state |-> record.state, pa |-> r])
    /\ trail' = trail \cup {<<record.pa, "IDEMPOTENT_REPLAY">>}
    /\ UNCHANGED <<verdict, conflict, rstate, storeVars, row, timeVars,
                   provider, callVars, sweepVars>>

\* Same key, same payload: the stored response goes back, marked replayed.
Replay(r) ==
    LET record == idem[KeyOf[r]] IN
    /\ pc[r] = "check_idem"
    /\ record.pa # None
    /\ record.payload = PayloadOf[r]
    /\ Return(r, [kind |-> "replay", decision |-> record.decision,
                  state |-> record.state, pa |-> record.pa])
    /\ \/ trail' = trail \cup {<<record.pa, "IDEMPOTENT_REPLAY">>}
       \/ "audit" \in Faults /\ UNCHANGED trail
    /\ UNCHANGED <<verdict, conflict, rstate, storeVars, row, timeVars,
                   provider, callVars, sweepVars>>

\* Same key, different payload: a conflict, left to the PDP to block.
KeyConflict(r) ==
    /\ pc[r] = "check_idem"
    /\ idem[KeyOf[r]].pa # None
    /\ idem[KeyOf[r]].payload # PayloadOf[r]
    /\ conflict' = [conflict EXCEPT ![r] = TRUE]
    /\ Goto(r, "decide")
    /\ UNCHANGED <<verdict, rstate, answer, storeVars, row, timeVars,
                   provider, trail, callVars, sweepVars>>

NewKey(r) ==
    /\ pc[r] = "check_idem"
    /\ idem[KeyOf[r]].pa = None
    /\ Goto(r, "check_fp")
    /\ UNCHANGED <<verdict, conflict, rstate, answer, storeVars, row,
                   timeVars, provider, trail, callVars, sweepVars>>

CheckFingerprint(r) ==
    /\ pc[r] = "check_fp"
    /\ conflict' = [conflict EXCEPT ![r] = fp[FpOf[r]] \notin {None, r}]
    /\ Goto(r, "decide")
    /\ UNCHANGED <<verdict, rstate, answer, storeVars, row, timeVars,
                   provider, trail, callVars, sweepVars>>

-----------------------------------------------------------------------------
(***************************************************************************)
(* Analyzer, risk engine and PDP.  What they decide is the subject of      *)
(* PolicyDecision; here a conflict is blocked and anything else may get    *)
(* any decision (an unreachable PDP blocks).                               *)
(***************************************************************************)
\* Mutant: an undefined PDP result is passed on instead of blocked.
Verdicts_bug(r) ==
    IF conflict[r] THEN {"BLOCK"} ELSE Decisions \cup {"undefined"}

Verdicts(r) == IF conflict[r] THEN {"BLOCK"} ELSE Decisions

Decide(r) ==
    /\ pc[r] = "decide"
    /\ \E d \in Verdicts(r) : verdict' = [verdict EXCEPT ![r] = d]
    /\ Goto(r, "persist")
    /\ UNCHANGED <<conflict, rstate, answer, storeVars, row, timeVars,
                   provider, trail, callVars, sweepVars>>

\* Mutant: the index is dropped from the schema.
IndexAdmits_bug(r) == verdict[r] \in Decisions

\* The partial unique index uq_user_idempotency_authorized: one row per key
\* among the rows whose decision is not BLOCK.
IndexAdmits(r) ==
    verdict[r] # "BLOCK" =>
        \A q \in Requests : KeyOf[q] = KeyOf[r] =>
            row[q].decision \in {"none", "BLOCK"}

Persist(r) ==
    /\ pc[r] = "persist"
    /\ IndexAdmits(r)
    /\ row' = [row EXCEPT ![r] = [decision |-> verdict[r], state |-> "CREATED",
                                  uses |-> 0, token |-> FALSE]]
    /\ rstate' = [rstate EXCEPT ![r] = "CREATED"]
    /\ Goto(r, "authorization")
    /\ UNCHANGED <<verdict, conflict, answer, storeVars, timeVars, provider,
                   trail, callVars, sweepVars>>

\* IntegrityError: nobody catches it, the client gets the 500 BLOCK.
PersistRefused(r) ==
    /\ pc[r] = "persist"
    /\ ~IndexAdmits(r)
    /\ Return(r, Refusal("error", r))
    /\ UNCHANGED <<verdict, conflict, rstate, storeVars, row, timeVars,
                   provider, trail, callVars, sweepVars>>

-----------------------------------------------------------------------------
(***************************************************************************)
(* set_state(pa, t): read the row and assert the transition, commit,       *)
(* write the audit event.  No row lock is held between read and commit.    *)
(* The caller starts it with CallSetState and resumes when Idle again.     *)
(***************************************************************************)
CallSetState(p, t) ==
    /\ phase' = [phase EXCEPT ![p] = "read"]
    /\ target' = [target EXCEPT ![p] = t]

Pa(p) == IF p \in Requests THEN p ELSE cur[p]

assert_transition(from, to) == to \in VALID_TRANSITIONS[from]

SetStateRead(p) ==
    /\ phase[p] = "read"
    /\ assert_transition(row[Pa(p)].state, target[p])
    /\ phase' = [phase EXCEPT ![p] = "commit"]
    /\ UNCHANGED <<requestVars, storeVars, row, timeVars, provider, trail,
                   target, sweepVars>>

\* A block writes its state without an audit event (audit=False).
SetStateCommit(p) ==
    /\ phase[p] = "commit"
    /\ row' = [row EXCEPT ![Pa(p)].state = target[p]]
    /\ phase' = [phase EXCEPT ![p] =
                    IF p \in Requests /\ verdict[p] = "BLOCK" THEN "idle"
                                                              ELSE "audit"]
    /\ UNCHANGED <<requestVars, storeVars, timeVars, provider, trail, target,
                   sweepVars>>

SetStateAudit(p) ==
    /\ phase[p] = "audit"
    /\ trail' = trail \cup {<<Pa(p), target[p]>>}
    /\ phase' = [phase EXCEPT ![p] = "idle"]
    /\ UNCHANGED <<requestVars, storeVars, row, timeVars, provider, target,
                   sweepVars>>

\* Mutant: set_state uses record_event_safe and swallows the failed write.
SetStateRaisesInRequest_bug(r) ==
    /\ phase[r] = "audit"
    /\ "audit" \in Faults
    /\ phase' = [phase EXCEPT ![r] = "idle"]
    /\ UNCHANGED <<requestVars, storeVars, row, timeVars, provider, trail,
                   target, sweepVars>>

\* InvalidTransition, or an audit write that raised, leaves set_state: the
\* pipeline answers 500 BLOCK, or the in-flight BLOCK when the exception is
\* the audit lock's TimeoutError, which create_payment_intent catches.
SetStateRaisesInRequest(r) ==
    /\ \/ /\ phase[r] = "read"
          /\ ~assert_transition(row[r].state, target[r])
          /\ Return(r, Refusal("error", r))
       \/ /\ phase[r] = "audit"
          /\ "audit" \in Faults
          /\ \E kind \in {"error", "inflight"} : Return(r, Refusal(kind, r))
    /\ phase' = [phase EXCEPT ![r] = "idle"]
    /\ UNCHANGED <<verdict, conflict, rstate, storeVars, row, timeVars,
                   provider, trail, target, sweepVars>>

\* In a sweep the same exceptions abort the whole call of /v1/reconcile.
SetStateRaisesInSweep(s) ==
    /\ \/ phase[s] = "read" /\ ~assert_transition(row[cur[s]].state, target[s])
       \/ phase[s] = "audit" /\ "audit" \in Faults
    /\ phase' = [phase EXCEPT ![s] = "idle"]
    /\ sweep' = [sweep EXCEPT ![s] = "off"]
    /\ pending' = [pending EXCEPT ![s] = {}]
    /\ UNCHANGED <<requestVars, storeVars, row, timeVars, provider, trail,
                   target, cur>>

-----------------------------------------------------------------------------
(***************************************************************************)
(* The Payment Authorization Service, by decision.                         *)
(***************************************************************************)
Block(r) ==
    /\ pc[r] = "authorization"
    /\ verdict[r] = "BLOCK"
    /\ rstate' = [rstate EXCEPT ![r] = "FAILED"]
    /\ CallSetState(r, "FAILED")
    /\ Goto(r, "decision_audit")
    /\ UNCHANGED <<verdict, conflict, answer, storeVars, row, timeVars,
                   provider, trail, sweepVars>>

\* create_request parks the transaction; its row stays CREATED.
RequireApproval(r) ==
    /\ pc[r] = "authorization"
    /\ verdict[r] = "REQUIRE_APPROVAL"
    /\ parked' = parked \cup {r}
    /\ Goto(r, "decision_audit")
    /\ UNCHANGED <<verdict, conflict, rstate, answer, idemLock, fpLock, idem,
                   fp, velocity, row, timeVars, provider, trail, callVars,
                   sweepVars>>

\* Mutant: the ALLOW branch is entered whatever the verdict.
RecordVelocity_bug(r) ==
    /\ pc[r] = "authorization"
    /\ velocity' = velocity \cup {r}
    /\ Goto(r, "authorize")
    /\ UNCHANGED <<verdict, conflict, rstate, answer, idemLock, fpLock, idem,
                   fp, parked, row, timeVars, provider, trail, callVars,
                   sweepVars>>

RecordVelocity(r) ==
    /\ pc[r] = "authorization"
    /\ verdict[r] = "ALLOW"
    /\ velocity' = velocity \cup {r}
    /\ Goto(r, "authorize")
    /\ UNCHANGED <<verdict, conflict, rstate, answer, idemLock, fpLock, idem,
                   fp, parked, row, timeVars, provider, trail, callVars,
                   sweepVars>>

\* authorize(): the token is issued and noted on the row, then AUTHORIZED.
Authorize(r) ==
    /\ pc[r] = "authorize"
    /\ row' = [row EXCEPT ![r].token = TRUE]
    /\ rstate' = [rstate EXCEPT ![r] = "AUTHORIZED"]
    /\ CallSetState(r, "AUTHORIZED")
    /\ Goto(r, IF r \in Execute THEN "submit" ELSE "decision_audit")
    /\ UNCHANGED <<verdict, conflict, answer, storeVars, timeVars, provider,
                   trail, sweepVars>>

\* submit(): the use of the token is recorded before the provider is called.
Submit(r) ==
    /\ pc[r] = "submit"
    /\ Idle(r)
    /\ IF row[r].uses >= 1
       THEN /\ rstate' = [rstate EXCEPT ![r] = "FAILED"]
            /\ Goto(r, "decision_audit")
            /\ UNCHANGED <<row, callVars>>
       ELSE /\ row' = [row EXCEPT ![r].uses = @ + 1]
            /\ CallSetState(r, "SUBMITTED")
            /\ Goto(r, "post")
            /\ UNCHANGED rstate
    /\ UNCHANGED <<verdict, conflict, answer, storeVars, timeVars, provider,
                   trail, sweepVars>>

PostCharge(r) ==
    /\ pc[r] = "post"
    /\ Idle(r)
    /\ provider' = [provider EXCEPT ![r] = "sent"]
    /\ Goto(r, "await")
    /\ UNCHANGED <<verdict, conflict, rstate, answer, storeVars, row,
                   timeVars, trail, callVars, sweepVars>>

\* Mutant: the provider does not look at the token's expiry.
CreateCharge_bug(r) ==
    /\ provider[r] = "sent"
    /\ \E result \in {"confirmed", "declined", "refused", "lost"} :
           provider' = [provider EXCEPT ![r] = result]
    /\ UNCHANGED <<requestVars, storeVars, row, timeVars, trail, callVars,
                   sweepVars>>

\* The provider refuses an expired token; otherwise it confirms, declines,
\* answers an error, or hangs without ever recording a charge.
CreateCharge(r) ==
    /\ provider[r] = "sent"
    /\ \E result \in IF r \in expired
                     THEN {"refused"}
                     ELSE {"confirmed", "declined", "refused", "lost"} :
           provider' = [provider EXCEPT ![r] = result]
    /\ UNCHANGED <<requestVars, storeVars, row, timeVars, trail, callVars,
                   sweepVars>>

\* Mutant: any answer below 400 is a confirmation.
ProviderAnswers_bug(r) ==
    LET outcome == IF provider[r] = "refused" THEN "FAILED" ELSE "CONFIRMED" IN
    /\ pc[r] = "await"
    /\ provider[r] \in {"confirmed", "declined", "refused"}
    /\ CallSetState(r, outcome)
    /\ rstate' = [rstate EXCEPT ![r] = outcome]
    /\ Goto(r, "decision_audit")
    /\ UNCHANGED <<verdict, conflict, answer, storeVars, row, timeVars,
                   provider, trail, sweepVars>>

ProviderAnswers(r) ==
    LET outcome == IF Charged(r) THEN "CONFIRMED" ELSE "FAILED" IN
    /\ pc[r] = "await"
    /\ provider[r] \in {"confirmed", "declined", "refused"}
    /\ CallSetState(r, outcome)
    /\ rstate' = [rstate EXCEPT ![r] = outcome]
    /\ Goto(r, "decision_audit")
    /\ UNCHANGED <<verdict, conflict, answer, storeVars, row, timeVars,
                   provider, trail, sweepVars>>

\* Mutant: a provider that does not answer counts as a failed payment.
ProviderTimeout_bug(r) ==
    /\ pc[r] = "await"
    /\ CallSetState(r, "FAILED")
    /\ rstate' = [rstate EXCEPT ![r] = "FAILED"]
    /\ Goto(r, "decision_audit")
    /\ UNCHANGED <<verdict, conflict, answer, storeVars, row, timeVars,
                   provider, trail, sweepVars>>

\* No answer in provider_timeout_seconds, or the transport failed.  The
\* request may have been lost, its answer may have been lost, or (late) the
\* provider may still process it.
ProviderTimeout(r) ==
    /\ pc[r] = "await"
    /\ \/ provider[r] # "sent" /\ UNCHANGED provider
       \/ provider[r] = "sent" /\ provider' = [provider EXCEPT ![r] = "lost"]
       \/ "late" \in Faults /\ UNCHANGED provider
    /\ CallSetState(r, "TIMEOUT")
    /\ Goto(r, "to_unknown")
    /\ UNCHANGED <<verdict, conflict, rstate, answer, storeVars, row,
                   timeVars, trail, sweepVars>>

TimeoutToUnknown(r) ==
    /\ pc[r] = "to_unknown"
    /\ Idle(r)
    /\ CallSetState(r, "UNKNOWN")
    /\ rstate' = [rstate EXCEPT ![r] = "UNKNOWN"]
    /\ Goto(r, "decision_audit")
    /\ UNCHANGED <<verdict, conflict, answer, storeVars, row, timeVars,
                   provider, trail, sweepVars>>

-----------------------------------------------------------------------------
(***************************************************************************)
(* The decision's audit event and the stored outcome.                      *)
(***************************************************************************)
Memoised(r) == ~conflict[r] /\ verdict[r] # "REQUIRE_APPROVAL"

Response(r) ==
    [kind |-> "decision", decision |-> verdict[r], state |-> rstate[r],
     pa |-> r]

\* record_event_safe: a failed audit write changes nothing but the trail.
AuditDecision(r) ==
    /\ pc[r] = "decision_audit"
    /\ Idle(r)
    /\ \/ trail' = trail \cup {<<r, verdict[r]>>}
       \/ "audit" \in Faults /\ UNCHANGED trail
    /\ IF Memoised(r)
       THEN Goto(r, "remember_idem") /\ UNCHANGED answer
       ELSE Return(r, Response(r))
    /\ UNCHANGED <<verdict, conflict, rstate, storeVars, row, timeVars,
                   provider, callVars, sweepVars>>

RememberIdem(r) ==
    /\ pc[r] = "remember_idem"
    /\ idem' = [idem EXCEPT ![KeyOf[r]] =
                   [pa |-> r, payload |-> PayloadOf[r],
                    decision |-> verdict[r], state |-> rstate[r]]]
    /\ IF verdict[r] = "ALLOW"
       THEN Goto(r, "remember_fp") /\ UNCHANGED answer
       ELSE Return(r, Response(r))
    /\ UNCHANGED <<verdict, conflict, rstate, idemLock, fpLock, fp, velocity,
                   parked, row, timeVars, provider, trail, callVars,
                   sweepVars>>

RememberFp(r) ==
    /\ pc[r] = "remember_fp"
    /\ fp' = [fp EXCEPT ![FpOf[r]] = r]
    /\ Return(r, Response(r))
    /\ UNCHANGED <<verdict, conflict, rstate, idemLock, fpLock, idem,
                   velocity, parked, row, timeVars, provider, trail, callVars,
                   sweepVars>>

-----------------------------------------------------------------------------
(***************************************************************************)
(* POST /v1/reconcile: reconcile_unknown, then expire_stale_authorizations.*)
(* Each takes a snapshot of its rows and then handles them one by one.     *)
(***************************************************************************)
\* Mutant: reconciliation also picks up payments still being submitted.
ReconcileStart_bug(s) ==
    /\ sweep[s] = "off"
    /\ sweep' = [sweep EXCEPT ![s] = "reconcile"]
    /\ pending' = [pending EXCEPT ![s] =
          {r \in Requests : row[r].state \in {"SUBMITTED", "UNKNOWN"}} \ old]
    /\ UNCHANGED <<requestVars, storeVars, row, timeVars, provider, trail,
                   callVars, cur>>

ReconcileStart(s) ==
    /\ sweep[s] = "off"
    /\ sweep' = [sweep EXCEPT ![s] = "reconcile"]
    /\ pending' = [pending EXCEPT ![s] =
                      {r \in Requests : row[r].state = "UNKNOWN"} \ old]
    /\ UNCHANGED <<requestVars, storeVars, row, timeVars, provider, trail,
                   callVars, cur>>

\* Mutant: a 404 from the provider is left for the next call.
ReconcileAnswered_bug(s, r) ==
    /\ sweep[s] = "reconcile"
    /\ Idle(s)
    /\ r \in pending[s]
    /\ pending' = [pending EXCEPT ![s] = @ \ {r}]
    /\ cur' = [cur EXCEPT ![s] = r]
    /\ IF Charged(r) THEN CallSetState(s, "CONFIRMED")
                     ELSE UNCHANGED callVars
    /\ UNCHANGED <<requestVars, storeVars, row, timeVars, provider, trail,
                   sweep>>

\* GET /charges/{id} answered: 404, declined or confirmed.
ReconcileAnswered(s, r) ==
    /\ sweep[s] = "reconcile"
    /\ Idle(s)
    /\ r \in pending[s]
    /\ pending' = [pending EXCEPT ![s] = @ \ {r}]
    /\ cur' = [cur EXCEPT ![s] = r]
    /\ CallSetState(s, IF Charged(r) THEN "CONFIRMED" ELSE "FAILED")
    /\ UNCHANGED <<requestVars, storeVars, row, timeVars, provider, trail,
                   sweep>>

\* The query failed: still unknown, left to the next call.
ReconcileNoAnswer(s, r) ==
    /\ sweep[s] = "reconcile"
    /\ Idle(s)
    /\ r \in pending[s]
    /\ pending' = [pending EXCEPT ![s] = @ \ {r}]
    /\ UNCHANGED <<requestVars, storeVars, row, timeVars, provider, trail,
                   callVars, sweep, cur>>

ExpireStart(s) ==
    /\ sweep[s] = "reconcile"
    /\ Idle(s)
    /\ pending[s] = {}
    /\ sweep' = [sweep EXCEPT ![s] = "expire"]
    /\ pending' = [pending EXCEPT ![s] =
                      {r \in expired : /\ row[r].state = "AUTHORIZED"
                                       /\ row[r].token}]
    /\ UNCHANGED <<requestVars, storeVars, row, timeVars, provider, trail,
                   callVars, cur>>

ExpireOne(s, r) ==
    /\ sweep[s] = "expire"
    /\ Idle(s)
    /\ r \in pending[s]
    /\ pending' = [pending EXCEPT ![s] = @ \ {r}]
    /\ cur' = [cur EXCEPT ![s] = r]
    /\ CallSetState(s, "EXPIRED")
    /\ UNCHANGED <<requestVars, storeVars, row, timeVars, provider, trail,
                   sweep>>

SweepEnd(s) ==
    /\ sweep[s] = "expire"
    /\ Idle(s)
    /\ pending[s] = {}
    /\ sweep' = [sweep EXCEPT ![s] = "off"]
    /\ UNCHANGED <<requestVars, storeVars, row, timeVars, provider, trail,
                   callVars, pending, cur>>

-----------------------------------------------------------------------------
(***************************************************************************)
(* Time and failures.                                                      *)
(***************************************************************************)
InPipeline == {"check_idem", "check_fp", "decide", "persist", "authorization",
               "authorize", "submit", "post", "await", "to_unknown",
               "decision_audit", "remember_idem", "remember_fp"}

Finished(r) == pc[r] \in {"done", "crashed"}

TokenExpires(r) ==
    /\ row[r].token
    /\ r \notin expired
    /\ Finished(r) \/ "token_expiry" \in Faults
    /\ expired' = expired \cup {r}
    /\ UNCHANGED <<requestVars, storeVars, row, old, provider, trail,
                   callVars, sweepVars>>

RowAges(r) ==
    /\ "ageing" \in Faults
    /\ HasRow(r)
    /\ r \notin old
    /\ old' = old \cup {r}
    /\ UNCHANGED <<requestVars, storeVars, row, expired, provider, trail,
                   callVars, sweepVars>>

IdemExpires(k) ==
    /\ "forget" \in Faults
    /\ idem[k].pa # None
    /\ idem' = [idem EXCEPT ![k] = NoRecord]
    /\ UNCHANGED <<requestVars, idemLock, fpLock, fp, velocity, parked, row,
                   timeVars, provider, trail, callVars, sweepVars>>

\* The TTL of a lock whose holder died, or is slower than the TTL.
MayLapse(holder) ==
    /\ holder # None
    /\ pc[holder] = "crashed" \/ "lock_expiry" \in Faults

IdemLockLapses(k) ==
    /\ MayLapse(idemLock[k])
    /\ idemLock' = [idemLock EXCEPT ![k] = None]
    /\ UNCHANGED <<requestVars, fpLock, idem, fp, velocity, parked, row,
                   timeVars, provider, trail, callVars, sweepVars>>

FpLockLapses(f) ==
    /\ MayLapse(fpLock[f])
    /\ fpLock' = [fpLock EXCEPT ![f] = None]
    /\ UNCHANGED <<requestVars, idemLock, idem, fp, velocity, parked, row,
                   timeVars, provider, trail, callVars, sweepVars>>

\* An await of the pipeline raises (Redis, Postgres, an unreadable body): the
\* exception handler answers 500 BLOCK once the locks are released.
Outage(r) ==
    /\ "outage" \in Faults
    /\ pc[r] \in InPipeline
    /\ phase[r] \in {"idle", "read", "commit"}
    /\ Return(r, Refusal("error", r))
    /\ phase' = [phase EXCEPT ![r] = "idle"]
    /\ UNCHANGED <<verdict, conflict, rstate, storeVars, row, timeVars,
                   provider, trail, target, sweepVars>>

\* The process serving the request dies: no answer, nothing released.
Crash(r) ==
    /\ "crash" \in Faults
    /\ pc[r] \notin {"new", "done", "crashed"}
    /\ Goto(r, "crashed")
    /\ phase' = [phase EXCEPT ![r] = "idle"]
    /\ UNCHANGED <<verdict, conflict, rstate, answer, storeVars, row,
                   timeVars, provider, trail, target, sweepVars>>

SweepCrash(s) ==
    /\ "sweep_crash" \in Faults
    /\ sweep[s] # "off"
    /\ sweep' = [sweep EXCEPT ![s] = "off"]
    /\ pending' = [pending EXCEPT ![s] = {}]
    /\ phase' = [phase EXCEPT ![s] = "idle"]
    /\ UNCHANGED <<requestVars, storeVars, row, timeVars, provider, trail,
                   target, cur>>

-----------------------------------------------------------------------------
RequestStep(r) ==
    \/ Arrive(r) \/ BlockedBeforePipeline(r)
    \/ AcquireIdem(r) \/ AcquireFp(r) \/ LockTimeout(r) \/ Release(r)
    \/ Replay(r) \/ KeyConflict(r) \/ NewKey(r) \/ CheckFingerprint(r)
    \/ Decide(r) \/ Persist(r) \/ PersistRefused(r)
    \/ Block(r) \/ RequireApproval(r) \/ RecordVelocity(r) \/ Authorize(r)
    \/ Submit(r) \/ PostCharge(r)
    \/ ProviderAnswers(r) \/ ProviderTimeout(r) \/ TimeoutToUnknown(r)
    \/ AuditDecision(r) \/ RememberIdem(r) \/ RememberFp(r)
    \/ SetStateRaisesInRequest(r)

SetStateStep(p) == SetStateRead(p) \/ SetStateCommit(p) \/ SetStateAudit(p)

SweepStep(s) ==
    \/ ReconcileStart(s) \/ ExpireStart(s) \/ SweepEnd(s)
    \/ SetStateRaisesInSweep(s)
    \/ \E r \in Requests :
          ReconcileAnswered(s, r) \/ ReconcileNoAnswer(s, r) \/ ExpireOne(s, r)

Environment ==
    \/ \E r \in Requests : TokenExpires(r) \/ RowAges(r) \/ Outage(r) \/ Crash(r)
    \/ \E s \in Sweepers : SweepCrash(s)
    \/ \E k \in Keys : IdemExpires(k) \/ IdemLockLapses(k)
    \/ \E f \in Fingerprints : FpLockLapses(f)

Next ==
    \/ \E r \in Requests : RequestStep(r) \/ CreateCharge(r)
    \/ \E p \in Procs : SetStateStep(p)
    \/ \E s \in Sweepers : SweepStep(s)
    \/ Environment

Spec == Init /\ [][Next]_vars

(***************************************************************************)
(* The gateway's event loop runs every request it accepted, so a request   *)
(* that can move does.  Nothing in the code calls /v1/reconcile: an        *)
(* operator who keeps calling it, and a provider whose query endpoint is   *)
(* not down for good, are assumptions on the environment.                  *)
(***************************************************************************)
ReconcileQuery(s) == \E r \in Requests : ReconcileAnswered(s, r)

Fairness ==
    /\ \A r \in Requests : WF_vars(RequestStep(r) \/ SetStateStep(r))
    /\ \A s \in Sweepers : /\ WF_vars(SweepStep(s) \/ SetStateStep(s))
                            /\ SF_vars(ReconcileQuery(s))

FairSpec == Spec /\ Fairness

-----------------------------------------------------------------------------
Labels == {"new", "lock_idem", "lock_fp", "release", "done", "crashed"}
              \cup InPipeline

Events == PaymentState \cup Decisions \cup {"IDEMPOTENT_REPLAY"}

Maybe(S) == S \cup {"none"}

AnswerType ==
    [kind: {"none", "blocked", "inflight", "error", "decision", "replay"},
     decision: Maybe(Decisions), state: Maybe(PaymentState),
     pa: Requests \cup {None}]

RecordType ==
    [pa: Requests \cup {None},
     payload: {PayloadOf[r] : r \in Requests} \cup {None},
     decision: Maybe(Decisions), state: Maybe(PaymentState)]

RowType ==
    [decision: Maybe(Decisions), state: Maybe(PaymentState),
     uses: 0..1, token: BOOLEAN]

\* Every variable has the shape the code gives it.
TypeOK ==
    /\ pc \in [Requests -> Labels]
    /\ verdict \in [Requests -> Maybe(Decisions)]
    /\ conflict \in [Requests -> BOOLEAN]
    /\ rstate \in [Requests -> Maybe(PaymentState)]
    /\ answer \in [Requests -> AnswerType]
    /\ idemLock \in [Keys -> Requests \cup {None}]
    /\ fpLock \in [Fingerprints -> Requests \cup {None}]
    /\ idem \in [Keys -> RecordType]
    /\ fp \in [Fingerprints -> Requests \cup {None}]
    /\ row \in [Requests -> RowType]
    /\ velocity \subseteq Requests
    /\ parked \subseteq Requests
    /\ expired \subseteq Requests
    /\ old \subseteq Requests
    /\ provider \in [Requests -> {"none", "sent", "lost", "refused",
                                   "declined", "confirmed"}]
    /\ trail \subseteq Requests \X Events
    /\ phase \in [Procs -> {"idle", "read", "commit", "audit"}]
    /\ target \in [Procs -> Maybe(PaymentState)]
    /\ sweep \in [Sweepers -> {"off", "reconcile", "expire"}]
    /\ pending \in [Sweepers -> SUBSET Requests]
    /\ cur \in [Sweepers -> Requests \cup {None}]

\* However locks, processes, stores and the audit log fail, and however late
\* the provider acts, one idempotency key is charged at most once: the unique
\* index on transactions stands behind the lock and the stored response.
OneChargePerKey ==
    \A r, q \in Requests :
        Charged(r) /\ Charged(q) /\ KeyOf[r] = KeyOf[q] => r = q

\* Two requests for one cart in one window, under any two keys, are never
\* both charged: what the fingerprint lock and the fingerprint slot are for.
OneChargePerFingerprint ==
    \A r, q \in Requests :
        Charged(r) /\ Charged(q) /\ FpOf[r] = FpOf[q] => r = q

SETTLED_STATES == {"AUTHORIZED", "SUBMITTED", "CONFIRMED", "TIMEOUT",
                   "UNKNOWN"}

\* Money that left is seen by the next policy check: a charged authorization
\* stays in a state that load_context sums into spent_today and its use is in
\* the velocity window, whatever reconciliation and expiry do to its row.
ChargedCountsAsSpent ==
    \A r \in Requests :
        Charged(r) => row[r].state \in SETTLED_STATES /\ r \in velocity

\* CONFIRMED, in a row or in an answer (a replayed one included), is never
\* reported for an authorization the provider did not charge.
ConfirmedIsReal ==
    \A r \in Requests :
        /\ row[r].state = "CONFIRMED" => Charged(r)
        /\ answer[r].state = "CONFIRMED" => Charged(answer[r].pa)

\* A client that is told BLOCK has not been charged for that request.
BlockedMeansNotCharged ==
    \A r \in Requests :
        pc[r] = "done" /\ answer[r].decision = "BLOCK" => ~Charged(r)

\* A replayed answer is the answer the original request under the same key
\* and payload computed, and replaying it leaves no trace at the provider or
\* in the transactions table.
ReplayIsFaithful ==
    \A r \in Requests : answer[r].kind = "replay" =>
        LET q == answer[r].pa IN
        /\ KeyOf[q] = KeyOf[r] /\ PayloadOf[q] = PayloadOf[r]
        /\ answer[r].decision = verdict[q] /\ answer[r].state = rstate[q]
        /\ ~HasRow(r) /\ provider[r] = "none"

PathTo ==
    [AUTHORIZED |-> {"AUTHORIZED"},
     CONFIRMED  |-> {"AUTHORIZED", "SUBMITTED", "CONFIRMED"},
     FAILED     |-> {"AUTHORIZED", "SUBMITTED", "FAILED"},
     UNKNOWN    |-> {"AUTHORIZED", "SUBMITTED", "TIMEOUT", "UNKNOWN"}]

\* An ALLOW the client gets to see has every transition it went through in
\* the audit log, even when audit writes fail: set_state lets the exception
\* through, so an unaudited payment is never answered with its outcome.
AnsweredAllowIsAudited ==
    \A r \in Requests :
        answer[r].kind = "decision" /\ answer[r].decision = "ALLOW" =>
            \A st \in PathTo[answer[r].state] : <<r, st>> \in trail

\* An attempt parked for approval does not stand in the way of its approved
\* retry: same key, same payload, allowed by the PDP.
ParkedAdmitsApprovedRetry ==
    \A r, q \in Requests :
        /\ q \in parked /\ KeyOf[q] = KeyOf[r] /\ PayloadOf[q] = PayloadOf[r]
        /\ verdict[r] = "ALLOW"
        => answer[r].kind # "error"

\* What the client of a request has been told, once it has been answered.  The
\* in-flight and the 500 answers are mapped to "open": they can follow a charge.
Told(r) ==
    IF pc[r] # "done" THEN "nothing"
    ELSE IF answer[r].kind \in {"inflight", "error"} THEN "open"
    ELSE IF answer[r].state = "CONFIRMED" THEN "confirmed"
    ELSE IF answer[r].state = "FAILED" THEN "not_charged"
    ELSE "open"

Ledger == INSTANCE PaymentLedger WITH
              charged <- {r \in Requests : Charged(r)},
              told <- [r \in Requests |-> Told(r)]

\* The gateway implements the ledger: money leaves once per key, and an answer
\* that states an outcome is true when given and stays true.
ImplementsLedger == Ledger!LedgerSpec

\* The state a row holds moves only along VALID_TRANSITIONS, whoever commits.
OnlyValidTransitions ==
    [][\A r \in Requests :
          row'[r].state # row[r].state =>
              IF row[r].state = "none" THEN row'[r].state = "CREATED"
              ELSE row'[r].state \in VALID_TRANSITIONS[row[r].state]]_row

\* A request whose own process lives is answered, even when the holder of the
\* lock it waits for died: the fixed lock order and the bounded polling leave
\* nobody waiting for ever.
EveryRequestAnswered ==
    \A r \in Requests : <>(pc[r] \in {"done", "crashed"})

\* A payment left UNKNOWN is resolved by a later reconciliation.
UnknownIsResolved ==
    \A r \in Requests :
        row[r].state = "UNKNOWN" ~> row[r].state \in {"CONFIRMED", "FAILED"}

\* A payment handed to the provider does not stay undecided: it is confirmed
\* or failed by the pipeline, or becomes UNKNOWN and is then reconciled.
SubmittedIsResolved ==
    \A r \in Requests :
        row[r].state = "SUBMITTED" ~> row[r].state \in {"CONFIRMED", "FAILED"}
=============================================================================
