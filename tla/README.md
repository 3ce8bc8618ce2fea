# AgentPay Sentinel: TLA+ verification project

AgentPay Sentinel stands between AI shopping agents and a payment provider. An
agent sends a payment intent; the gateway checks who is asking, whether the
content looks injected, what the user's policy allows, and only then issues a
single-use token and (if asked) charges the provider. This directory holds TLA+
models of the gateway and of the services around it, with the weight on what an
unlucky order of steps can do: concurrent retries, lapsing locks, lost answers,
processes that die, sweeps that race requests, limits that are checked before
they are charged, revocations kept in two stores, a hash-chained audit log with
concurrent writers, and a human who taps Approve twice.

Contents: inventory, plan, modules, runs, bounds and fairness, proofs, findings,
what is left out.

## 1. Inventory

| Component (source) | State it keeps | Operations | Talks to |
|---|---|---|---|
| Payment pipeline (`gateway/routes/payments.py`, `gateway/payments.py`) | `transactions` rows with their state machine; per-request locals | `create_payment_intent`, `check_duplicate`, `persist_transaction`, `set_state`, `authorize`, `submit`, `remember_outcome` | all below, under two Redis locks |
| Reconciliation and expiry (`gateway/payments.py`, `POST /v1/reconcile`) | none of its own; snapshots of rows | `reconcile_unknown`, `expire_stale_authorizations` | the same rows, the provider's query endpoint |
| Stores (`gateway/store.py`, `gateway/db.py`) | locks with TTL, idempotency and fingerprint records, velocity windows, revocation set; SQL sessions | `set_nx`, `get`, `set`, window counters, `session_scope` | Redis, Postgres |
| Provider (`mock_provider/main.py`) | charges by authorization id | `create_charge`, `get_charge` | called by `submit` and reconciliation |
| Audit log (`gateway/audit.py`) and checkpoints (`gateway/checkpoint.py`) | `audit_events` (hash chain), `audit_checkpoints` in an independent database | `record_event`, `verify_chain`, `chain_head`, `anchor_checkpoint`, `verify_against_checkpoints` | every state change writes an event |
| Policy decision point (`gateway/pdp.py`, `policies/*.rego`) | none | a decision from the evidence, BLOCK when unreachable | OPA |
| Policy context (`gateway/context.py`) | velocity windows; reads policies, merchants, agents, spend | `load_context`, `record_velocity` | Postgres, Redis |
| Analyzer (`gateway/analyzer/*`) and risk engine (`gateway/risk.py`) | the classifier's circuit breaker | `classify`, `combine`, `assess` | the hosted classifier |
| Identity (`gateway/identity.py`), edge rate limit (`gateway/ratelimit.py`) | request windows | `authenticate`, `assert_not_revoked`, `enforce_edge_rate_limit` | the revocation set |
| Approvals and tokens (`gateway/approvals.py`, `gateway/tokens.py`) | parked approval requests | `create_request`, `grant`, `evaluate_token`, issue and verify | pipeline, PDP |
| Control plane (`control_plane/*`) | agents, policies, merchants, admin audit, the revocation set, Telegram links | upserts, revoke, reinstate, mint, link | Postgres and Redis, not atomically |
| Event relay (`apps/event-relay`) | subscribers with bounded queues, replay buffer | `_fan_out`, `_serve` | Redis pub/sub |
| Agent simulator (`apps/agent-simulator`) | runs and their graph state | `start_run`, `approve_and_resume` | gateway |
| Telegram bot, web console, scripts | presentation | | the services above |

What is hard here, and what correctness means for each:

* **Pipeline.** Requests interleave at every `await`; locks have fixed TTLs and
  are not renewed; the provider may charge and not answer; the process may die
  anywhere; every audit write may raise. Correct means: one charge per
  idempotency key and per cart, nobody is told an outcome that is not true, a
  replay is the original answer, what was charged counts against the limits, and
  every request gets an answer.
* **Reconciliation and expiry.** They write the rows the pipeline writes, from
  snapshots, without row locks. Correct means: rows move only along
  `VALID_TRANSITIONS`, an UNKNOWN payment is eventually decided and decided
  truthfully.
* **Audit log.** Writers race for the head of the chain. Correct means: no fork,
  a returned hash stands, and an untouched log never looks altered.
* **Limits and delegations.** `load_context` reads six things one after the other,
  the control plane writes two stores one after the other, and nothing is locked
  in between. Correct means: a revocation that stands blocks, whatever interleaved
  or died; the daily, hourly and per-minute limits are overshot only by requests
  that really raced; nothing a machine could not vouch for is allowed without a
  human.
* **Approvals and agent runs.** A run pauses for a human; nothing locks a run, and
  every resubmission has a fresh idempotency key. Correct means: approving twice
  charges once, what the bot says of a refusal is true, and the human decides
  about the cart that is shown.
* **Account linking.** Sessions read rows and commit later. Correct means: a
  Telegram id acts for the account whose code it redeemed last, never for one it was
  unlinked from since, and codes are single-use.
* **Classifier and paraphrase scan.** Correct means: the breaker opens only when
  earned and closes again, a confidence is in range whatever the model sends, and
  the two-pointer window answers what its definition says.
* **Events and relay.** Publishing tasks overtake each other and are lost, queues
  overflow. Correct means: the console never draws a stopped request as one that
  went through, a late tab sees no gap, and drops are reported.

`PROJECT.json` lists the components, and under `hazards` each such spot at its
line, with the properties that cover it or the reason why none does.

## 2. Plan

The order the project was built in: `PaymentGateway` with `PaymentLedger` as its
abstract specification; `AuditChain`; `PolicyDecision` and, over it, `Admission`
(limits, revocation, approvals as the policy sees them); `AgentRun` (approvals as
the human and the agent see them); then the small machines `EdgeRateLimit`,
`CircuitBreaker`, `TelegramLinking`, `StageEvents`, `EventRelay` and
`SimilarityScan`.

`AuditHistory`, the abstract specification of the audit log, and `ServicesProofs`,
the composition of the small machines, came last. What is left: `AgentRun` over the
full `PaymentGateway`, with its idempotency records and rows, instead of the steps of
a submission that an agent run can tell apart.

## 3. Modules

| Module | What it is |
|---|---|
| `PaymentLedger` | abstract specification: money leaves once per key; what is told is true and stays true |
| `PaymentGateway` | the payment path, reconciliation, expiry, stores and provider |
| `PaymentGatewayProofs` | theorems about `PaymentGateway` |
| `MCPaymentGateway` | shapes of small instances (single, retry, rival, trio) |
| `AuditHistory` | abstract specification: one history that only grows; who is answered or anchors learns a moment of it |
| `AuditChain` | `record_event`, `verify_chain`, `chain_head`, checkpoints |
| `AuditChainProofs` | theorems about `AuditChain` |
| `MCAuditChain` | small instance and the writers' symmetry |
| `PolicyDecision` | the analyzer's arithmetic, the risk engine, the PDP's input and every Rego package, as functions |
| `Admission` | control plane against `authenticate`, `load_context`, decision and authorization; uses `PolicyDecision` |
| `AdmissionProofs` | theorems about `Admission` and about the functions of `PolicyDecision` |
| `MCAdmission` | amounts, content, policy terms and casts of the small instance |
| `EdgeRateLimit` | requests per minute in front of the pipeline |
| `CircuitBreaker` | `classify` and its breaker |
| `TelegramLinking` | link codes and links |
| `StageEvents` | the pipeline's stage events and the console's reduction of them |
| `EventRelay` | the relay's pump and one browser tab |
| `SimilarityScan` | the paraphrase detector's window; uses `PolicyDecision` |
| `AgentRun` | agent runs, approval, the bot |
| `MCServices` | the seven modules above (from `EdgeRateLimit` on) side by side |
| `TelegramLinkingProofs`, `AgentRunProofs` | theorems about these modules |
| `AnalyzerProofs` | theorems about `CircuitBreaker` and `SimilarityScan` |
| `EventProofs` | theorems about `StageEvents` and `EventRelay` |
| `ServicesProofs` | theorems about `EdgeRateLimit` and about the composition `MCServices` |

Names that end in `_bug` are plausible slips of the code, kept beside the
definition they would replace; each makes the property it was written for fail.

### PaymentGateway

A request is one call of `create_payment_intent`. It draws its own authorization
id, so request, row and authorization share a name. A sweeper is one caller of
`/v1/reconcile`. An action is what runs between two awaits that touch shared
state.

| State | Code |
|---|---|
| `pc`, `verdict`, `conflict`, `rstate`, `answer` | locals of `create_payment_intent` and `_run_pipeline`; `rstate` is `response.state` |
| `idemLock`, `fpLock` | the Redis keys of the two `DistributedLock`s, holding the token of the request that set them |
| `idem`, `fp`, `velocity`, `parked` | `agentpay:idem:*`, `agentpay:fp:*`, `agentpay:velocity:*`, `agentpay:approval:*` |
| `row` | `transactions`: decision, state, uses of the token, token issued |
| `expired`, `old` | clocks: tokens past their TTL, rows past the reconciliation cutoff |
| `provider` | what became of the charge request: on its way, lost, refused, declined, confirmed |
| `trail` | the audit events written about each authorization |
| `phase`, `target` | progress of the `set_state` call a process is in: read, commit, audit |
| `sweep`, `pending`, `cur` | a sweeper's place, snapshot and current row |

`set_state` is a small procedure with three steps (`SetStateRead`,
`SetStateCommit`, `SetStateAudit`) because the code holds no row lock between the
read that validates a transition and the commit; a caller starts it with
`CallSetState` and goes on when it is `Idle`. Exceptions leave it through
`SetStateRaisesInRequest` (500 BLOCK, or the in-flight BLOCK when the exception is
the audit lock's `TimeoutError`) and `SetStateRaisesInSweep`.

Analyzer, risk engine and PDP are one step, `Decide`: a duplicate is blocked,
anything else may get any decision, which includes the BLOCK of an unreachable
PDP. Identity and the edge limit are `BlockedBeforePipeline` or `Arrive`.
One user is modelled: every shared key of the code carries the user id, so
different users share nothing here.

The provider (`CreateCharge`) refuses expired tokens and otherwise confirms,
declines, errors or hangs, which is what the mock's behaviours can do.

`Faults` selects what may go wrong, so that each run says what it depends on:

| Fault | In the code |
|---|---|
| `lock_expiry` | a critical section outlives the 10 s or 15 s TTL of its lock |
| `token_expiry` | a pipeline outlives the 300 s TTL of its token |
| `audit` | an audit write raises |
| `outage` | any other await of the pipeline raises |
| `crash`, `sweep_crash` | the process of a request or of a reconciliation dies |
| `late` | the provider processes a charge after the gateway gave up waiting |
| `ageing` | a row gets older than the reconciliation cutoff |
| `forget` | the idempotency record reaches its TTL |

### AuditChain

A writer is one call of `record_event` and names its event. SHA-256 is assumed
free of collisions, so a hash is modelled as the sequence of events it commits
to: `compute_hash` appends, and `Valid` recomputes every link as `verify_chain`
does. `Acquire`, `ReadHead`, `Commit`, `Release` follow the lock and the database
session; `Rollback` and `CommitUnacknowledged` are the two ways a commit can
raise. An auditor runs `GET /v1/audit/verify` or `POST /v1/audit/checkpoint`;
`chain_head` issues two statements (`CountEvents`, `ReadChainHead`), between
which a READ COMMITTED session sees new events. No action
tampers: what the runs ask is whether the log's own machinery ever looks like
tampering. What a log that somebody did rewrite looks like to an audit is a theorem
instead (`RewritesAreNoticed`, section 6), which quantifies over every log.

`AuditHistory` is what all this amounts to for a caller: `Record` adds an event nobody
recorded before, `Answer` tells a caller the history up to its event, `Anchor` keeps a
count and the history at some moment not before it. `AuditChain` refines it with the
head hash as the history, the receipts of finished writers as what was told, and the
checkpoints as they are.

### PolicyDecision

Functions only, one per function or rule of the code and under its name: `combine`,
`injection_prior`, the five risk scores, `assess`, `build_input`, each package's
`deny` and `require_approval`, `approval_satisfied` and `decision`. Scores and
confidences are integers in thousandths, because the code rounds them to three
decimals; the power 1.5 of `budget_anomaly_score` is an integer root. `decision` is
Rego's complete rule: the set of values its bodies give, BLOCK when there is none.

### Admission

| State | Code |
|---|---|
| `policy`, `agent`, `merchant`, `adminLog` | the control plane's tables, as the gateway reads them |
| `revoked` | the Redis set `agentpay:revoked_delegations` |
| `op` | one call of a mutating endpoint: read the row, commit it, write the set, log |
| `pc`, `seen`, `answer` | a request: what `load_context` has read so far, the decision and what it rested on |
| `state`, `velocity` | `transactions.state`; the hourly window |

`upsert_policy`, `revoke_delegation` and `reinstate_delegation` share the steps
`ReadPolicy`, `CommitPolicy`, `WriteRevocationSet`, `RecordAdminAction`, with a
crash (`OpDies`) possible after each. SQLAlchemy writes only a column that differs
from what was read; `RevokedColumn` keeps that, and an interleaved save can undo a
revocation because of it. A request goes through `Authenticate`, `LoadPolicy`,
`SumSpent`, `CountVelocity`, `Decide`, `RecordVelocity`, `Authorize`, `Conclude`;
`Decide` evaluates `PolicyDecision` on what was seen. Four history variables say
when a promise was made (`promised`, `mustBlock`) and who raced (`lateSpend`,
`lateCount`).

### The services

* `EdgeRateLimit`: a request checks two windows and then records itself in both,
  one store round trip each; `FailOpen` is the store raising at any of them.
* `CircuitBreaker`: `Classify` up to its await, then `TransportFailure` or
  `ApiAnswers`. Calls overlap; a call from before the breaker opened may end after.
* `TelegramLinking`: every endpoint is a session that reads, then commits or rolls
  back (`Rollback`). Deleting a row that is gone already is no error: the ORM only
  warns, and the commit goes through. Updating a row that is gone, or inserting a key
  that is taken, raises. `merge` flushes the code's `used_at` before it looks up the
  link, so a redemption has three steps (`RedeemRead`, `RedeemFlush`, `RedeemCommit`)
  and holds the code's row from the second on; whoever wants to write that row waits
  (`CodeLocked`). `dev_reset` is a session as well (`ResetRead`, `ResetCommit`), which
  holds the links it deleted until it has deleted the codes (`LinkLocked`).
* `StageEvents`: a handler that gets to its end has one of nine sequences of emissions
  (`Outcomes`: two refusals, a replay, and three decisions with an audit record that
  is written or fails). `HandlerRaises` ends a sequence wherever code that can raise
  lies between two events (`RaisesAfter`): authentication, locks, the insertion of the
  row, `set_state`, approval, token, provider. The tasks that publish are reordered
  and lost; `reducePipeline` is the console's fold.
* `EventRelay`: `FanOut` is atomic (`put_nowait`), the tab's task yields at each
  send, so events arrive while hello, replay, an event or a drop report is sent.
* `SimilarityScan`: one action is one turn of the loop in `_within_window`, from
  every placement of facet hits.
* `AgentRun`: `start_run` and `approve_and_resume` are threads; `CallTool`, `Receive`
  and `Unreachable` are a submission, its answer, and the answer lost. The gateway
  handles a submission in steps of its own (`handling`), which go on when the client
  has given up: `TurnedAway` (does not validate, identity, edge limit), `Decide` (the
  verdict under the fingerprint lock), `Submit` (the charge) and `Remember` (audit
  record, reservation of the fingerprint, release, answer). At each of them the handler
  may `Raise`, which answers BLOCK (`FailClosed`: `gateway/main.py:83`, or
  `routes/payments.py:193` for a `TimeoutError`) and may come after the charge and
  before the reservation, or `Die`; `Lapse` is the lock's TTL. An answer without a
  decision (`Undecided`) is the ERROR of `graph.py:280`. All threads of a run share
  `last`, the last gateway decision in the transcript, as `_decision_step` does. A live
  crew may use the payment tool by itself, a scripted one may not. `BucketPasses` moves
  the fingerprint window on, `RequestExpires` is the parked request's TTL.

## 4. Runs

Passing runs:

| Run | Instance | Shows |
|---|---|---|
| `GatewayRetry` | two attempts under one key and cart; faults `lock_expiry, audit, outage, crash, late, forget` | `TypeOK`; `OneChargePerKey`: the unique index holds when everything in front of it fails; `ConfirmedIsReal`: CONFIRMED in a row, an answer or a replay means a charge; `ReplayIsFaithful`; `AnsweredAllowIsAudited`: an ALLOW the client sees has its whole path in the audit log; `ImplementsLedger`: the refinement of `PaymentLedger` |
| `GatewayRival` | a cart under two keys, a key reused for another cart, one sweeper; fault `late` | `OneChargePerFingerprint`, `BlockedMeansNotCharged`, `OnlyValidTransitions` |
| `GatewaySweeps` | one request, two sweepers; faults `token_expiry, audit, crash, sweep_crash, ageing` | `ChargedCountsAsSpent`: whatever expiry and reconciliation do to a row, charged money stays in the daily sum and the velocity window |
| `GatewayProgress` | two attempts and a sweeper under fairness; fault `crash` | `EveryRequestAnswered`, `UnknownIsResolved` |
| `AuditChain` | three writers, a verifier, an anchorer; faults `outage, crash, anchor_outage` | `TypeOK`, `ChainIntact`, `ReceiptStands`, `AnchorsAreHistory`, `GrowthIsNotTampering`; `ImplementsHistory`: the refinement of `AuditHistory` |
| `Admission` | one user, agent and delegation; two control-plane calls against a request, one against two, or three carts racing | `TypeOK`; `RevocationHolds`: a revocation that stands blocks although its two stores are written apart; `DailyLimitHolds`, `VelocityLimitHolds`: only requests that raced overshoot; `NoUnreviewedRisk`: no ALLOW without a human for a degraded classifier, suspected injection or an amount at the threshold |
| `Services` | the seven small machines, one per behaviour | see below |

`Services` checks, by module:

| Module | Properties |
|---|---|
| `EdgeRateLimit` | `CeilingHolds`: a window exceeds its ceiling only by requests overtaken between check and record; `RejectedLeavesNoTrace` |
| `CircuitBreaker` | `OpenIsEarned`: open only after that many failures without a success among them; `BreakerCloses` (liveness) |
| `TelegramLinking` | `LinkIsCurrent`: an id is linked to the account it redeemed last and was not unlinked from since, although links are merged and deleted from earlier reads; `SingleUse` and `OnlyLatestWorks`, both up to sessions that overlapped |
| `StageEvents` | `BeamStops`: nothing beyond the stopping stage is drawn as passed, whatever is lost or reordered and wherever the handler raises; `ViewIsComplete`: with all emitted events there, nothing is drawn behind an open stage, and a handler that got to its end leaves none open |
| `EventRelay` | `NoGapAtJoin`: from its first replayed event on a tab misses nothing uncounted; `DropsAreReported`, up to drops during a report |
| `SimilarityScan` | `WindowIsExact`: the two pointers agree with the definition by representatives; `LoneMatchIsReviewed` |
| `AgentRun` | `OneChargePerWindow`: double taps and lost answers charge a cart once per fingerprint window, up to calls that left the fingerprint unguarded; `RefusalIsHonest`: what the bot says of a BLOCK is true, up to overlapping submissions, lost answers, a paying crew and the BLOCK for an exception; `ApprovesWhatIsShown` |
| all | `TypeOK` |

The components of `Services` share no state: what one uses of another is inside its
module. `MCServices` therefore sums them instead of multiplying them: `service`,
chosen in `Init`, says which one runs, the others stay in one initial state.

What a passing run leaves out of its faults is an assumption of its result. Three
of them matter, and adding the fault makes TLC show why:

* `OneChargePerFingerprint` needs locks that outlive their sections. With
  `lock_expiry`, a pipeline slower than the fingerprint lock lets a rival charge
  the same cart; no index stands behind the fingerprint as one does behind the
  key. The comment "one critical section" (`routes/payments.py:181`) holds only
  under that assumption.
* `ChargedCountsAsSpent` needs charges that are not processed late. With `late`, a
  404 to reconciliation turns the row FAILED and the charge follows.
* `UnknownIsResolved` needs rows within the cutoff. With `ageing`, an UNKNOWN row
  older than `max_age_minutes` is never selected again.

Runs that end in a violation, each of a statement the repository makes:

| Run | Statement | What the trace shows |
|---|---|---|
| `ApprovedRetry` | a REQUIRE_APPROVAL outcome "claims neither slot" (README.md:315) | the parked row holds the unique index's slot; the approved retry under the same key is answered 500 |
| `AuditAfterCharge` | the in-flight refusal means another request holds the lock (`routes/payments.py:194`) | the audit write after CONFIRMED raises; a charged client is told BLOCK |
| `StaleExpiry` | `VALID_TRANSITIONS` are "the only transitions that may ever happen" (`payments.py:43`) | expiry and submission read AUTHORIZED; the later commit overwrites the earlier |
| `CrashedSubmit` | UNKNOWN is the state for "we asked and never heard back" (README.md:298) | a process that dies waiting leaves SUBMITTED, which nothing resolves |
| `FalseAlarm` | appending after a checkpoint "is not a false alarm" (`checkpoint.py:147`) | a checkpoint of zero events is compared with the whole log, because `limit=0` means no limit |

Several properties name an exception in so many words (`raced`, `overtaken`,
`lateSpend`, `lateCount`, `mixed`, `loose`, `crowded`, `unheard`, `failClosed`,
`erased`). The exception is what the code does
and its comments do not say; dropping it makes TLC produce the trace. These are the
places, none of which has a run of its own:

* `analyzer/llm.py:38` promises one trial request after the cooldown; every caller is
  let through until one of them fails or succeeds.
* `control_plane/telegram.py`: two overlapping redemptions use one code, two
  overlapping issues leave two live codes (also when both delete the same old one), and
  a redemption that looked up its id's link before another redemption wrote it may leave
  the other account linked.
* `routes/payments.py:432`: the fingerprint is reserved after the charge and the audit
  record. A handler that raises or dies in between, or whose lock lapses, lets the next
  tap charge the cart again within the window.
* `event_relay/main.py:205`: the counter is reset after the report is sent, with the
  drops counted meanwhile.
* `telegram_bot/handlers.py:118` says "The provider was never contacted" of any
  BLOCK, also when a first answer was lost after a charge and the second tap met the
  fingerprint, and of the BLOCK for an exception, which may follow the charge (run
  `AuditAfterCharge` shows such an answer in the gateway); `handlers.py:138` and `graph.py:365` say paid and settled of any
  ALLOW, also of a declined or unknown charge; `handlers.py:58` shows the first cart
  of the transcript, which a live crew may have submitted by itself.
* `gateway/approvals.py:102`: an approval token is not consumed, so it charges again
  once the fingerprint's window has passed.
* `agent_simulator/sentinel.py:147`: `seed()` saves the policy at the start of every
  run and so reinstates a delegation an operator revoked.
* `gateway/context.py:112` and `:121`, `gateway/ratelimit.py:66`: limits are checked
  before they are charged; requests in between overshoot them together.

## 5. Bounds and fairness

Two or three requests are enough for every pairwise race (retry against retry,
rival against rival, a reused key between them): locks, records and index entries
relate two requests at a time, and the third in `GatewayRival` makes a key and a
fingerprint race meet. Two sweepers cover sweep against sweep. Requests are
single-shot: a retry is another request. In `AuditChain` three writers let a
rolled-back, an unacknowledged and a good write meet; `MaxAnchors` = 2 gives one
checkpoint to compare with and one laid after it. Locks are polled for ever in
the model until `LockTimeout` is taken, which stands for the bounded polling of
`DistributedLock`. `CHECK_DEADLOCK FALSE` appears where there is no sweeper, or every
writer and auditor may finish: such a system ends with everyone done or dead.

In `Admission`, `Casts` says which requests and calls a behaviour has: two calls and
a request (every order of two two-store writes against one reader), one call and two
requests, three requests alone. Amounts 40, 80, 40 under a daily limit of 120 fill
the limit exactly, or cross it by one payment; 80 is the approval threshold; two
payments fill the hourly window; one cart has suspicious content. The two calls are
symmetric. In `Services`: three callers on two windows with ceilings 2 and 1 and one
switched off; three classifications with a threshold and a cooldown of 2; four
linking sessions, so that two codes are issued and their redemptions, or a redemption
and an unlink, overlap; `MaxInAir` = 2 pending publications (any two neighbours swap) and
`MaxLost` = 2; five events over a queue of 1 and a buffer of 2, so that both
overflow; three facets on four positions with a window of 2; two runs and two taps
(`AgentCasts`: a scripted run with two taps, two scripted runs and a tap, or a live run
and a tap), one window change (`MaxBucket`) and one reset (`MaxResets`). Linking
sessions, and taps, differ in nothing but their names, so `SessionsInTurn` and
`TapsInTurn` keep of each class of renamed behaviours the one that uses them in turn. `MCPaymentGateway`'s bounds are
named in its cfg files. Threads, calls and sessions are single-shot, so these
systems end and their cfgs say `CHECK_DEADLOCK FALSE`.

Fairness of `MCServices`: weak fairness of `CooldownPasses` alone, which is that the
monotonic clock goes on. No call has to end for the breaker to close.

Fairness in `PaymentGateway`, in `FairSpec` only: weak fairness of each request's own steps and of
each sweeper's own steps, because an asyncio event loop runs every task that can
run. Two assumptions are about the environment and not the code: an operator
keeps calling `/v1/reconcile` (nothing in the repository schedules it), and the
provider's query endpoint is not down for good (strong fairness of
`ReconcileQuery`). Faults are never fair.

## 6. Proofs

### Payment gateway

`PaymentGatewayProofs`, for any number of requests, sweepers, keys and
fingerprints, from `InputsAssumption` (which key, fingerprint and flags a request
carries) and `ProcsAssumption` (requests and sweepers differ, `None` is not a
request). Six results hold under every set of faults:

* `TypeCorrect`: `Spec => []TypeOK`, by way of a stronger `TypeInv`.
* `ChargedOncePerKey`: `Spec => []OneChargePerKey`. The property is not inductive:
  `KeyInv` adds that the rows the partial index covers are unique per key, that a
  request in the ALLOW branch has an ALLOW row, and that nothing reaches the
  provider from anywhere else. Locks play no part, which is why every fault is
  allowed.
* `ConfirmationsAreReal`: `Spec => []ConfirmedIsReal`. `TruthInv` carries the
  truth of CONFIRMED through the places it passes: the target of a `set_state`
  call in flight (of a request or a sweeper), the response being built, the stored
  response and its replay; a charge at the provider is never undone.
* `GatewayImplementsLedger`: `Spec => ImplementsLedger`. Every step maps to a
  ledger step or a stutter; the invariant that makes it go through says that a
  request about to answer FAILED with a definite answer can no longer be charged,
  and one about to answer CONFIRMED shares its key with a charge.
* `ReplaysAreFaithful`: `Spec => []ReplayIsFaithful`. `BranchInv` says which
  `set_state` call a request can be in at each label and what it has decided by
  then; over it, `MemoInv` says that whoever is named in a stored response or in a
  replayed answer has finished answering with exactly that decision and state, for
  the same key and payload. A record is written after its request's last change of
  mind, so lapsed locks and expired records cannot mix two answers.
* `AllowsAreAudited`: `Spec => []AnsweredAllowIsAudited`. `TrailInv` ties the
  label a request has reached, the state its response carries and the answer it
  gave to the audit events already written. A failed audit write raises, so the
  request does not move on past it.

The others name the faults that break them, each of which TLC shows with a
counterexample (the violation runs of section 4, or the same run with that fault
added to its cfg):

* `ChargesAreCounted`: `[]ChargedCountsAsSpent` if `"late" \notin Faults`. A charge
  the provider makes after the gateway gave up on it may follow a reconciliation
  that found none and wrote FAILED. `SpentInv` says that a row whose charge is
  made, or can still be made, is in a state `load_context` sums (`RowsCount`), and
  that a sweeper holds FAILED or EXPIRED ready only for a row whose charge is
  settled against or whose token the provider will refuse (`SweepsCount`): the
  fact a sweeper learned stays true while other sweepers overtake it.
* `BlockedAreNotCharged`: `[]BlockedMeansNotCharged` if
  `Faults \cap {"audit", "outage"} = {}`. An await that raises after the charge is
  answered with a 500 BLOCK (run `AuditAfterCharge`), and so would be a transition
  that someone else's write made invalid. What remains to prove is that a charged
  request makes no such transition: `OrderInv` says that a sweeper touches a row only
  when its own request has no write ahead of it (`Quiet`) or when the token expired
  before a charge (not `Chargeable`: the provider refuses it), so any other request
  finds the row as it left it. Expired tokens, crashes, lapsed locks and late charges
  are allowed.
* `TransitionsAreValid`: `OnlyValidTransitions`, an action property, if tokens
  outlive pipelines (run `StaleExpiry` is the counterexample) and either no charge is
  late or one caller reconciles at a time. `CommitsInOrder` says that a sweeper
  about to commit finds the row in a state from which its target is valid, or
  already in the target; for that, two sweepers at the same row must agree
  (`SweepersAgree`), which the provider's settled answer guarantees.
* `ChargedOncePerFingerprint`: `[]OneChargePerFingerprint` if
  `Faults \cap {"lock_expiry", "crash", "audit", "outage"} = {}`.
  No database index stands behind the fingerprint: the lock must outlast the
  pipeline, and the pipeline must reach `remember_outcome`. `FpInv` says that who is
  in the pipeline holds the lock of its fingerprint, and that a request at or past
  the provider has reserved the slot, still holds the lock, or can no longer be
  charged because its token expired first. Expired tokens, late charges, ageing,
  forgotten idempotency records and dying sweepers are allowed.

### Audit log

`AuditChainProofs`, for any number of writers and auditors, from
`ChainAssumption` (`None` is not a writer; a call of `/verify` is not a call of
`/checkpoint`):

* `ChainTypeCorrect`: `Spec => []TypeOK`, under every fault.
* `ChainStaysIntact`, `ReceiptsStand`: `Spec => []ChainIntact` and
  `Spec => []ReceiptStands` when `"lock_expiry" \notin Faults`. `ChainInv` says
  that only the lock's holder is between read and release, that what it read is
  still the head of the log, that every stored hash is the history up to its
  event, that no event is written twice, and that receipts stand.
* `AnchorsStayHistory`: `Spec => []AnchorsAreHistory`, under every fault: the log
  only grows, so a head that was read stays the head of a prefix (`HistoryInv`,
  about what an auditor has read so far and about what was anchored).
* `GrowthNeverLooksLikeTampering`: `Spec => []GrowthIsNotTampering` when
  `"lock_expiry" \notin Faults`. `ReportsFit` says that a verification in progress or
  finished compared a valid prefix; `WholeMatches`, that such a prefix matches every
  anchor whose count and head belong together. The remaining anchors are the false
  alarms of run `FalseAlarm`.
* `ChainImplementsHistory`: `Spec => ImplementsHistory` when
  `"lock_expiry" \notin Faults`. A commit is a `Record` because the head read under the
  lock is still the head and the writer is not in the log; the answer comes with the
  release, steps later, and is an `Answer` because a receipt stands while others
  append (`ChainInv`, `ReceiptStands`); a checkpoint is an `Anchor` by `HistoryInv`.
* `RewritesAreNoticed`: `Spec => []TamperingShows` when `"lock_expiry" \notin Faults`.
  `verify_against_checkpoints` promises that "a consistent full-chain rewrite from
  genesis ... shows up here as a head mismatch" (`checkpoint.py:147`). The theorem
  takes any log at all in place of the stored one: if it passes the comparison with any
  checkpoint, it begins with the events that stood in the log when that checkpoint was
  laid, field by field, and has at least as many. A valid chain's head lists its events
  (`ValidListsEvents`, by the least position that would not fit), so a matching head
  fixes the beginning (`MatchFixesBeginning`), and equal beginnings have equal links
  (`SameBeginning`). What comes after the anchored events may still be replaced by
  whoever can write the table, and a checkpoint of zero events protects none. It rests
  on the hash being free of collisions.

### Admission

`AdmissionProofs`, for any number of requests, delegations and control-plane calls
and any policy terms, amounts, content and classifier verdicts, from
`AdmissionAssumption`:

* `AdmissionTypeCorrect`: `Spec => []TypeOK`.
* `RevocationAlwaysHolds`: `Spec => []RevocationHolds`. One of the two stores may miss
  a standing revocation: the set when the call died before writing it, the row when
  an interleaved save wrote it last. `AdmissionInv` therefore says, while a promise
  stands, that the row says revoked or the set has the delegation, and that no
  restoring call is in flight (`RevocationStands`); that a revocation which began
  alone has met no restoring call and read nothing that is now outdated
  (`RevokesAlone`); that a call between its read and its last write has a delegation
  to work on (`RowCalls`); and that a request which must block, once past the
  set, meets the row's revocation or has read it (`Guarded`), with two
  facts about what a request has read and answered so far (`SeenShape`,
  `FreshUnanswered`). Lemmas about the decision do the rest: its bodies exclude each
  other, ALLOW means no deny reason and no open review, a revoked policy is denied.
* `RiskIsAlwaysReviewed`: `Spec => []NoUnreviewedRisk`, by case analysis of the
  review rules.
* `VelocityLimitAlwaysHolds`: `Spec => []VelocityLimitHolds`. `VelocityInv` adds that
  a request about to be decided has counted at least what now counts against the
  limit (`CountStands`) and that an allowed one still has room (`RoomLeft`), unless
  another request was recorded in between; then it is in `lateCount`. The lemmas
  about the decision give that ALLOW implies a count below the limit.
* `DailyLimitAlwaysHolds`: `Spec => []DailyLimitHolds`, for any amounts. `Spent` folds
  a sum over the set of counting rows, and the library's induction principle for
  finite sets cannot be applied here (it takes an operator). The proof therefore
  counts instead of adding: `Total` is the cardinality of a set that has one element
  for every unit of money of every row, so that the theorems about finite
  cardinalities give its laws; and `SpentIsTotal` shows that the fold computes it, by
  taking a smallest set on which the two would differ. `SpendInv` is then the
  argument of `VelocityInv` with sums for counts: a request about to be decided has
  summed at least what is spent now (`SumStands`), an allowed one still fits
  (`FitsTheDay`), or it is in `lateSpend`.

The same module proves how a decision depends on the evidence, for every document
the gateway can send and not only those of `Admission`'s requests:

* `ClassifierOnlyRaises`: `combine` stays in range, grows with the classifier's
  confidence and never falls below the value without it: the deterministic layers
  are a floor, so a classifier that is talked into silence cannot lower what they
  found. `combine` takes the strongest of three layers and adds a bonus when two
  agree, then amplifies by the source's prior and rounds; each part is monotone
  (`LayersGrow`, `BaseGrows`, `CombineGrows`).
* `RiskScoreInRange`: the weighted score is within 0..100 whatever the transaction and
  its context, limits of zero and below included (`WellFormed` only asks for numbers),
  and grows with the confidence. The step that is not arithmetic is
  `budget_anomaly_score`: the rounded power 1.5 of a share exists and is a share
  (`PowerTyped`, by the largest candidate).
* `MoreEvidenceNeverLoosens`: over all six Rego packages, a document with no less
  confidence in any layer is decided at least as strictly. It is not a matter of adding
  up rules: two of them, the review of a suspected injection and the hand-over of a
  degraded classifier to a human, stop applying when confidence rises, and what has
  to be shown is that a stricter rule takes over at just that point.
* `ClassifierNeverTalksDown`: `Spec => []ClassifierNeverLoosens`, which is the above of
  every request in every reachable state of `Admission`; `SeenTyped` adds to the
  invariants that what `load_context` has read so far is always a well-formed context.
  A degraded classifier counts as confidence 0, so an outage is compared with an
  answer that found nothing. Against a verdict of high confidence an outage does
  loosen the decision, from a block to a human's review, which is the purpose of
  `degraded_classifier_requires_review`.

### The services

* `AnalyzerProofs`, the breaker, for any number of overlapping calls, any threshold
  and cooldown: `BreakerTypeCorrect` and `BreakerOpensOnlyWhenEarned`. The
  strengthening is that the counter never exceeds the failures since the last success.
* `AnalyzerProofs`, the paraphrase detector, for any number of facets, any finite set
  of positions and any window: `ScanTypeCorrect`, `WindowIsAlwaysExact` and
  `LoneMatchIsAlwaysReviewed`. `ScanInv` is the loop's invariant: the counts are the
  numbers of marks between the pointers, the left pointer is where the last window
  begins, and no window that ended so far had every facet. `Sorted` shows that `marks`
  lists every mark once and by position (ranks are a bijection), from which a turn
  drops a prefix. `CoveredIsExact` compares with the definition: representatives
  within the window exist just when the window that ends at the last of them has every
  facet.
* `ServicesProofs`, the edge limit, for any finite set of requests and any windows and ceilings:
  `CeilingAlwaysHolds` and `RejectedNeverCounted`. `CeilingHolds` is not inductive:
  `Room` adds that a request which passed its check and was not overtaken still has
  room, and `Counted` that nobody is in a window before its checks are over.
* `EventProofs`, the stage events, for any loss, any order of delivery and a handler
  that raises anywhere: `StageTypeCorrect`, `BeamAlwaysStops` and
  `ViewIsAlwaysComplete`. A stage is drawn as one of its received events has it, the
  last of them; so the two properties follow from which events are in the emissions of
  an outcome at all (`Permitted`), how each stage ends in them, and that an event comes
  only when the stages before its own are settled (`InOrder`, which gives the view
  without holes for every prefix). `Shows` joins the last two; all are shown part by
  part of the concatenation.
* `EventProofs`, the relay, for any queue size, buffer size and length of stream:
  `RelayTypeCorrect`, `DropsAlwaysReported` and `JoinsWithoutAGap`. `Holdings` says
  what a tab in each phase can hold; `Joined` says at every step what `NoGapAtJoin`
  says of the end: what the tab has been shown, is about to be shown or has been told
  it missed is everything it wants from its first event on.
* `TelegramLinkingProofs`, for any number of sessions, users and Telegram ids, resets
  among the sessions: `LinkingTypeCorrect`, `LinksAreCurrent`, `CodesAreSingleUse` and
  `OnlyTheLatestCodeWorks`. `CurrentInv` says that a redemption nobody crossed still
  finds the link it read, or none (`FoundStands`), and that an unlink or reset has
  among its rows every link it answers for, unless that was made after its read
  (`RowsComplete`). `RedeemInv` says that a code is issued once, that a redeemed code
  is never live again and that whoever still holds an earlier read of it counts as
  raced; `IssueInv`, that an issuer which nobody overtook saw every live code of its
  account, which is enough although deleting a row that is gone does not fail.
* `AgentRunProofs`, for any number of runs, taps and carts, live and scripted crews,
  handlers that raise or die and locks that lapse: `AgentTypeCorrect`;
  `ChargedOncePerWindow`; `ApprovesTheShownCart` and `RefusalsAreHonest`. The charge and
  the reservation are steps apart, so `WindowInv` follows a call that did not become
  `loose` from one to the other: it holds the lock of its fingerprint while it pays
  (`Guarded`), nobody else does (`OneHolder`), nothing was charged for the fingerprint
  when it is about to charge (`Fresh`), and afterwards the fingerprint is reserved or
  the same call is about to reserve it (`SlotsHeld`). The other two rest on `FlowInv`:
  what the stored run, a waiting tap and the thread in flight know of the shared
  transcript. `OneCart` adds that only the run's own cart travels once the graph paid
  first; `ChargesHeard`, that a charge is with the handler that will answer, or in the
  answer on its way, the transcript or the stored run, as an ALLOW or as the BLOCK for
  an exception (`Tells`).
* `ServicesProofs`, the composition: `ServicesRunApart` shows that a behaviour of
  `MCServices` is one of each of the seven services, which are stated alone; from it
  `ServicesTypeCorrect` (`Spec => []TypeOK`, the conjunction of the type invariants)
  and `ServicesStaySafe` (the fifteen safety properties of the run, together) carry
  the theorems about the services over to the specification the run checks.

### Only model-checked

Liveness (`EveryRequestAnswered`, `UnknownIsResolved`, `BreakerCloses`): fairness and
ENABLED are beyond the prover. Every other property of a passing run is stated by a
theorem. The properties of the violation runs are false of the code and have TLC's
counterexamples.

## 7. Not modelled

Text processing (regular expressions, tokenisation, shingles, prompt construction,
the classifier itself): its confidences are inputs. What language models write, and
the catalog. Canonicalisation and hashing of fields: a fingerprint and a payload
hash are constants of a request, and the fingerprint window is a counter in
`AgentRun`. Cryptography of tokens: a token is issued, expires and is bound. The web
console but for its reduction of events, the bot's commands and wording but for what
section 4 names, scripts, settings, health probes, read-only endpoints, the in-memory
store's expiry bookkeeping. Who could rewrite the audit log, and how: `RewritesAreNoticed` says what any
rewritten log looks like. `dev_reset`
clears the link tables in `TelegramLinking` and the run records in `AgentRun`; in
`PaymentGateway`, where it would clear every store, it is excluded as a development
aid.
