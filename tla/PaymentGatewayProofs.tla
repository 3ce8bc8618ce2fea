----------------------- MODULE PaymentGatewayProofs -----------------------
(***************************************************************************)
(* Theorems about PaymentGateway, for any requests, keys, sweepers and     *)
(* faults.                                                                 *)
(***************************************************************************)
EXTENDS PaymentGateway, TLAPS

-----------------------------------------------------------------------------
(***************************************************************************)
(* Type correctness.  TypeOK is not inductive: an audit event takes its    *)
(* name from the target of a set_state call and from the verdict, so the   *)
(* call in progress and the verdict of a decided request are typed too.    *)
(***************************************************************************)
CallsTyped ==
    \A p \in Procs : phase[p] # "idle" =>
        target[p] \in PaymentState /\ Pa(p) \in Requests

VerdictsTyped ==
    \A r \in Requests :
        pc[r] \in {"persist", "authorization", "authorize", "submit", "post",
                  "await", "to_unknown", "decision_audit", "remember_idem",
                  "remember_fp"}
            => verdict[r] \in Decisions

TypeInv == TypeOK /\ CallsTyped /\ VerdictsTyped

\* Every run starts with all variables of the declared shape.
LEMMA TypeInit == Init => TypeInv
  BY InputsAssumption, ProcsAssumption
     DEF Init, TypeInv, TypeOK, CallsTyped, VerdictsTyped, NoRow, NoRecord,
         NoAnswer, Labels, Maybe, Procs, RowType, AnswerType, RecordType,
         PaymentState, Decisions

\* The records the actions build have their types.
LEMMA RefusalTyped ==
    ASSUME NEW r \in Requests, NEW kind \in {"blocked", "inflight", "error"}
    PROVE  Refusal(kind, r) \in AnswerType
  BY DEF Refusal, AnswerType, Maybe, Decisions, PaymentState

LEMMA ResponseTyped ==
    ASSUME TypeOK, NEW r \in Requests
    PROVE  Response(r) \in AnswerType
  BY DEF TypeOK, Response, AnswerType, Maybe

LEMMA StateWriteTyped ==
    ASSUME NEW old_row \in RowType, NEW t \in PaymentState
    PROVE  [old_row EXCEPT !.state = t] \in RowType
  BY DEF RowType, Maybe

LEMMA TokenWriteTyped ==
    ASSUME NEW old_row \in RowType
    PROVE  [old_row EXCEPT !.token = TRUE] \in RowType
  BY DEF RowType, Maybe

LEMMA UseTyped ==
    ASSUME NEW old_row \in RowType, old_row.uses = 0
    PROVE  [old_row EXCEPT !.uses = @ + 1] \in RowType
  BY DEF RowType, Maybe

\* No step of a request, a sweep, the provider or a failure breaks the types.
LEMMA TypeStep == TypeInv /\ [Next]_vars => TypeInv'
  <1> SUFFICES ASSUME TypeInv, [Next]_vars PROVE TypeInv'
    OBVIOUS
  <1> USE InputsAssumption, ProcsAssumption
      DEF TypeInv, TypeOK, CallsTyped, VerdictsTyped, Labels, InPipeline,
          Events, Maybe, Procs, Pa, Decisions, PaymentState, requestVars,
          storeVars, timeVars, callVars, sweepVars
  <1>1. CASE UNCHANGED vars
    BY <1>1 DEF vars, Charged
  <1>2. ASSUME NEW r \in Requests, RequestStep(r)
        PROVE  TypeInv'
    <2>1. CASE Arrive(r)
      BY <2>1 DEF Arrive, Goto
    <2>2. CASE BlockedBeforePipeline(r)
      <3>1. answer' \in [Requests -> AnswerType]
        BY <2>2, RefusalTyped DEF BlockedBeforePipeline, Goto
      <3>2. TypeOK'
        BY <2>2, <3>1 DEF BlockedBeforePipeline, Goto
      <3>3. CallsTyped' /\ VerdictsTyped'
        BY <2>2 DEF BlockedBeforePipeline, Goto
      <3> QED
        BY <3>1, <3>2, <3>3
    <2>3. CASE AcquireIdem(r)
      BY <2>3 DEF AcquireIdem, Goto
    <2>4. CASE AcquireFp(r)
      BY <2>4 DEF AcquireFp, Goto
    <2>5. CASE LockTimeout(r)
      <3>1. answer' \in [Requests -> AnswerType]
        BY <2>5, RefusalTyped DEF LockTimeout, Return
      <3>2. TypeOK'
        BY <2>5, <3>1 DEF LockTimeout, Return
      <3>3. CallsTyped' /\ VerdictsTyped'
        BY <2>5 DEF LockTimeout, Return
      <3> QED
        BY <3>1, <3>2, <3>3
    <2>6. CASE Release(r)
      BY <2>6 DEF Release, Goto
    <2>7. CASE Replay(r)
      <3>1. answer' \in [Requests -> AnswerType]
        BY <2>7 DEF Replay, Return, AnswerType, RecordType
      <3>2. idem[KeyOf[r]].pa \in Requests
        BY <2>7 DEF Replay, Return, RecordType
      <3>3. TypeOK'
        BY <2>7, <3>1, <3>2 DEF Replay, Return
      <3>4. CallsTyped' /\ VerdictsTyped'
        BY <2>7 DEF Replay, Return
      <3> QED
        BY <3>1, <3>2, <3>3, <3>4
    <2>8. CASE KeyConflict(r)
      BY <2>8 DEF KeyConflict, Goto
    <2>9. CASE NewKey(r)
      BY <2>9 DEF NewKey, Goto
    <2>10. CASE CheckFingerprint(r)
      BY <2>10 DEF CheckFingerprint, Goto
    <2>11. CASE Decide(r)
      BY <2>11 DEF Decide, Verdicts, Goto
    <2>12. CASE Persist(r)
      <3>1. row' \in [Requests -> RowType]
        BY <2>12 DEF Persist, Goto, RowType
      <3>2. TypeOK'
        BY <2>12, <3>1 DEF Persist, Goto
      <3>3. CallsTyped' /\ VerdictsTyped'
        BY <2>12 DEF Persist, Goto
      <3> QED
        BY <3>1, <3>2, <3>3
    <2>13. CASE PersistRefused(r)
      <3>1. answer' \in [Requests -> AnswerType]
        BY <2>13, RefusalTyped DEF PersistRefused, Return
      <3>2. TypeOK'
        BY <2>13, <3>1 DEF PersistRefused, Return
      <3>3. CallsTyped' /\ VerdictsTyped'
        BY <2>13 DEF PersistRefused, Return
      <3> QED
        BY <3>1, <3>2, <3>3
    <2>14. CASE Block(r)
      BY <2>14 DEF Block, CallSetState, Goto
    <2>15. CASE RequireApproval(r)
      BY <2>15 DEF RequireApproval, Goto
    <2>16. CASE RecordVelocity(r)
      BY <2>16 DEF RecordVelocity, Goto
    <2>17. CASE Authorize(r)
      <3>1. row' \in [Requests -> RowType]
        BY <2>17, TokenWriteTyped DEF Authorize, CallSetState, Goto
      <3>2. TypeOK'
        BY <2>17, <3>1 DEF Authorize, CallSetState, Goto
      <3>3. CallsTyped' /\ VerdictsTyped'
        BY <2>17 DEF Authorize, CallSetState, Goto
      <3> QED
        BY <3>1, <3>2, <3>3
    <2>18. CASE Submit(r)
      <3>1. CASE row[r].uses >= 1
        <4>1. /\ pc' = [pc EXCEPT ![r] = "decision_audit"]
              /\ rstate' = [rstate EXCEPT ![r] = "FAILED"]
              /\ UNCHANGED <<verdict, conflict, answer, storeVars, row, timeVars,
                             provider, trail, callVars, sweepVars>>
          BY <2>18, <3>1 DEF Submit, Goto
        <4>2. TypeOK'
          BY <4>1
        <4>3. CallsTyped' /\ VerdictsTyped'
          BY <2>18, <4>1 DEF Submit
        <4> QED
          BY <4>2, <4>3
      <3>2. CASE ~(row[r].uses >= 1)
        <4>1. row[r].uses = 0
          BY <3>2 DEF RowType
        <4>2. row' \in [Requests -> RowType]
          BY <2>18, <3>2, <4>1, UseTyped DEF Submit, CallSetState, Goto
        <4>3. /\ pc' = [pc EXCEPT ![r] = "post"]
              /\ phase' = [phase EXCEPT ![r] = "read"]
              /\ target' = [target EXCEPT ![r] = "SUBMITTED"]
              /\ UNCHANGED <<verdict, conflict, rstate, answer, storeVars, timeVars,
                             provider, trail, sweepVars>>
          BY <2>18, <3>2 DEF Submit, CallSetState, Goto
        <4>4. TypeOK'
          BY <4>2, <4>3
        <4>5. CallsTyped' /\ VerdictsTyped'
          BY <2>18, <3>2 DEF Submit, CallSetState, Goto
        <4> QED
          BY <4>4, <4>5
      <3> QED
        BY <3>1, <3>2
    <2>19. CASE PostCharge(r)
      BY <2>19 DEF PostCharge, Goto
    <2>20. CASE ProviderAnswers(r)
      BY <2>20 DEF ProviderAnswers, CallSetState, Goto, Charged
    <2>21. CASE ProviderTimeout(r)
      <3>1. provider' \in [Requests -> {"none", "sent", "lost", "refused",
                                        "declined", "confirmed"}]
        BY <2>21 DEF ProviderTimeout
      <3>2. TypeOK'
        BY <2>21, <3>1 DEF ProviderTimeout, CallSetState, Goto
      <3>3. CallsTyped' /\ VerdictsTyped'
        BY <2>21 DEF ProviderTimeout, CallSetState, Goto
      <3> QED
        BY <3>2, <3>3
    <2>22. CASE TimeoutToUnknown(r)
      BY <2>22 DEF TimeoutToUnknown, CallSetState, Goto
    <2>23. CASE AuditDecision(r)
      <3>1. answer' \in [Requests -> AnswerType]
        BY <2>23, ResponseTyped DEF AuditDecision, Return, Goto
      <3>2. pc' \in [Requests -> Labels]
        BY <2>23 DEF AuditDecision, Return, Goto
      <3>3. trail' \subseteq Requests \X Events
        BY <2>23 DEF AuditDecision
      <3>4. TypeOK'
        BY <2>23, <3>1, <3>2, <3>3 DEF AuditDecision
      <3>5. CallsTyped' /\ VerdictsTyped'
        BY <2>23 DEF AuditDecision, Return, Goto
      <3> QED
        BY <3>4, <3>5
    <2>24. CASE RememberIdem(r)
      <3>1. answer' \in [Requests -> AnswerType]
        BY <2>24, ResponseTyped DEF RememberIdem, Return, Goto
      <3>2. idem' \in [Keys -> RecordType]
        BY <2>24 DEF RememberIdem, Return, Goto, RecordType
      <3>3. TypeOK'
        BY <2>24, <3>1, <3>2 DEF RememberIdem, Return, Goto
      <3>4. CallsTyped' /\ VerdictsTyped'
        BY <2>24 DEF RememberIdem, Return, Goto
      <3> QED
        BY <3>1, <3>2, <3>3, <3>4
    <2>25. CASE RememberFp(r)
      <3>1. answer' \in [Requests -> AnswerType]
        BY <2>25, ResponseTyped DEF RememberFp, Return, Goto
      <3>2. TypeOK'
        BY <2>25, <3>1 DEF RememberFp, Return, Goto
      <3>3. CallsTyped' /\ VerdictsTyped'
        BY <2>25 DEF RememberFp, Return, Goto
      <3> QED
        BY <3>1, <3>2, <3>3
    <2>26. CASE SetStateRaisesInRequest(r)
      <3>1. PICK kind \in {"error", "inflight"} : Return(r, Refusal(kind, r))
        BY <2>26 DEF SetStateRaisesInRequest
      <3>2. answer' \in [Requests -> AnswerType]
        BY <3>1, RefusalTyped DEF Return
      <3>3. TypeOK'
        BY <2>26, <3>1, <3>2 DEF SetStateRaisesInRequest, Return
      <3>4. CallsTyped' /\ VerdictsTyped'
        BY <2>26, <3>1 DEF SetStateRaisesInRequest, Return
      <3> QED
        BY <3>3, <3>4
    <2> QED
      BY <1>2, <2>1, <2>2, <2>3, <2>4, <2>5, <2>6, <2>7, <2>8, <2>9, <2>10,
         <2>11, <2>12, <2>13, <2>14, <2>15, <2>16, <2>17, <2>18, <2>19, <2>20,
         <2>21, <2>22, <2>23, <2>24, <2>25, <2>26 DEF RequestStep
  <1>3. ASSUME NEW r \in Requests, CreateCharge(r)
        PROVE  TypeInv'
    BY <1>3 DEF CreateCharge
  <1>4. ASSUME NEW p \in Procs, SetStateStep(p)
        PROVE  TypeInv'
    <2>1. CASE SetStateRead(p)
      BY <2>1 DEF SetStateRead
    <2>2. CASE SetStateCommit(p)
      <3>1. PICK q \in Requests : q = Pa(p)
        BY <2>2 DEF SetStateCommit
      <3>2. target[p] \in PaymentState
        BY <2>2 DEF SetStateCommit
      <3>3. row' = [row EXCEPT ![q] = [row[q] EXCEPT !.state = target[p]]]
        BY <2>2, <3>1 DEF SetStateCommit
      <3>4. row' \in [Requests -> RowType]
        <4>1. row[q] \in RowType
          BY <3>1
        <4>2. [row[q] EXCEPT !.state = target[p]] \in RowType
          BY <3>2, <4>1, StateWriteTyped
        <4> QED
          BY <3>1, <3>3, <4>2
      <3>5. TypeOK'
        BY <2>2, <3>4 DEF SetStateCommit
      <3>6. CallsTyped' /\ VerdictsTyped'
        BY <2>2 DEF SetStateCommit
      <3> QED
        BY <3>5, <3>6
    <2>3. CASE SetStateAudit(p)
      BY <2>3 DEF SetStateAudit
    <2> QED
      BY <1>4, <2>1, <2>2, <2>3 DEF SetStateStep
  <1>5. ASSUME NEW s \in Sweepers, SweepStep(s)
        PROVE  TypeInv'
    <2>1. CASE ReconcileStart(s)
      BY <2>1 DEF ReconcileStart
    <2>2. CASE ExpireStart(s)
      BY <2>2 DEF ExpireStart
    <2>3. CASE SweepEnd(s)
      BY <2>3 DEF SweepEnd
    <2>4. CASE SetStateRaisesInSweep(s)
      BY <2>4 DEF SetStateRaisesInSweep
    <2>5. ASSUME NEW r \in Requests,
                  ReconcileAnswered(s, r) \/ ReconcileNoAnswer(s, r) \/ ExpireOne(s, r)
           PROVE  TypeInv'
      <3>1. CASE ReconcileAnswered(s, r)
        BY <3>1 DEF ReconcileAnswered, CallSetState, Charged
      <3>2. CASE ReconcileNoAnswer(s, r)
        BY <3>2 DEF ReconcileNoAnswer
      <3>3. CASE ExpireOne(s, r)
        BY <3>3 DEF ExpireOne, CallSetState
      <3> QED
        BY <2>5, <3>1, <3>2, <3>3
    <2> QED
      BY <1>5, <2>1, <2>2, <2>3, <2>4, <2>5 DEF SweepStep
  <1>6. CASE Environment
    <2>1. ASSUME NEW r \in Requests,
                  TokenExpires(r) \/ RowAges(r) \/ Outage(r) \/ Crash(r)
           PROVE  TypeInv'
      <3>1. CASE TokenExpires(r)
        BY <3>1 DEF TokenExpires
      <3>2. CASE RowAges(r)
        BY <3>2 DEF RowAges
      <3>3. CASE Outage(r)
        <4>1. answer' \in [Requests -> AnswerType]
          BY <3>3, RefusalTyped DEF Outage, Return
        <4>2. TypeOK'
          BY <3>3, <4>1 DEF Outage, Return
        <4>3. CallsTyped' /\ VerdictsTyped'
          BY <3>3 DEF Outage, Return
        <4> QED
          BY <4>1, <4>2, <4>3
      <3>4. CASE Crash(r)
        BY <3>4 DEF Crash, Goto
      <3> QED
        BY <2>1, <3>1, <3>2, <3>3, <3>4
    <2>2. ASSUME NEW s \in Sweepers, SweepCrash(s)
           PROVE  TypeInv'
      BY <2>2 DEF SweepCrash
    <2>3. ASSUME NEW k \in Keys, IdemExpires(k) \/ IdemLockLapses(k)
           PROVE  TypeInv'
      <3>1. CASE IdemExpires(k)
        BY <3>1 DEF IdemExpires, NoRecord, RecordType
      <3>2. CASE IdemLockLapses(k)
        BY <3>2 DEF IdemLockLapses, MayLapse
      <3> QED
        BY <2>3, <3>1, <3>2
    <2>4. ASSUME NEW f \in Fingerprints, FpLockLapses(f)
           PROVE  TypeInv'
      BY <2>4 DEF FpLockLapses, MayLapse
    <2> QED
      BY <1>6, <2>1, <2>2, <2>3, <2>4 DEF Environment
  <1> QED
    BY <1>1, <1>2, <1>3, <1>4, <1>5, <1>6 DEF Next

\* The variables keep their types in every behaviour of the gateway.
THEOREM TypeCorrect == Spec => []TypeOK
  <1>1. Spec => []TypeInv
    BY TypeInit, TypeStep, PTL DEF Spec
  <1>2. TypeInv => TypeOK
    BY DEF TypeInv
  <1> QED
    BY <1>1, <1>2, PTL

-----------------------------------------------------------------------------
(***************************************************************************)
(* One charge per key.  The unique index is an invariant of the rows; a    *)
(* request reaches the provider only from a row that index admitted, which *)
(* has to be tracked along the labels of the pipeline.                     *)
(***************************************************************************)
Unposted == {"new", "lock_idem", "lock_fp", "check_idem", "check_fp",
             "decide", "persist", "authorization", "authorize", "submit",
             "post"}

AllowBranch == {"authorize", "submit", "post", "await", "to_unknown"}

Authorizable(r) == row[r].decision \in {"ALLOW", "REQUIRE_APPROVAL"}

KeyInv ==
    /\ \A r \in Requests : pc[r] \in Unposted => provider[r] = "none"
    /\ \A r \in Requests :
          pc[r] = "authorization" => row[r].decision = verdict[r]
    /\ \A r \in Requests : pc[r] \in AllowBranch => row[r].decision = "ALLOW"
    /\ \A r \in Requests : provider[r] # "none" => row[r].decision = "ALLOW"
    /\ \A r, q \in Requests :
          Authorizable(r) /\ Authorizable(q) /\ KeyOf[r] = KeyOf[q] => r = q

LEMMA KeyInit == Init => KeyInv
  BY DEF Init, KeyInv, Unposted, AllowBranch, Authorizable, NoRow

\* The partial unique index and the order of the pipeline keep KeyInv.
LEMMA KeyStep == TypeInv /\ KeyInv /\ [Next]_vars => KeyInv'
  <1> SUFFICES ASSUME TypeInv, KeyInv, [Next]_vars PROVE KeyInv'
    OBVIOUS
  <1> USE DEF TypeInv, TypeOK, KeyInv, Unposted, AllowBranch, Authorizable,
              requestVars, storeVars, timeVars, callVars, sweepVars
  <1>1. CASE UNCHANGED vars
    BY <1>1 DEF vars
  <1>2. ASSUME NEW r \in Requests, RequestStep(r)
        PROVE  KeyInv'
    <2>1. CASE Arrive(r)
      BY <2>1 DEF Arrive, Goto
    <2>2. CASE BlockedBeforePipeline(r)
      BY <2>2 DEF BlockedBeforePipeline, Goto
    <2>3. CASE AcquireIdem(r)
      BY <2>3 DEF AcquireIdem, Goto
    <2>4. CASE AcquireFp(r)
      BY <2>4 DEF AcquireFp, Goto
    <2>5. CASE LockTimeout(r)
      BY <2>5 DEF LockTimeout, Return
    <2>6. CASE Release(r)
      BY <2>6 DEF Release, Goto
    <2>7. CASE Replay(r)
      BY <2>7 DEF Replay, Return
    <2>8. CASE KeyConflict(r)
      BY <2>8 DEF KeyConflict, Goto
    <2>9. CASE NewKey(r)
      BY <2>9 DEF NewKey, Goto
    <2>10. CASE CheckFingerprint(r)
      BY <2>10 DEF CheckFingerprint, Goto
    <2>11. CASE Decide(r)
      BY <2>11 DEF Decide, Verdicts, Goto
    <2>12. CASE Persist(r)
      BY <2>12 DEF Persist, Goto, IndexAdmits, Labels
    <2>13. CASE PersistRefused(r)
      BY <2>13 DEF PersistRefused, Return
    <2>14. CASE Block(r)
      BY <2>14 DEF Block, CallSetState, Goto
    <2>15. CASE RequireApproval(r)
      BY <2>15 DEF RequireApproval, Goto
    <2>16. CASE RecordVelocity(r)
      BY <2>16 DEF RecordVelocity, Goto
    <2>17. CASE Authorize(r)
      BY <2>17 DEF Authorize, CallSetState, Goto, RowType
    <2>18. CASE Submit(r)
      <3>1. CASE row[r].uses >= 1
        BY <2>18, <3>1 DEF Submit, CallSetState, Goto, RowType
      <3>2. CASE ~(row[r].uses >= 1)
        <4>1. /\ pc[r] = "submit" /\ pc' = [pc EXCEPT ![r] = "post"]
              /\ row' = [row EXCEPT ![r] = [row[r] EXCEPT !.uses = @ + 1]]
              /\ UNCHANGED <<verdict, provider>>
          BY <2>18, <3>2 DEF Submit, Goto
        <4>2. \A q \in Requests : row'[q].decision = row[q].decision
          BY <4>1 DEF RowType
        <4> QED
          BY <4>1, <4>2
      <3> QED
        BY <3>1, <3>2
    <2>19. CASE PostCharge(r)
      BY <2>19 DEF PostCharge, Goto
    <2>20. CASE ProviderAnswers(r)
      BY <2>20 DEF ProviderAnswers, CallSetState, Goto
    <2>21. CASE ProviderTimeout(r)
      BY <2>21 DEF ProviderTimeout, CallSetState, Goto
    <2>22. CASE TimeoutToUnknown(r)
      BY <2>22 DEF TimeoutToUnknown, CallSetState, Goto
    <2>23. CASE AuditDecision(r)
      BY <2>23 DEF AuditDecision, Return, Goto
    <2>24. CASE RememberIdem(r)
      BY <2>24 DEF RememberIdem, Return, Goto
    <2>25. CASE RememberFp(r)
      BY <2>25 DEF RememberFp, Return, Goto
    <2>26. CASE SetStateRaisesInRequest(r)
      BY <2>26 DEF SetStateRaisesInRequest, Return
    <2> QED
      BY <1>2, <2>1, <2>2, <2>3, <2>4, <2>5, <2>6, <2>7, <2>8, <2>9, <2>10,
         <2>11, <2>12, <2>13, <2>14, <2>15, <2>16, <2>17, <2>18, <2>19, <2>20,
         <2>21, <2>22, <2>23, <2>24, <2>25, <2>26 DEF RequestStep
  <1>3. ASSUME NEW r \in Requests, CreateCharge(r)
        PROVE  KeyInv'
    BY <1>3 DEF CreateCharge
  <1>4. ASSUME NEW p \in Procs, SetStateStep(p)
        PROVE  KeyInv'
    <2>1. CASE SetStateRead(p)
      BY <2>1 DEF SetStateRead
    <2>2. CASE SetStateCommit(p)
      BY <2>2 DEF SetStateCommit, Pa, Procs, RowType
    <2>3. CASE SetStateAudit(p)
      BY <2>3 DEF SetStateAudit
    <2> QED
      BY <1>4, <2>1, <2>2, <2>3 DEF SetStateStep
  <1>5. ASSUME NEW s \in Sweepers, SweepStep(s)
        PROVE  KeyInv'
    <2>1. CASE ReconcileStart(s)
      BY <2>1 DEF ReconcileStart
    <2>2. CASE ExpireStart(s)
      BY <2>2 DEF ExpireStart
    <2>3. CASE SweepEnd(s)
      BY <2>3 DEF SweepEnd
    <2>4. CASE SetStateRaisesInSweep(s)
      BY <2>4 DEF SetStateRaisesInSweep
    <2>5. ASSUME NEW r \in Requests,
                  ReconcileAnswered(s, r) \/ ReconcileNoAnswer(s, r) \/ ExpireOne(s, r)
           PROVE  KeyInv'
      <3>1. CASE ReconcileAnswered(s, r)
        BY <3>1 DEF ReconcileAnswered, CallSetState
      <3>2. CASE ReconcileNoAnswer(s, r)
        BY <3>2 DEF ReconcileNoAnswer
      <3>3. CASE ExpireOne(s, r)
        BY <3>3 DEF ExpireOne, CallSetState
      <3> QED
        BY <2>5, <3>1, <3>2, <3>3
    <2> QED
      BY <1>5, <2>1, <2>2, <2>3, <2>4, <2>5 DEF SweepStep
  <1>6. CASE Environment
    <2>1. ASSUME NEW r \in Requests,
                  TokenExpires(r) \/ RowAges(r) \/ Outage(r) \/ Crash(r)
           PROVE  KeyInv'
      <3>1. CASE TokenExpires(r)
        BY <3>1 DEF TokenExpires
      <3>2. CASE RowAges(r)
        BY <3>2 DEF RowAges
      <3>3. CASE Outage(r)
        BY <3>3 DEF Outage, Return
      <3>4. CASE Crash(r)
        BY <3>4 DEF Crash, Goto
      <3> QED
        BY <2>1, <3>1, <3>2, <3>3, <3>4
    <2>2. ASSUME NEW s \in Sweepers, SweepCrash(s)
           PROVE  KeyInv'
      BY <2>2 DEF SweepCrash
    <2>3. ASSUME NEW k \in Keys, IdemExpires(k) \/ IdemLockLapses(k)
           PROVE  KeyInv'
      <3>1. CASE IdemExpires(k)
        BY <3>1 DEF IdemExpires, NoRecord
      <3>2. CASE IdemLockLapses(k)
        BY <3>2 DEF IdemLockLapses, MayLapse
      <3> QED
        BY <2>3, <3>1, <3>2
    <2>4. ASSUME NEW f \in Fingerprints, FpLockLapses(f)
           PROVE  KeyInv'
      BY <2>4 DEF FpLockLapses, MayLapse
    <2> QED
      BY <1>6, <2>1, <2>2, <2>3, <2>4 DEF Environment
  <1> QED
    BY <1>1, <1>2, <1>3, <1>4, <1>5, <1>6 DEF Next

\* Whatever fails, no idempotency key is charged twice.
THEOREM ChargedOncePerKey == Spec => []OneChargePerKey
  <1>1. Spec => [](TypeInv /\ KeyInv)
    BY TypeInit, TypeStep, KeyInit, KeyStep, PTL DEF Spec
  <1>2. KeyInv => OneChargePerKey
    BY DEF KeyInv, OneChargePerKey, Charged, Authorizable
  <1> QED
    BY <1>1, <1>2, PTL

-----------------------------------------------------------------------------
(***************************************************************************)
(* What is reported is what happened.  A confirmation travels from the     *)
(* provider through the call that writes it, the response being built, the *)
(* stored response and the answer; a failure travels the same way and must *)
(* not be overtaken by a charge still on its way.                          *)
(***************************************************************************)
Final == {"sent", "confirmed"}

RowsTrue == \A r \in Requests : row[r].state = "CONFIRMED" => Charged(r)

CallsTrue ==
    \A p \in Procs :
        phase[p] # "idle" /\ target[p] = "CONFIRMED" => Charged(Pa(p))

ResponsesTrue ==
    \A r \in Requests :
        /\ rstate[r] = "CONFIRMED" => Charged(r)
        /\ rstate[r] = "FAILED" => provider[r] \notin Final
        /\ pc[r] \in Unposted => rstate[r] # "FAILED"

RecordsTrue ==
    \A k \in Keys :
        /\ idem[k].state = "CONFIRMED" =>
              idem[k].pa \in Requests /\ Charged(idem[k].pa)
        /\ idem[k].pa # None => KeyOf[idem[k].pa] = k

ReportInv == RowsTrue /\ CallsTrue /\ ResponsesTrue /\ RecordsTrue

AnswerInv ==
    \A r \in Requests :
        /\ answer[r].state = "CONFIRMED" =>
              answer[r].pa \in Requests /\ Charged(answer[r].pa)
        /\ pc[r] \in {"release", "done"} => answer[r].kind # "none"
        /\ answer[r].kind # "none" => pc[r] \in {"release", "done", "crashed"}
        /\ /\ answer[r].state = "FAILED"
           /\ answer[r].kind \in {"blocked", "decision", "replay"}
           => provider[r] \notin Final
        /\ answer[r].kind \in {"decision", "replay"} =>
              answer[r].pa \in Requests /\ KeyOf[answer[r].pa] = KeyOf[r]
        /\ answer[r].kind \in {"blocked", "inflight", "error"} =>
              answer[r].state = "FAILED"
        /\ phase[r] # "idle" =>
              pc[r] \in {"submit", "post", "to_unknown", "decision_audit"}

TruthInv == ReportInv /\ AnswerInv

LEMMA TruthInit == Init => TruthInv
  BY InputsAssumption, ProcsAssumption
     DEF Init, TruthInv, ReportInv, RowsTrue, CallsTrue, ResponsesTrue,
         RecordsTrue, AnswerInv, NoRow, NoRecord, NoAnswer, Unposted, Procs

\* Reports stay true: a charge once made is never unmade, and a charge that
\* was reported as failed is no longer on its way.
LEMMA TruthStep == TypeInv /\ KeyInv /\ TruthInv /\ [Next]_vars => TruthInv'
  <1> SUFFICES ASSUME TypeInv, KeyInv, TruthInv, [Next]_vars PROVE TruthInv'
    OBVIOUS
  <1>0. \A r \in Requests : pc[r] \in Unposted => provider[r] = "none"
    BY DEF KeyInv
  <1> USE <1>0, InputsAssumption, ProcsAssumption
      DEF TypeInv, TypeOK, CallsTyped, TruthInv, ReportInv, RowsTrue,
          CallsTrue, ResponsesTrue, RecordsTrue, AnswerInv, Final, Charged,
          Unposted, Pa, Procs, RowType, AnswerType, RecordType, requestVars,
          storeVars, timeVars, callVars, sweepVars
  <1>1. CASE UNCHANGED vars
    BY <1>1 DEF vars
  <1>2. ASSUME NEW r \in Requests, RequestStep(r)
        PROVE  TruthInv'
    <2>1. CASE Arrive(r)
      BY <2>1 DEF Arrive, Goto
    <2>2. CASE BlockedBeforePipeline(r)
      BY <2>2 DEF BlockedBeforePipeline, Goto, Refusal
    <2>3. CASE AcquireIdem(r)
      BY <2>3 DEF AcquireIdem, Goto
    <2>4. CASE AcquireFp(r)
      BY <2>4 DEF AcquireFp, Goto
    <2>5. CASE LockTimeout(r)
      BY <2>5 DEF LockTimeout, Return, Refusal
    <2>6. CASE Release(r)
      BY <2>6 DEF Release, Goto
    <2>7. CASE Replay(r)
      <3> DEFINE record == idem[KeyOf[r]]
      <3>1. /\ pc[r] = "check_idem" /\ pc' = [pc EXCEPT ![r] = "release"]
            /\ record.pa # None
            /\ answer' = [answer EXCEPT ![r] =
                   [kind |-> "replay", decision |-> record.decision,
                    state |-> record.state, pa |-> record.pa]]
            /\ UNCHANGED <<rstate, row, provider, idem, callVars, sweepVars>>
        BY <2>7 DEF Replay, Return
      <3>2. ReportInv'
        BY <3>1
      <3>3. /\ provider[r] = "none" /\ phase[r] = "idle"
            /\ record.pa \in Requests /\ KeyOf[record.pa] = KeyOf[r]
            /\ record.state = "CONFIRMED" => Charged(record.pa)
        <4>1. KeyOf[r] \in Keys /\ record \in RecordType
          OBVIOUS
        <4>2. record.pa \in Requests
          BY <3>1, <4>1
        <4>3. KeyOf[record.pa] = KeyOf[r]
          BY <3>1, <4>1
        <4>4. record.state = "CONFIRMED" => Charged(record.pa)
          BY <4>1
        <4>5. provider[r] = "none" /\ phase[r] = "idle"
          BY <3>1
        <4> QED
          BY <4>2, <4>3, <4>4, <4>5
      <3>4. AnswerInv'
        BY <3>1, <3>3
      <3> QED
        BY <3>2, <3>4
    <2>8. CASE KeyConflict(r)
      BY <2>8 DEF KeyConflict, Goto
    <2>9. CASE NewKey(r)
      BY <2>9 DEF NewKey, Goto
    <2>10. CASE CheckFingerprint(r)
      BY <2>10 DEF CheckFingerprint, Goto
    <2>11. CASE Decide(r)
      BY <2>11 DEF Decide, Verdicts, Goto
    <2>12. CASE Persist(r)
      BY <2>12 DEF Persist, Goto
    <2>13. CASE PersistRefused(r)
      BY <2>13 DEF PersistRefused, Return, Refusal
    <2>14. CASE Block(r)
      BY <2>14 DEF Block, CallSetState, Goto
    <2>15. CASE RequireApproval(r)
      BY <2>15 DEF RequireApproval, Goto
    <2>16. CASE RecordVelocity(r)
      BY <2>16 DEF RecordVelocity, Goto
    <2>17. CASE Authorize(r)
      BY <2>17 DEF Authorize, CallSetState, Goto
    <2>18. CASE Submit(r)
      <3>1. /\ pc[r] = "submit"
            /\ \/ pc' = [pc EXCEPT ![r] = "post"] /\ rstate' = rstate
               \/ /\ pc' = [pc EXCEPT ![r] = "decision_audit"]
                  /\ rstate' = [rstate EXCEPT ![r] = "FAILED"]
            /\ UNCHANGED <<answer, idem, provider, sweepVars>>
        BY <2>18 DEF Submit, Goto
      <3>2. \A q \in Requests : row'[q].state = row[q].state
        <4>1. CASE UNCHANGED row
          BY <4>1
        <4>2. CASE row' = [row EXCEPT ![r] = [row[r] EXCEPT !.uses = @ + 1]]
          BY <4>2
        <4> QED
          BY <2>18, <4>1, <4>2 DEF Submit
      <3>3. \A p \in Procs : phase'[p] # "idle" /\ target'[p] = "CONFIRMED" =>
                              phase[p] # "idle" /\ target[p] = "CONFIRMED"
        BY <2>18 DEF Submit, CallSetState
      <3>4. ReportInv'
        <4>1. RowsTrue'
          BY <3>1, <3>2
        <4>2. CallsTrue'
          BY <3>1, <3>3
        <4>3. ResponsesTrue'
          BY <3>1
        <4>4. RecordsTrue'
          BY <3>1
        <4> QED
          BY <4>1, <4>2, <4>3, <4>4
      <3>5. AnswerInv'
        <4>1. phase[r] = "idle" /\ \A q \in Requests \ {r} : phase'[q] = phase[q]
          BY <2>18 DEF Submit, CallSetState, Idle
        <4>2. pc'[r] \in {"post", "decision_audit"}
          BY <3>1
        <4>3. ASSUME NEW q \in Requests, phase'[q] # "idle"
              PROVE  pc'[q] \in {"submit", "post", "to_unknown", "decision_audit"}
          <5>1. CASE q = r
            BY <4>2, <5>1
          <5>2. CASE q # r
            <6>1. pc'[q] = pc[q] /\ phase[q] # "idle"
              BY <3>1, <4>1, <4>3, <5>2
            <6> QED
              BY <6>1
          <5> QED
            BY <5>1, <5>2
        <4>4. answer' = answer /\ provider' = provider /\ answer[r].kind = "none"
          BY <3>1
        <4>5. \A q \in Requests \ {r} : pc'[q] = pc[q]
          BY <3>1
        <4> QED
          BY <4>2, <4>3, <4>4, <4>5
      <3> QED
        BY <3>4, <3>5
    <2>19. CASE PostCharge(r)
      <3>1. ReportInv'
        BY <2>19 DEF PostCharge, Goto, Idle
      <3>2. AnswerInv'
        BY <2>19 DEF PostCharge, Goto, Idle
      <3> QED
        BY <3>1, <3>2
    <2>20. CASE ProviderAnswers(r)
      BY <2>20 DEF ProviderAnswers, CallSetState, Goto
    <2>21. CASE ProviderTimeout(r)
      <3>1. /\ \A q \in Requests : Charged(q)' <=> Charged(q)
            /\ \A q \in Requests : provider[q] \notin Final => provider'[q] \notin Final
            /\ \A q \in Requests \ {r} : provider'[q] = provider[q]
        BY <2>21 DEF ProviderTimeout
      <3>2. /\ pc[r] = "await" /\ pc' = [pc EXCEPT ![r] = "to_unknown"]
            /\ phase' = [phase EXCEPT ![r] = "read"]
            /\ target' = [target EXCEPT ![r] = "TIMEOUT"]
            /\ UNCHANGED <<rstate, answer, row, idem, sweepVars>>
        BY <2>21 DEF ProviderTimeout, CallSetState, Goto
      <3>3. ReportInv'
        BY <3>1, <3>2
      <3>4. AnswerInv'
        BY <3>1, <3>2
      <3> QED
        BY <3>3, <3>4
    <2>22. CASE TimeoutToUnknown(r)
      BY <2>22 DEF TimeoutToUnknown, CallSetState, Goto, Idle
    <2>23. CASE AuditDecision(r)
      <3>1. ReportInv'
        BY <2>23 DEF AuditDecision, Return, Goto
      <3>2. CASE Goto(r, "remember_idem") /\ UNCHANGED answer
        BY <2>23, <3>1, <3>2 DEF AuditDecision, Idle, Goto
      <3>3. CASE Return(r, Response(r))
        BY <2>23, <3>1, <3>3 DEF AuditDecision, Idle, Return, Response
      <3> QED
        BY <2>23, <3>2, <3>3 DEF AuditDecision
    <2>24. CASE RememberIdem(r)
      <3>1. ReportInv'
        BY <2>24 DEF RememberIdem, Return, Goto
      <3>2. CASE Goto(r, "remember_fp") /\ UNCHANGED answer
        BY <2>24, <3>1, <3>2 DEF RememberIdem, Idle, Goto
      <3>3. CASE Return(r, Response(r))
        BY <2>24, <3>1, <3>3 DEF RememberIdem, Idle, Return, Response
      <3> QED
        BY <2>24, <3>2, <3>3 DEF RememberIdem
    <2>25. CASE RememberFp(r)
      BY <2>25 DEF RememberFp, Return, Goto, Response
    <2>26. CASE SetStateRaisesInRequest(r)
      <3>1. PICK kind \in {"error", "inflight"} : Return(r, Refusal(kind, r))
        BY <2>26 DEF SetStateRaisesInRequest
      <3>2. ReportInv'
        BY <2>26, <3>1 DEF SetStateRaisesInRequest, Return
      <3>3. AnswerInv'
        BY <2>26, <3>1 DEF SetStateRaisesInRequest, Return, Refusal
      <3> QED
        BY <3>2, <3>3
    <2> QED
      BY <1>2, <2>1, <2>2, <2>3, <2>4, <2>5, <2>6, <2>7, <2>8, <2>9, <2>10,
         <2>11, <2>12, <2>13, <2>14, <2>15, <2>16, <2>17, <2>18, <2>19, <2>20,
         <2>21, <2>22, <2>23, <2>24, <2>25, <2>26 DEF RequestStep
  <1>3. ASSUME NEW r \in Requests, CreateCharge(r)
        PROVE  TruthInv'
    BY <1>3 DEF CreateCharge
  <1>4. ASSUME NEW p \in Procs, SetStateStep(p)
        PROVE  TruthInv'
    <2>1. CASE SetStateRead(p)
      BY <2>1 DEF SetStateRead
    <2>2. CASE SetStateCommit(p)
      BY <2>2 DEF SetStateCommit
    <2>3. CASE SetStateAudit(p)
      BY <2>3 DEF SetStateAudit
    <2> QED
      BY <1>4, <2>1, <2>2, <2>3 DEF SetStateStep
  <1>5. ASSUME NEW s \in Sweepers, SweepStep(s)
        PROVE  TruthInv'
    <2>1. CASE ReconcileStart(s)
      BY <2>1 DEF ReconcileStart
    <2>2. CASE ExpireStart(s)
      BY <2>2 DEF ExpireStart
    <2>3. CASE SweepEnd(s)
      BY <2>3 DEF SweepEnd
    <2>4. CASE SetStateRaisesInSweep(s)
      BY <2>4 DEF SetStateRaisesInSweep
    <2>5. ASSUME NEW r \in Requests,
                  ReconcileAnswered(s, r) \/ ReconcileNoAnswer(s, r) \/ ExpireOne(s, r)
           PROVE  TruthInv'
      <3>1. CASE ReconcileAnswered(s, r)
        BY <3>1 DEF ReconcileAnswered, CallSetState
      <3>2. CASE ReconcileNoAnswer(s, r)
        BY <3>2 DEF ReconcileNoAnswer
      <3>3. CASE ExpireOne(s, r)
        BY <3>3 DEF ExpireOne, CallSetState
      <3> QED
        BY <2>5, <3>1, <3>2, <3>3
    <2> QED
      BY <1>5, <2>1, <2>2, <2>3, <2>4, <2>5 DEF SweepStep
  <1>6. CASE Environment
    <2>1. ASSUME NEW r \in Requests,
                  TokenExpires(r) \/ RowAges(r) \/ Outage(r) \/ Crash(r)
           PROVE  TruthInv'
      <3>1. CASE TokenExpires(r)
        BY <3>1 DEF TokenExpires
      <3>2. CASE RowAges(r)
        BY <3>2 DEF RowAges
      <3>3. CASE Outage(r)
        BY <3>3 DEF Outage, Return, Refusal, InPipeline
      <3>4. CASE Crash(r)
        BY <3>4 DEF Crash, Goto
      <3> QED
        BY <2>1, <3>1, <3>2, <3>3, <3>4
    <2>2. ASSUME NEW s \in Sweepers, SweepCrash(s)
           PROVE  TruthInv'
      BY <2>2 DEF SweepCrash
    <2>3. ASSUME NEW k \in Keys, IdemExpires(k) \/ IdemLockLapses(k)
           PROVE  TruthInv'
      <3>1. CASE IdemExpires(k)
        BY <3>1 DEF IdemExpires, NoRecord
      <3>2. CASE IdemLockLapses(k)
        BY <3>2 DEF IdemLockLapses, MayLapse
      <3> QED
        BY <2>3, <3>1, <3>2
    <2>4. ASSUME NEW f \in Fingerprints, FpLockLapses(f)
           PROVE  TruthInv'
      BY <2>4 DEF FpLockLapses, MayLapse
    <2> QED
      BY <1>6, <2>1, <2>2, <2>3, <2>4 DEF Environment
  <1> QED
    BY <1>1, <1>2, <1>3, <1>4, <1>5, <1>6 DEF Next

\* A row, a response or a replayed response says CONFIRMED only when the
\* provider made the charge.
THEOREM ConfirmationsAreReal == Spec => []ConfirmedIsReal
  <1>1. Spec => [](TypeInv /\ KeyInv /\ TruthInv)
    BY TypeInit, TypeStep, KeyInit, KeyStep, TruthInit, TruthStep, PTL
       DEF Spec
  <1>2. TruthInv => ConfirmedIsReal
    BY DEF TruthInv, ReportInv, RowsTrue, AnswerInv, ConfirmedIsReal
  <1> QED
    BY <1>1, <1>2, PTL
-----------------------------------------------------------------------------
(***************************************************************************)
(* The gateway implements the ledger.  Only three kinds of step show at    *)
(* the level of the ledger: the provider recording a charge, the answer of *)
(* a request that went through the pipeline, and the early refusal.        *)
(***************************************************************************)
\* What a step has to leave alone to be a stuttering step of the ledger.
Silent ==
    \A q \in Requests :
        /\ provider'[q] = "confirmed" <=> provider[q] = "confirmed"
        /\ pc'[q] = "done" <=> pc[q] = "done"
        /\ pc[q] = "done" => answer'[q] = answer[q]

\* A silent step changes neither the charges nor what any client was told.
LEMMA SilentStutters == Silent => UNCHANGED Ledger!ledgerVars
  <1> SUFFICES ASSUME Silent PROVE UNCHANGED Ledger!ledgerVars
    OBVIOUS
  <1>1. {q \in Requests : Charged(q)}' = {q \in Requests : Charged(q)}
    BY DEF Silent, Charged
  <1>2. ASSUME NEW q \in Requests PROVE Told(q)' = Told(q)
    BY DEF Silent, Told
  <1>3. [q \in Requests |-> Told(q)]' = [q \in Requests |-> Told(q)]
    BY <1>2
  <1> QED
    BY <1>1, <1>3 DEF Ledger!ledgerVars

\* Before any request arrives no money has left and nobody has been told.
LEMMA LedgerStart == Init => Ledger!LedgerInit
  BY DEF Init, Ledger!LedgerInit, Charged, Told

\* The answer of a request: it claims a confirmation only under a key that was
\* charged, and a refusal only when this request was not.
LEMMA AnswerTells ==
    ASSUME TypeInv, TypeInv', TruthInv', NEW r \in Requests,
           pc[r] # "done", pc' = [pc EXCEPT ![r] = "done"],
           provider' = provider, \A q \in Requests \ {r} : answer'[q] = answer[q]
    PROVE  Ledger!LedgerNext
  <1> DEFINE money == {q \in Requests : Charged(q)}
             outcome == Told(r)'
  <1>1. money' = money
    BY DEF Charged
  <1>2. pc'[r] = "done" /\ Told(r) = "nothing"
    BY DEF TypeInv, TypeOK, Told
  <1>3. /\ answer'[r].kind \in {"blocked", "inflight", "error", "decision",
                                "replay"}
        /\ answer'[r].state = "CONFIRMED" =>
               answer'[r].pa \in Requests /\ provider[answer'[r].pa] = "confirmed"
        /\ /\ answer'[r].state = "FAILED"
           /\ answer'[r].kind \in {"blocked", "decision", "replay"}
           => provider[r] # "confirmed"
        /\ answer'[r].kind \in {"decision", "replay"} =>
               KeyOf[answer'[r].pa] = KeyOf[r]
        /\ answer'[r].kind \in {"blocked", "inflight", "error"} =>
               answer'[r].state = "FAILED"
    <2>1. answer'[r] \in AnswerType
      BY DEF TypeInv, TypeOK
    <2> QED
      BY <1>2, <2>1 DEF TruthInv, AnswerInv, Charged, AnswerType, Final
  <1>4. /\ outcome \in {"confirmed", "not_charged", "open"}
        /\ outcome = "confirmed" => \E q \in money : KeyOf[q] = KeyOf[r]
        /\ outcome = "not_charged" => r \notin money
    BY <1>2, <1>3 DEF Told, Charged
  <1>5. ASSUME NEW q \in Requests, q # r PROVE Told(q)' = Told(q)
    BY <1>5 DEF TypeInv, TypeOK, Told
  <1>6. [q \in Requests |-> Told(q)]' =
            [[q \in Requests |-> Told(q)] EXCEPT ![r] = outcome]
    BY <1>5
  <1>7. Ledger!Tell(r, outcome)
    BY <1>1, <1>2, <1>4, <1>6 DEF Ledger!Tell
  <1> QED
    BY <1>4, <1>7 DEF Ledger!LedgerNext, Ledger!Outcomes

\* Every step of the gateway is a step of the ledger or a stutter.
LEMMA LedgerStep ==
    TypeInv /\ KeyInv /\ TruthInv /\ TypeInv' /\ TruthInv' /\ [Next]_vars
        => [Ledger!LedgerNext]_(Ledger!ledgerVars)
  <1> SUFFICES ASSUME TypeInv, KeyInv, TruthInv, TypeInv', TruthInv',
                      [Next]_vars
               PROVE  Ledger!LedgerNext \/ UNCHANGED Ledger!ledgerVars
    OBVIOUS
  <1> SUFFICES Ledger!LedgerNext \/ Silent
    BY SilentStutters
  <1>0. /\ pc \in [Requests -> Labels]
        /\ provider \in [Requests -> {"none", "sent", "lost", "refused",
                                       "declined", "confirmed"}]
        /\ answer \in [Requests -> AnswerType]
    BY DEF TypeInv, TypeOK
  <1> USE <1>0 DEF Silent, requestVars
  <1>1. CASE UNCHANGED vars
    BY <1>1 DEF vars
  <1>2. ASSUME NEW r \in Requests, RequestStep(r)
        PROVE  Ledger!LedgerNext \/ Silent
    <2>1. CASE Arrive(r)
      BY <2>1 DEF Arrive, Goto
    <2>2. CASE BlockedBeforePipeline(r)
      <3>1. /\ pc[r] # "done" /\ pc' = [pc EXCEPT ![r] = "done"]
            /\ provider' = provider
            /\ \A q \in Requests \ {r} : answer'[q] = answer[q]
        BY <2>2 DEF BlockedBeforePipeline, Goto
      <3> QED
        BY <3>1, AnswerTells
    <2>3. CASE AcquireIdem(r)
      BY <2>3 DEF AcquireIdem, Goto
    <2>4. CASE AcquireFp(r)
      BY <2>4 DEF AcquireFp, Goto
    <2>5. CASE LockTimeout(r)
      BY <2>5 DEF LockTimeout, Return
    <2>6. CASE Release(r)
      <3>1. /\ pc[r] # "done" /\ pc' = [pc EXCEPT ![r] = "done"]
            /\ provider' = provider
            /\ \A q \in Requests \ {r} : answer'[q] = answer[q]
        BY <2>6 DEF Release, Goto
      <3> QED
        BY <3>1, AnswerTells
    <2>7. CASE Replay(r)
      BY <2>7 DEF Replay, Return
    <2>8. CASE KeyConflict(r)
      BY <2>8 DEF KeyConflict, Goto
    <2>9. CASE NewKey(r)
      BY <2>9 DEF NewKey, Goto
    <2>10. CASE CheckFingerprint(r)
      BY <2>10 DEF CheckFingerprint, Goto
    <2>11. CASE Decide(r)
      BY <2>11 DEF Decide, Goto
    <2>12. CASE Persist(r)
      BY <2>12 DEF Persist, Goto
    <2>13. CASE PersistRefused(r)
      BY <2>13 DEF PersistRefused, Return
    <2>14. CASE Block(r)
      BY <2>14 DEF Block, Goto
    <2>15. CASE RequireApproval(r)
      BY <2>15 DEF RequireApproval, Goto
    <2>16. CASE RecordVelocity(r)
      BY <2>16 DEF RecordVelocity, Goto
    <2>17. CASE Authorize(r)
      BY <2>17 DEF Authorize, Goto
    <2>18. CASE Submit(r)
      BY <2>18 DEF Submit, Goto
    <2>19. CASE PostCharge(r)
      BY <2>19 DEF PostCharge, Goto, KeyInv, Unposted
    <2>20. CASE ProviderAnswers(r)
      BY <2>20 DEF ProviderAnswers, Goto
    <2>21. CASE ProviderTimeout(r)
      BY <2>21 DEF ProviderTimeout, Goto
    <2>22. CASE TimeoutToUnknown(r)
      BY <2>22 DEF TimeoutToUnknown, Goto
    <2>23. CASE AuditDecision(r)
      BY <2>23 DEF AuditDecision, Return, Goto
    <2>24. CASE RememberIdem(r)
      BY <2>24 DEF RememberIdem, Return, Goto
    <2>25. CASE RememberFp(r)
      BY <2>25 DEF RememberFp, Return
    <2>26. CASE SetStateRaisesInRequest(r)
      <3>1. pc[r] # "done"
        BY <2>26 DEF SetStateRaisesInRequest, TruthInv, AnswerInv
      <3> QED
        BY <2>26, <3>1 DEF SetStateRaisesInRequest, Return
    <2> QED
      BY <1>2, <2>1, <2>2, <2>3, <2>4, <2>5, <2>6, <2>7, <2>8, <2>9, <2>10,
         <2>11, <2>12, <2>13, <2>14, <2>15, <2>16, <2>17, <2>18, <2>19, <2>20,
         <2>21, <2>22, <2>23, <2>24, <2>25, <2>26 DEF RequestStep
  <1>3. ASSUME NEW r \in Requests, CreateCharge(r)
        PROVE  Ledger!LedgerNext \/ Silent
    <2> DEFINE money == {q \in Requests : Charged(q)}
    <2>1. provider[r] = "sent" /\ UNCHANGED <<pc, answer>>
      BY <1>3 DEF CreateCharge
    <2>2. CASE provider' = [provider EXCEPT ![r] = "confirmed"]
      <3>1. Told(r) # "not_charged"
        BY <2>1 DEF TruthInv, AnswerInv, Told, Final, AnswerType
      <3>2. \A q \in money : KeyOf[q] # KeyOf[r]
        BY <2>1 DEF KeyInv, Authorizable, Charged
      <3>3. money' = money \cup {r}
        BY <2>2 DEF Charged
      <3>4. [q \in Requests |-> Told(q)]' = [q \in Requests |-> Told(q)]
        BY <2>1 DEF Told
      <3>5. Ledger!Charge(r)
        BY <3>1, <3>2, <3>3, <3>4 DEF Ledger!Charge
      <3> QED
        BY <3>5 DEF Ledger!LedgerNext
    <2>3. CASE provider' # [provider EXCEPT ![r] = "confirmed"]
      BY <1>3, <2>1, <2>3 DEF CreateCharge
    <2> QED
      BY <2>2, <2>3
  <1>4. ASSUME NEW p \in Procs, SetStateStep(p)
        PROVE  Ledger!LedgerNext \/ Silent
    BY <1>4 DEF SetStateStep, SetStateRead, SetStateCommit, SetStateAudit
  <1>5. ASSUME NEW s \in Sweepers, SweepStep(s)
        PROVE  Ledger!LedgerNext \/ Silent
    BY <1>5 DEF SweepStep, ReconcileStart, ExpireStart, SweepEnd,
                SetStateRaisesInSweep, ReconcileAnswered, ReconcileNoAnswer,
                ExpireOne
  <1>6. CASE Environment
    <2>1. ASSUME NEW r \in Requests,
                  TokenExpires(r) \/ RowAges(r) \/ Outage(r) \/ Crash(r)
           PROVE  Silent
      <3>1. CASE TokenExpires(r)
        BY <3>1 DEF TokenExpires
      <3>2. CASE RowAges(r)
        BY <3>2 DEF RowAges
      <3>3. CASE Outage(r)
        BY <3>3 DEF Outage, Return, InPipeline
      <3>4. CASE Crash(r)
        BY <3>4 DEF Crash, Goto
      <3> QED
        BY <2>1, <3>1, <3>2, <3>3, <3>4
    <2>2. ASSUME NEW s \in Sweepers, SweepCrash(s)
           PROVE  Silent
      BY <2>2 DEF SweepCrash
    <2>3. ASSUME NEW k \in Keys, IdemExpires(k) \/ IdemLockLapses(k)
           PROVE  Silent
      BY <2>3 DEF IdemExpires, IdemLockLapses
    <2>4. ASSUME NEW f \in Fingerprints, FpLockLapses(f)
           PROVE  Silent
      BY <2>4 DEF FpLockLapses
    <2> QED
      BY <1>6, <2>1, <2>2, <2>3, <2>4 DEF Environment
  <1> QED
    BY <1>1, <1>2, <1>3, <1>4, <1>5, <1>6 DEF Next

\* The payment path implements the ledger, whatever fails around it: money
\* leaves once per key, and an outcome a client is told is and stays true.
THEOREM GatewayImplementsLedger == Spec => ImplementsLedger
  <1>1. Spec => [](TypeInv /\ KeyInv /\ TruthInv)
    BY TypeInit, TypeStep, KeyInit, KeyStep, TruthInit, TruthStep, PTL
       DEF Spec
  <1> QED
    BY <1>1, LedgerStart, LedgerStep, PTL
       DEF Spec, ImplementsLedger, Ledger!LedgerSpec

-----------------------------------------------------------------------------
(***************************************************************************)
(* Where a request is tells what it has done.  Two facts the theorems      *)
(* below share: which set_state call a request can be in at each label     *)
(* (OwnCalls), and what has been decided, written and used by then         *)
(* (Branches).  The token of a request is unused until it is submitted, so *)
(* the replay guard of submit() never fires on a request's own token.      *)
(***************************************************************************)
Undecided == {"new", "lock_idem", "lock_fp", "check_idem", "check_fp",
              "decide"}

Answering == {"decision_audit", "remember_idem", "remember_fp"}

Outcomes == {"AUTHORIZED", "CONFIRMED", "FAILED", "UNKNOWN"}

OwnCalls ==
    \A r \in Requests : phase[r] # "idle" =>
        \/ pc[r] = "submit" /\ target[r] = "AUTHORIZED"
        \/ pc[r] = "post" /\ target[r] = "SUBMITTED"
        \/ pc[r] = "to_unknown" /\ target[r] = "TIMEOUT"
        \/ /\ pc[r] = "decision_audit"
           /\ target[r] = rstate[r] /\ rstate[r] \in Outcomes

Branches ==
    \A r \in Requests :
        /\ pc[r] \in Undecided => verdict[r] = "none"
        /\ pc[r] \in Undecided \cup {"persist"} => row[r].decision = "none"
        /\ verdict[r] = "ALLOW" => ~conflict[r]
        /\ pc[r] \in AllowBranch \cup {"remember_fp"} => verdict[r] = "ALLOW"
        /\ provider[r] # "none" => verdict[r] = "ALLOW"
        /\ pc[r] \in {"authorization", "authorize", "submit"} => row[r].uses = 0
        /\ pc[r] \in Answering /\ verdict[r] = "ALLOW" => rstate[r] \in Outcomes

BranchInv == OwnCalls /\ Branches

LEMMA BranchInit == Init => BranchInv
  BY DEF Init, BranchInv, OwnCalls, Branches, NoRow, Undecided, Answering,
         AllowBranch, Procs

\* What submit() does: the guard against a second use does not fire on a token
\* that has not been used, so the use is recorded and the call is made.
LEMMA SubmitEffect ==
    ASSUME TypeInv, Branches, NEW r \in Requests, Submit(r)
    PROVE  /\ pc[r] = "submit" /\ phase[r] = "idle"
           /\ Goto(r, "post") /\ CallSetState(r, "SUBMITTED")
           /\ \A q \in Requests : /\ row'[q].state = row[q].state
                                  /\ row'[q].decision = row[q].decision
                                  /\ row'[q].token = row[q].token
                                  /\ q # r => row'[q] = row[q]
           /\ UNCHANGED <<verdict, conflict, rstate, answer, storeVars,
                          timeVars, provider, trail, sweepVars>>
  <1>1. row[r].uses = 0 /\ pc[r] = "submit" /\ phase[r] = "idle"
    BY DEF Branches, Submit, Idle
  <1>2. row \in [Requests -> RowType]
    BY DEF TypeInv, TypeOK
  <1>3. row' = [row EXCEPT ![r] = [row[r] EXCEPT !.uses = @ + 1]]
    BY <1>1 DEF Submit
  <1>4. /\ Goto(r, "post") /\ CallSetState(r, "SUBMITTED") /\ UNCHANGED rstate
    BY <1>1 DEF Submit
  <1>5. \A q \in Requests : /\ row'[q].state = row[q].state
                            /\ row'[q].decision = row[q].decision
                            /\ row'[q].token = row[q].token
                            /\ q # r => row'[q] = row[q]
    BY <1>2, <1>3 DEF RowType
  <1> QED
    BY <1>1, <1>4, <1>5 DEF Submit

\* What the commit of set_state does to the rows.
LEMMA CommitEffect ==
    ASSUME TypeInv, NEW p \in Procs, SetStateCommit(p)
    PROVE  /\ Pa(p) \in Requests /\ target[p] \in PaymentState
           /\ row'[Pa(p)].state = target[p]
           /\ \A q \in Requests : /\ q # Pa(p) => row'[q] = row[q]
                                  /\ row'[q].decision = row[q].decision
                                  /\ row'[q].uses = row[q].uses
                                  /\ row'[q].token = row[q].token
  <1>1. Pa(p) \in Requests /\ target[p] \in PaymentState
    BY DEF TypeInv, CallsTyped, SetStateCommit
  <1>2. row \in [Requests -> RowType]
    BY DEF TypeInv, TypeOK
  <1>3. row' = [row EXCEPT ![Pa(p)] = [row[Pa(p)] EXCEPT !.state = target[p]]]
    BY DEF SetStateCommit
  <1> QED
    BY <1>1, <1>2, <1>3 DEF RowType

\* Every step of a request leaves it where BranchInv says.
LEMMA BranchStep == TypeInv /\ BranchInv /\ [Next]_vars => BranchInv'
  <1> SUFFICES ASSUME TypeInv, BranchInv, [Next]_vars PROVE BranchInv'
    OBVIOUS
  <1> USE ProcsAssumption
      DEF TypeInv, TypeOK, CallsTyped, BranchInv, OwnCalls, Branches,
          Undecided, Answering, Outcomes, AllowBranch, Procs, RowType,
          requestVars, storeVars, timeVars, callVars, sweepVars
  <1>1. CASE UNCHANGED vars
    BY <1>1 DEF vars
  <1>2. ASSUME NEW r \in Requests, RequestStep(r)
        PROVE  BranchInv'
    <2>1. CASE Arrive(r)
      BY <2>1 DEF Arrive, Goto
    <2>2. CASE BlockedBeforePipeline(r)
      BY <2>2 DEF BlockedBeforePipeline, Goto
    <2>3. CASE AcquireIdem(r)
      BY <2>3 DEF AcquireIdem, Goto
    <2>4. CASE AcquireFp(r)
      BY <2>4 DEF AcquireFp, Goto
    <2>5. CASE LockTimeout(r)
      BY <2>5 DEF LockTimeout, Return
    <2>6. CASE Release(r)
      BY <2>6 DEF Release, Goto
    <2>7. CASE Replay(r)
      BY <2>7 DEF Replay, Return
    <2>8. CASE KeyConflict(r)
      BY <2>8 DEF KeyConflict, Goto
    <2>9. CASE NewKey(r)
      BY <2>9 DEF NewKey, Goto
    <2>10. CASE CheckFingerprint(r)
      BY <2>10 DEF CheckFingerprint, Goto
    <2>11. CASE Decide(r)
      BY <2>11 DEF Decide, Verdicts, Goto
    <2>12. CASE Persist(r)
      BY <2>12 DEF Persist, Goto
    <2>13. CASE PersistRefused(r)
      BY <2>13 DEF PersistRefused, Return
    <2>14. CASE Block(r)
      BY <2>14 DEF Block, CallSetState, Goto
    <2>15. CASE RequireApproval(r)
      BY <2>15 DEF RequireApproval, Goto
    <2>16. CASE RecordVelocity(r)
      BY <2>16 DEF RecordVelocity, Goto
    <2>17. CASE Authorize(r)
      BY <2>17 DEF Authorize, CallSetState, Goto
    <2>18. CASE Submit(r)
      <3>1. row'[r].decision = row[r].decision
        BY <2>18, SubmitEffect
      <3> QED
        BY <2>18, <3>1, SubmitEffect DEF Goto, CallSetState
    <2>19. CASE PostCharge(r)
      BY <2>19 DEF PostCharge, Goto, Idle
    <2>20. CASE ProviderAnswers(r)
      BY <2>20 DEF ProviderAnswers, CallSetState, Goto, Charged
    <2>21. CASE ProviderTimeout(r)
      BY <2>21 DEF ProviderTimeout, CallSetState, Goto
    <2>22. CASE TimeoutToUnknown(r)
      BY <2>22 DEF TimeoutToUnknown, CallSetState, Goto, Idle
    <2>23. CASE AuditDecision(r)
      BY <2>23 DEF AuditDecision, Return, Goto, Idle
    <2>24. CASE RememberIdem(r)
      BY <2>24 DEF RememberIdem, Return, Goto
    <2>25. CASE RememberFp(r)
      BY <2>25 DEF RememberFp, Return
    <2>26. CASE SetStateRaisesInRequest(r)
      BY <2>26 DEF SetStateRaisesInRequest, Return
    <2> QED
      BY <1>2, <2>1, <2>2, <2>3, <2>4, <2>5, <2>6, <2>7, <2>8, <2>9, <2>10,
         <2>11, <2>12, <2>13, <2>14, <2>15, <2>16, <2>17, <2>18, <2>19, <2>20,
         <2>21, <2>22, <2>23, <2>24, <2>25, <2>26 DEF RequestStep
  <1>3. ASSUME NEW r \in Requests, CreateCharge(r)
        PROVE  BranchInv'
    BY <1>3 DEF CreateCharge
  <1>4. ASSUME NEW p \in Procs, SetStateStep(p)
        PROVE  BranchInv'
    <2>1. CASE SetStateRead(p)
      BY <2>1 DEF SetStateRead
    <2>2. CASE SetStateCommit(p)
      BY <2>2 DEF SetStateCommit
    <2>3. CASE SetStateAudit(p)
      BY <2>3 DEF SetStateAudit
    <2> QED
      BY <1>4, <2>1, <2>2, <2>3 DEF SetStateStep
  <1>5. ASSUME NEW s \in Sweepers, SweepStep(s)
        PROVE  BranchInv'
    <2>1. CASE ReconcileStart(s)
      BY <2>1 DEF ReconcileStart
    <2>2. CASE ExpireStart(s)
      BY <2>2 DEF ExpireStart
    <2>3. CASE SweepEnd(s)
      BY <2>3 DEF SweepEnd
    <2>4. CASE SetStateRaisesInSweep(s)
      BY <2>4 DEF SetStateRaisesInSweep
    <2>5. ASSUME NEW r \in Requests,
                  ReconcileAnswered(s, r) \/ ReconcileNoAnswer(s, r) \/ ExpireOne(s, r)
           PROVE  BranchInv'
      <3>1. CASE ReconcileAnswered(s, r)
        BY <3>1 DEF ReconcileAnswered, CallSetState
      <3>2. CASE ReconcileNoAnswer(s, r)
        BY <3>2 DEF ReconcileNoAnswer
      <3>3. CASE ExpireOne(s, r)
        BY <3>3 DEF ExpireOne, CallSetState
      <3> QED
        BY <2>5, <3>1, <3>2, <3>3
    <2> QED
      BY <1>5, <2>1, <2>2, <2>3, <2>4, <2>5 DEF SweepStep
  <1>6. CASE Environment
    <2>1. ASSUME NEW r \in Requests,
                  TokenExpires(r) \/ RowAges(r) \/ Outage(r) \/ Crash(r)
           PROVE  BranchInv'
      <3>1. CASE TokenExpires(r)
        BY <3>1 DEF TokenExpires
      <3>2. CASE RowAges(r)
        BY <3>2 DEF RowAges
      <3>3. CASE Outage(r)
        BY <3>3 DEF Outage, Return
      <3>4. CASE Crash(r)
        BY <3>4 DEF Crash, Goto
      <3> QED
        BY <2>1, <3>1, <3>2, <3>3, <3>4
    <2>2. ASSUME NEW s \in Sweepers, SweepCrash(s)
           PROVE  BranchInv'
      BY <2>2 DEF SweepCrash
    <2>3. ASSUME NEW k \in Keys, IdemExpires(k) \/ IdemLockLapses(k)
           PROVE  BranchInv'
      <3>1. CASE IdemExpires(k)
        BY <3>1 DEF IdemExpires, NoRecord
      <3>2. CASE IdemLockLapses(k)
        BY <3>2 DEF IdemLockLapses, MayLapse
      <3> QED
        BY <2>3, <3>1, <3>2
    <2>4. ASSUME NEW f \in Fingerprints, FpLockLapses(f)
           PROVE  BranchInv'
      BY <2>4 DEF FpLockLapses, MayLapse
    <2> QED
      BY <1>6, <2>1, <2>2, <2>3, <2>4 DEF Environment
  <1> QED
    BY <1>1, <1>2, <1>3, <1>4, <1>5, <1>6 DEF Next

-----------------------------------------------------------------------------
(***************************************************************************)
(* Replays.  A stored response speaks of a request that has its answer, so *)
(* neither its verdict nor its state will change again (Says); a replayed  *)
(* answer inherits this from the record it was read from.                  *)
(***************************************************************************)
Concluded == {"remember_fp", "release", "done", "crashed"}

Says(q, k, payload, decision, state) ==
    /\ q \in Requests /\ pc[q] \in Concluded
    /\ KeyOf[q] = k /\ PayloadOf[q] = payload
    /\ verdict[q] = decision /\ rstate[q] = state

StoredSay ==
    \A k \in Keys : idem[k].pa # None =>
        Says(idem[k].pa, k, idem[k].payload, idem[k].decision, idem[k].state)

ReplaysSay ==
    \A r \in Requests : answer[r].kind = "replay" =>
        /\ Says(answer[r].pa, KeyOf[r], PayloadOf[r], answer[r].decision,
                answer[r].state)
        /\ pc[r] \in {"release", "done", "crashed"}
        /\ row[r].decision = "none" /\ provider[r] = "none"

MemoInv == StoredSay /\ ReplaysSay

LEMMA MemoInit == Init => MemoInv
  BY DEF Init, MemoInv, StoredSay, ReplaysSay, NoRecord, NoAnswer

\* What a stored or replayed response says stays so.
LEMMA MemoStep ==
    TypeInv /\ KeyInv /\ BranchInv /\ MemoInv /\ [Next]_vars => MemoInv'
  <1> SUFFICES ASSUME TypeInv, KeyInv, BranchInv, MemoInv, [Next]_vars
               PROVE  MemoInv'
    OBVIOUS
  <1>0. \A r \in Requests :
           /\ pc[r] \in Unposted => provider[r] = "none"
           /\ pc[r] \in Undecided \cup {"persist"} => row[r].decision = "none"
    BY DEF KeyInv, BranchInv, Branches
  <1> USE <1>0, InputsAssumption, ProcsAssumption
      DEF TypeInv, TypeOK, MemoInv, StoredSay, ReplaysSay, Says, Concluded,
          Unposted, Undecided, requestVars, storeVars, timeVars, callVars,
          sweepVars
  <1>1. CASE UNCHANGED vars
    BY <1>1 DEF vars
  <1>2. ASSUME NEW r \in Requests, RequestStep(r)
        PROVE  MemoInv'
    <2>1. CASE Arrive(r)
      BY <2>1 DEF Arrive, Goto
    <2>2. CASE BlockedBeforePipeline(r)
      BY <2>2 DEF BlockedBeforePipeline, Goto, Refusal
    <2>3. CASE AcquireIdem(r)
      BY <2>3 DEF AcquireIdem, Goto
    <2>4. CASE AcquireFp(r)
      BY <2>4 DEF AcquireFp, Goto
    <2>5. CASE LockTimeout(r)
      BY <2>5 DEF LockTimeout, Return, Refusal
    <2>6. CASE Release(r)
      BY <2>6 DEF Release, Goto
    <2>7. CASE Replay(r)
      BY <2>7 DEF Replay, Return
    <2>8. CASE KeyConflict(r)
      BY <2>8 DEF KeyConflict, Goto
    <2>9. CASE NewKey(r)
      BY <2>9 DEF NewKey, Goto
    <2>10. CASE CheckFingerprint(r)
      BY <2>10 DEF CheckFingerprint, Goto
    <2>11. CASE Decide(r)
      BY <2>11 DEF Decide, Verdicts, Goto
    <2>12. CASE Persist(r)
      BY <2>12 DEF Persist, Goto
    <2>13. CASE PersistRefused(r)
      BY <2>13 DEF PersistRefused, Return, Refusal
    <2>14. CASE Block(r)
      BY <2>14 DEF Block, CallSetState, Goto
    <2>15. CASE RequireApproval(r)
      BY <2>15 DEF RequireApproval, Goto
    <2>16. CASE RecordVelocity(r)
      BY <2>16 DEF RecordVelocity, Goto
    <2>17. CASE Authorize(r)
      BY <2>17 DEF Authorize, CallSetState, Goto
    <2>18. CASE Submit(r)
      <3>1. /\ pc[r] = "submit" /\ pc' = [pc EXCEPT ![r] = "post"]
            /\ UNCHANGED <<verdict, rstate, answer, idem, provider>>
        BY <2>18, SubmitEffect DEF BranchInv, Goto
      <3>2. \A q \in Requests : row'[q].decision = row[q].decision
        BY <2>18, SubmitEffect DEF BranchInv
      <3>3. StoredSay'
        BY <3>1
      <3>4. ASSUME NEW q \in Requests, answer'[q].kind = "replay"
            PROVE  /\ Says(answer[q].pa, KeyOf[q], PayloadOf[q],
                           answer[q].decision, answer[q].state)'
                   /\ pc'[q] \in {"release", "done", "crashed"}
                   /\ row'[q].decision = "none" /\ provider'[q] = "none"
        <4>1. q # r /\ row[q].decision = "none" /\ provider[q] = "none"
          BY <3>1, <3>4
        <4>2. row'[q].decision = "none"
          BY <3>2, <4>1
        <4> QED
          BY <3>1, <3>4, <4>1, <4>2
      <3> QED
        BY <3>3, <3>4
    <2>19. CASE PostCharge(r)
      BY <2>19 DEF PostCharge, Goto, Idle
    <2>20. CASE ProviderAnswers(r)
      BY <2>20 DEF ProviderAnswers, CallSetState, Goto, Charged
    <2>21. CASE ProviderTimeout(r)
      BY <2>21 DEF ProviderTimeout, CallSetState, Goto
    <2>22. CASE TimeoutToUnknown(r)
      BY <2>22 DEF TimeoutToUnknown, CallSetState, Goto, Idle
    <2>23. CASE AuditDecision(r)
      <3>1. CASE Goto(r, "remember_idem") /\ UNCHANGED answer
        BY <2>23, <3>1 DEF AuditDecision, Goto
      <3>2. CASE Return(r, Response(r))
        BY <2>23, <3>2 DEF AuditDecision, Return, Response
      <3> QED
        BY <2>23, <3>1, <3>2 DEF AuditDecision
    <2>24. CASE RememberIdem(r)
      <3>1. CASE Goto(r, "remember_fp") /\ UNCHANGED answer
        BY <2>24, <3>1 DEF RememberIdem, Goto
      <3>2. CASE Return(r, Response(r))
        BY <2>24, <3>2 DEF RememberIdem, Return, Response
      <3> QED
        BY <2>24, <3>1, <3>2 DEF RememberIdem
    <2>25. CASE RememberFp(r)
      BY <2>25 DEF RememberFp, Return, Response
    <2>26. CASE SetStateRaisesInRequest(r)
      <3>1. PICK kind \in {"error", "inflight"} : Return(r, Refusal(kind, r))
        BY <2>26 DEF SetStateRaisesInRequest
      <3> QED
        BY <2>26, <3>1 DEF SetStateRaisesInRequest, Return, Refusal
    <2> QED
      BY <1>2, <2>1, <2>2, <2>3, <2>4, <2>5, <2>6, <2>7, <2>8, <2>9, <2>10,
         <2>11, <2>12, <2>13, <2>14, <2>15, <2>16, <2>17, <2>18, <2>19, <2>20,
         <2>21, <2>22, <2>23, <2>24, <2>25, <2>26 DEF RequestStep
  <1>3. ASSUME NEW r \in Requests, CreateCharge(r)
        PROVE  MemoInv'
    BY <1>3 DEF CreateCharge
  <1>4. ASSUME NEW p \in Procs, SetStateStep(p)
        PROVE  MemoInv'
    <2>1. CASE SetStateRead(p)
      BY <2>1 DEF SetStateRead
    <2>2. CASE SetStateCommit(p)
      BY <2>2, CommitEffect DEF SetStateCommit, Procs
    <2>3. CASE SetStateAudit(p)
      BY <2>3 DEF SetStateAudit
    <2> QED
      BY <1>4, <2>1, <2>2, <2>3 DEF SetStateStep
  <1>5. ASSUME NEW s \in Sweepers, SweepStep(s)
        PROVE  MemoInv'
    <2>1. CASE ReconcileStart(s)
      BY <2>1 DEF ReconcileStart
    <2>2. CASE ExpireStart(s)
      BY <2>2 DEF ExpireStart
    <2>3. CASE SweepEnd(s)
      BY <2>3 DEF SweepEnd
    <2>4. CASE SetStateRaisesInSweep(s)
      BY <2>4 DEF SetStateRaisesInSweep
    <2>5. ASSUME NEW r \in Requests,
                  ReconcileAnswered(s, r) \/ ReconcileNoAnswer(s, r) \/ ExpireOne(s, r)
           PROVE  MemoInv'
      <3>1. CASE ReconcileAnswered(s, r)
        BY <3>1 DEF ReconcileAnswered, CallSetState
      <3>2. CASE ReconcileNoAnswer(s, r)
        BY <3>2 DEF ReconcileNoAnswer
      <3>3. CASE ExpireOne(s, r)
        BY <3>3 DEF ExpireOne, CallSetState
      <3> QED
        BY <2>5, <3>1, <3>2, <3>3
    <2> QED
      BY <1>5, <2>1, <2>2, <2>3, <2>4, <2>5 DEF SweepStep
  <1>6. CASE Environment
    <2>1. ASSUME NEW r \in Requests,
                  TokenExpires(r) \/ RowAges(r) \/ Outage(r) \/ Crash(r)
           PROVE  MemoInv'
      <3>1. CASE TokenExpires(r)
        BY <3>1 DEF TokenExpires
      <3>2. CASE RowAges(r)
        BY <3>2 DEF RowAges
      <3>3. CASE Outage(r)
        BY <3>3 DEF Outage, Return, Refusal
      <3>4. CASE Crash(r)
        BY <3>4 DEF Crash, Goto
      <3> QED
        BY <2>1, <3>1, <3>2, <3>3, <3>4
    <2>2. ASSUME NEW s \in Sweepers, SweepCrash(s)
           PROVE  MemoInv'
      BY <2>2 DEF SweepCrash
    <2>3. ASSUME NEW k \in Keys, IdemExpires(k) \/ IdemLockLapses(k)
           PROVE  MemoInv'
      <3>1. CASE IdemExpires(k)
        BY <3>1 DEF IdemExpires, NoRecord
      <3>2. CASE IdemLockLapses(k)
        BY <3>2 DEF IdemLockLapses, MayLapse
      <3> QED
        BY <2>3, <3>1, <3>2
    <2>4. ASSUME NEW f \in Fingerprints, FpLockLapses(f)
           PROVE  MemoInv'
      BY <2>4 DEF FpLockLapses, MayLapse
    <2> QED
      BY <1>6, <2>1, <2>2, <2>3, <2>4 DEF Environment
  <1> QED
    BY <1>1, <1>2, <1>3, <1>4, <1>5, <1>6 DEF Next

\* A replayed answer is the one its original computed, for the same key and
\* payload, and the request that got it left neither a row nor a charge:
\* check_duplicate and remember_outcome in payments.py.  Locks that
\* lapse, records that expire, crashes and outages included.
THEOREM ReplaysAreFaithful == Spec => []ReplayIsFaithful
  <1>1. Spec => [](TypeInv /\ KeyInv /\ BranchInv /\ MemoInv)
    BY TypeInit, TypeStep, KeyInit, KeyStep, BranchInit, BranchStep, MemoInit,
       MemoStep, PTL DEF Spec
  <1>2. MemoInv => ReplayIsFaithful
    BY DEF MemoInv, ReplaysSay, Says, ReplayIsFaithful, HasRow
  <1> QED
    BY <1>1, <1>2, PTL

-----------------------------------------------------------------------------
(***************************************************************************)
(* The trail of an allowed payment.  set_state writes its event before the *)
(* pipeline goes on, so each label of the ALLOW branch comes with the      *)
(* events of the states passed on the way to it, and the last one is there *)
(* once the last call is over.                                             *)
(***************************************************************************)
Log == [r \in Requests |-> {e \in Events : <<r, e>> \in trail}]

PassedLogged ==
    \A r \in Requests :
        /\ \/ pc[r] \in {"post", "await", "to_unknown"}
           \/ /\ pc[r] \in Answering /\ verdict[r] = "ALLOW"
              /\ rstate[r] # "AUTHORIZED"
           => "AUTHORIZED" \in Log[r]
        /\ \/ pc[r] \in {"await", "to_unknown"}
           \/ /\ pc[r] \in Answering /\ verdict[r] = "ALLOW"
              /\ rstate[r] # "AUTHORIZED"
           => "SUBMITTED" \in Log[r]
        /\ /\ pc[r] \in Answering /\ verdict[r] = "ALLOW"
           /\ rstate[r] = "UNKNOWN"
           => "TIMEOUT" \in Log[r]

ReachedLogged ==
    \A r \in Requests : phase[r] = "idle" =>
        /\ pc[r] = "submit" => "AUTHORIZED" \in Log[r]
        /\ pc[r] = "post" => "SUBMITTED" \in Log[r]
        /\ pc[r] = "to_unknown" => "TIMEOUT" \in Log[r]
        /\ pc[r] \in Answering /\ verdict[r] = "ALLOW" =>
              rstate[r] \in Log[r]

PathLogged(r, state) == PathTo[state] \subseteq Log[r]

AnswersLogged ==
    \A r \in Requests :
        /\ answer[r].kind = "decision" /\ answer[r].decision = "ALLOW" =>
              PathLogged(r, answer[r].state)
        /\ answer[r].kind = "decision" => pc[r] \in {"release", "done", "crashed"}

TrailInv == PassedLogged /\ ReachedLogged /\ AnswersLogged

\* The paths, by outcome.
LEMMA Paths ==
    /\ PathTo["AUTHORIZED"] = {"AUTHORIZED"}
    /\ PathTo["CONFIRMED"] = {"AUTHORIZED", "SUBMITTED", "CONFIRMED"}
    /\ PathTo["FAILED"] = {"AUTHORIZED", "SUBMITTED", "FAILED"}
    /\ PathTo["UNKNOWN"] = {"AUTHORIZED", "SUBMITTED", "TIMEOUT", "UNKNOWN"}
  BY DEF PathTo

LEMMA TrailInit == Init => TrailInv
  BY DEF Init, TrailInv, PassedLogged, ReachedLogged, AnswersLogged, NoAnswer,
         Answering

\* A request past its last set_state call has its whole path in the log.
LEMMA WholePath ==
    ASSUME TypeInv, BranchInv, TrailInv, NEW r \in Requests,
           pc[r] \in Answering, phase[r] = "idle", verdict[r] = "ALLOW"
    PROVE  PathLogged(r, rstate[r])
  <1>1. rstate[r] \in Outcomes
    BY DEF BranchInv, Branches
  <1> QED
    BY <1>1, Paths DEF TrailInv, PassedLogged, ReachedLogged, PathLogged, Outcomes

\* The log only grows, and a set_state call ends by adding its event.
LEMMA LogGrows ==
    ASSUME [Next]_vars
    PROVE  \A r \in Requests : Log[r] \subseteq Log'[r]
  <1> SUFFICES trail \subseteq trail'
    BY DEF Log
  <1> USE DEF requestVars, storeVars, timeVars, callVars, sweepVars
  <1>1. CASE UNCHANGED vars
    BY <1>1 DEF vars
  <1>2. ASSUME NEW r \in Requests, RequestStep(r)
        PROVE  trail \subseteq trail'
    BY <1>2
       DEF RequestStep, Arrive, BlockedBeforePipeline, AcquireIdem, AcquireFp,
           LockTimeout, Release, Replay, KeyConflict, NewKey,
           CheckFingerprint, Decide, Persist, PersistRefused, Block,
           RequireApproval, RecordVelocity, Authorize, Submit, PostCharge,
           ProviderAnswers, ProviderTimeout, TimeoutToUnknown, AuditDecision,
           RememberIdem, RememberFp, SetStateRaisesInRequest
  <1>3. ASSUME NEW r \in Requests, CreateCharge(r)
        PROVE  trail \subseteq trail'
    BY <1>3 DEF CreateCharge
  <1>4. ASSUME NEW p \in Procs, SetStateStep(p)
        PROVE  trail \subseteq trail'
    BY <1>4 DEF SetStateStep, SetStateRead, SetStateCommit, SetStateAudit
  <1>5. ASSUME NEW s \in Sweepers, SweepStep(s)
        PROVE  trail \subseteq trail'
    BY <1>5 DEF SweepStep, ReconcileStart, ExpireStart, SweepEnd,
                SetStateRaisesInSweep, ReconcileAnswered, ReconcileNoAnswer,
                ExpireOne
  <1>6. CASE Environment
    BY <1>6 DEF Environment, TokenExpires, RowAges, Outage, Crash, SweepCrash,
                IdemExpires, IdemLockLapses, FpLockLapses
  <1> QED
    BY <1>1, <1>2, <1>3, <1>4, <1>5, <1>6 DEF Next

LEMMA AuditEffect ==
    ASSUME TypeInv, NEW p \in Procs, SetStateAudit(p)
    PROVE  target[p] \in Log'[Pa(p)]
  BY DEF TypeInv, CallsTyped, SetStateAudit, Log, Events, PaymentState

\* No step moves a request on without the event of the state it leaves.
LEMMA TrailStep == TypeInv /\ BranchInv /\ TrailInv /\ [Next]_vars => TrailInv'
  <1> SUFFICES ASSUME TypeInv, BranchInv, TrailInv, [Next]_vars PROVE TrailInv'
    OBVIOUS
  <1>0. /\ pc \in [Requests -> Labels] /\ answer \in [Requests -> AnswerType]
        /\ phase \in [Procs -> {"idle", "read", "commit", "audit"}]
        /\ verdict \in [Requests -> Maybe(Decisions)]
        /\ rstate \in [Requests -> Maybe(PaymentState)]
    BY DEF TypeInv, TypeOK
  <1> USE <1>0, ProcsAssumption, LogGrows
      DEF TrailInv, PassedLogged, ReachedLogged, AnswersLogged, PathLogged,
          BranchInv, OwnCalls, Branches, AllowBranch, Answering, Outcomes,
          Undecided, Procs, requestVars, storeVars, timeVars, callVars,
          sweepVars
  <1>1. CASE UNCHANGED vars
    BY <1>1 DEF vars
  <1>2. ASSUME NEW r \in Requests, RequestStep(r)
        PROVE  TrailInv'
    <2>1. CASE Arrive(r)
      BY <2>1 DEF Arrive, Goto
    <2>2. CASE BlockedBeforePipeline(r)
      BY <2>2 DEF BlockedBeforePipeline, Goto, Refusal
    <2>3. CASE AcquireIdem(r)
      BY <2>3 DEF AcquireIdem, Goto
    <2>4. CASE AcquireFp(r)
      BY <2>4 DEF AcquireFp, Goto
    <2>5. CASE LockTimeout(r)
      BY <2>5 DEF LockTimeout, Return, Refusal
    <2>6. CASE Release(r)
      BY <2>6 DEF Release, Goto
    <2>7. CASE Replay(r)
      BY <2>7 DEF Replay, Return
    <2>8. CASE KeyConflict(r)
      BY <2>8 DEF KeyConflict, Goto
    <2>9. CASE NewKey(r)
      BY <2>9 DEF NewKey, Goto
    <2>10. CASE CheckFingerprint(r)
      BY <2>10 DEF CheckFingerprint, Goto
    <2>11. CASE Decide(r)
      BY <2>11 DEF Decide, Verdicts, Goto
    <2>12. CASE Persist(r)
      BY <2>12 DEF Persist, Goto
    <2>13. CASE PersistRefused(r)
      BY <2>13 DEF PersistRefused, Return, Refusal
    <2>14. CASE Block(r)
      BY <2>14 DEF Block, CallSetState, Goto
    <2>15. CASE RequireApproval(r)
      BY <2>15 DEF RequireApproval, Goto
    <2>16. CASE RecordVelocity(r)
      BY <2>16 DEF RecordVelocity, Goto
    <2>17. CASE Authorize(r)
      BY <2>17 DEF Authorize, CallSetState, Goto
    <2>18. CASE Submit(r)
      <3>1. /\ pc[r] = "submit" /\ phase[r] = "idle"
            /\ pc' = [pc EXCEPT ![r] = "post"] /\ phase' = [phase EXCEPT ![r] = "read"]
            /\ UNCHANGED <<verdict, rstate, answer, trail>>
        BY <2>18, SubmitEffect DEF Goto, CallSetState
      <3>2. PassedLogged'
        BY <3>1
      <3>3. ReachedLogged'
        BY <3>1
      <3>4. AnswersLogged'
        BY <3>1
      <3> QED
        BY <3>2, <3>3, <3>4
    <2>19. CASE PostCharge(r)
      <3>1. PassedLogged'
        BY <2>19 DEF PostCharge, Goto, Idle
      <3>2. ReachedLogged' /\ AnswersLogged'
        BY <2>19 DEF PostCharge, Goto
      <3> QED
        BY <3>1, <3>2
    <2>20. CASE ProviderAnswers(r)
      BY <2>20 DEF ProviderAnswers, CallSetState, Goto, Charged
    <2>21. CASE ProviderTimeout(r)
      BY <2>21 DEF ProviderTimeout, CallSetState, Goto
    <2>22. CASE TimeoutToUnknown(r)
      BY <2>22 DEF TimeoutToUnknown, CallSetState, Goto, Idle
    <2>23. CASE AuditDecision(r)
      <3>1. /\ pc[r] = "decision_audit" /\ phase[r] = "idle" /\ trail \subseteq trail'
            /\ UNCHANGED <<verdict, rstate, phase>>
        BY <2>23 DEF AuditDecision, Idle
      <3>2. CASE Goto(r, "remember_idem") /\ UNCHANGED answer
        BY <3>1, <3>2 DEF Goto
      <3>3. CASE Return(r, Response(r))
        <4>1. PassedLogged' /\ ReachedLogged'
          BY <3>1, <3>3 DEF Return
        <4>2. verdict[r] = "ALLOW" => PathLogged(r, rstate[r])
          BY <3>1, WholePath
        <4>3. AnswersLogged'
          BY <3>1, <3>3, <4>2 DEF Return, Response
        <4> QED
          BY <4>1, <4>3
      <3> QED
        BY <2>23, <3>2, <3>3 DEF AuditDecision
    <2>24. CASE RememberIdem(r)
      <3>1. CASE Goto(r, "remember_fp") /\ UNCHANGED answer
        BY <2>24, <3>1 DEF RememberIdem, Goto
      <3>2. CASE Return(r, Response(r))
        BY <2>24, <3>2 DEF RememberIdem, Return, Response
      <3> QED
        BY <2>24, <3>1, <3>2 DEF RememberIdem
    <2>25. CASE RememberFp(r)
      <3>1. phase[r] = "idle" /\ verdict[r] = "ALLOW"
        BY <2>25 DEF RememberFp
      <3>2. PathLogged(r, rstate[r])
        BY <2>25, <3>1, WholePath DEF RememberFp
      <3>3. PassedLogged' /\ ReachedLogged'
        BY <2>25 DEF RememberFp, Return
      <3>4. AnswersLogged'
        BY <2>25, <3>2 DEF RememberFp, Return, Response
      <3> QED
        BY <3>3, <3>4
    <2>26. CASE SetStateRaisesInRequest(r)
      <3>1. PICK kind \in {"error", "inflight"} : Return(r, Refusal(kind, r))
        BY <2>26 DEF SetStateRaisesInRequest
      <3> QED
        BY <2>26, <3>1 DEF SetStateRaisesInRequest, Return, Refusal
    <2> QED
      BY <1>2, <2>1, <2>2, <2>3, <2>4, <2>5, <2>6, <2>7, <2>8, <2>9, <2>10,
         <2>11, <2>12, <2>13, <2>14, <2>15, <2>16, <2>17, <2>18, <2>19, <2>20,
         <2>21, <2>22, <2>23, <2>24, <2>25, <2>26 DEF RequestStep
  <1>3. ASSUME NEW r \in Requests, CreateCharge(r)
        PROVE  TrailInv'
    BY <1>3 DEF CreateCharge
  <1>4. ASSUME NEW p \in Procs, SetStateStep(p)
        PROVE  TrailInv'
    <2>1. CASE SetStateRead(p)
      BY <2>1 DEF SetStateRead
    <2>2. CASE SetStateCommit(p)
      BY <2>2 DEF SetStateCommit
    <2>3. CASE SetStateAudit(p)
      <3>1. CASE p \in Requests
        <4>1. Pa(p) = p /\ target[p] \in Log'[p]
          BY <2>3, <3>1, AuditEffect DEF Pa
        <4> QED
          BY <2>3, <3>1, <4>1 DEF SetStateAudit
      <3>2. CASE p \notin Requests
        BY <2>3, <3>2 DEF SetStateAudit
      <3> QED
        BY <3>1, <3>2
    <2> QED
      BY <1>4, <2>1, <2>2, <2>3 DEF SetStateStep
  <1>5. ASSUME NEW s \in Sweepers, SweepStep(s)
        PROVE  TrailInv'
    <2>1. CASE ReconcileStart(s)
      BY <2>1 DEF ReconcileStart
    <2>2. CASE ExpireStart(s)
      BY <2>2 DEF ExpireStart
    <2>3. CASE SweepEnd(s)
      BY <2>3 DEF SweepEnd
    <2>4. CASE SetStateRaisesInSweep(s)
      BY <2>4 DEF SetStateRaisesInSweep
    <2>5. ASSUME NEW r \in Requests,
                  ReconcileAnswered(s, r) \/ ReconcileNoAnswer(s, r) \/ ExpireOne(s, r)
           PROVE  TrailInv'
      <3>1. CASE ReconcileAnswered(s, r)
        BY <3>1 DEF ReconcileAnswered, CallSetState
      <3>2. CASE ReconcileNoAnswer(s, r)
        BY <3>2 DEF ReconcileNoAnswer
      <3>3. CASE ExpireOne(s, r)
        BY <3>3 DEF ExpireOne, CallSetState
      <3> QED
        BY <2>5, <3>1, <3>2, <3>3
    <2> QED
      BY <1>5, <2>1, <2>2, <2>3, <2>4, <2>5 DEF SweepStep
  <1>6. CASE Environment
    <2>1. ASSUME NEW r \in Requests,
                  TokenExpires(r) \/ RowAges(r) \/ Outage(r) \/ Crash(r)
           PROVE  TrailInv'
      <3>1. CASE TokenExpires(r)
        BY <3>1 DEF TokenExpires
      <3>2. CASE RowAges(r)
        BY <3>2 DEF RowAges
      <3>3. CASE Outage(r)
        BY <3>3 DEF Outage, Return, Refusal
      <3>4. CASE Crash(r)
        BY <3>4 DEF Crash, Goto
      <3> QED
        BY <2>1, <3>1, <3>2, <3>3, <3>4
    <2>2. ASSUME NEW s \in Sweepers, SweepCrash(s)
           PROVE  TrailInv'
      BY <2>2 DEF SweepCrash
    <2>3. ASSUME NEW k \in Keys, IdemExpires(k) \/ IdemLockLapses(k)
           PROVE  TrailInv'
      <3>1. CASE IdemExpires(k)
        BY <3>1 DEF IdemExpires, NoRecord
      <3>2. CASE IdemLockLapses(k)
        BY <3>2 DEF IdemLockLapses, MayLapse
      <3> QED
        BY <2>3, <3>1, <3>2
    <2>4. ASSUME NEW f \in Fingerprints, FpLockLapses(f)
           PROVE  TrailInv'
      BY <2>4 DEF FpLockLapses, MayLapse
    <2> QED
      BY <1>6, <2>1, <2>2, <2>3, <2>4 DEF Environment
  <1> QED
    BY <1>1, <1>2, <1>3, <1>4, <1>5, <1>6 DEF Next

\* An ALLOW the client sees has every transition on its path in the audit log:
\* set_state lets a failed write through as an exception, so nobody is answered
\* past it.  Whatever fails, the audit store included.
THEOREM AllowsAreAudited == Spec => []AnsweredAllowIsAudited
  <1>1. Spec => [](TypeInv /\ BranchInv /\ TrailInv)
    BY TypeInit, TypeStep, BranchInit, BranchStep, TrailInit, TrailStep, PTL
       DEF Spec
  <1>2. TrailInv => AnsweredAllowIsAudited
    BY DEF TrailInv, AnswersLogged, PathLogged, Log, AnsweredAllowIsAudited
  <1> QED
    BY <1>1, <1>2, PTL


-----------------------------------------------------------------------------
(***************************************************************************)
(* Money that left is counted, as long as the provider does nothing with a *)
(* charge request the gateway has given up on.  A charge can only come of  *)
(* a request whose SUBMITTED has been committed (Past); while it has come, *)
(* or still may (Live), the row holds a state the policy's sum counts.     *)
(* Reconciliation writes FAILED only where the provider has settled the    *)
(* matter without a charge, expiry writes EXPIRED only under a token the   *)
(* provider refuses.                                                       *)
(***************************************************************************)
Resolved(r) == provider[r] \in {"lost", "refused", "declined", "confirmed"}

Past(r) ==
    \/ provider[r] # "none"
    \/ pc[r] = "post" /\ phase[r] \in {"idle", "audit"}

Live(r) ==
    \/ Charged(r)
    \/ Past(r) /\ ~Resolved(r) /\ r \notin expired

RowsCount ==
    \A r \in Requests :
        /\ pc[r] \in AllowBranch \/ provider[r] # "none" => r \in velocity
        /\ pc[r] \in {"await", "to_unknown"} => provider[r] # "none"
        /\ Past(r) => row[r].state \notin {"none", "CREATED", "AUTHORIZED"}
        /\ Live(r) => row[r].state \in SETTLED_STATES
        /\ \/ row[r].state = "UNKNOWN" \/ rstate[r] = "UNKNOWN"
           \/ pc[r] = "to_unknown"
           => Resolved(r)
        /\ pc[r] = "decision_audit" /\ rstate[r] = "AUTHORIZED" =>
              provider[r] = "none"

SweepsCount ==
    \A s \in Sweepers :
        /\ phase[s] # "idle" =>
              \/ target[s] = "CONFIRMED"
              \/ /\ target[s] = "FAILED"
                 /\ Resolved(cur[s]) /\ ~Charged(cur[s])
              \/ /\ target[s] = "EXPIRED"
                 /\ cur[s] \in expired /\ ~Charged(cur[s])
        /\ sweep[s] = "off" => pending[s] = {}
        /\ sweep[s] = "reconcile" => \A r \in pending[s] : Resolved(r)
        /\ sweep[s] = "expire" =>
              \A r \in pending[s] : r \in expired /\ ~Charged(r)

SpentInv == RowsCount /\ SweepsCount

LEMMA SpentInit == Init => SpentInv
  BY DEF Init, SpentInv, RowsCount, SweepsCount, Past, Live, Charged,
         AllowBranch, NoRow, Procs

\* No step lets a charge, made or still possible, fall out of the sum.
LEMMA SpentStep ==
    ASSUME "late" \notin Faults, TypeInv, KeyInv, TruthInv, BranchInv, SpentInv,
           [Next]_vars
    PROVE  SpentInv'
  <1>0. \A r \in Requests :
           /\ pc[r] \in Unposted => provider[r] = "none"
           /\ rstate[r] = "FAILED" => provider[r] \notin Final
           /\ rstate[r] = "CONFIRMED" => Charged(r)
    BY DEF KeyInv, TruthInv, ReportInv, ResponsesTrue
  <1> USE <1>0, ProcsAssumption
      DEF TypeInv, TypeOK, CallsTyped, OwnCalls, BranchInv, SpentInv,
          RowsCount, SweepsCount, Past, Live, Resolved, Charged, Final,
          AllowBranch, Unposted, Outcomes, SETTLED_STATES, Procs, Pa,
          requestVars, storeVars, timeVars, callVars, sweepVars
  <1>1. CASE UNCHANGED vars
    BY <1>1 DEF vars
  <1>2. ASSUME NEW r \in Requests, RequestStep(r)
        PROVE  SpentInv'
    <2>1. CASE Arrive(r)
      BY <2>1 DEF Arrive, Goto
    <2>2. CASE BlockedBeforePipeline(r)
      BY <2>2 DEF BlockedBeforePipeline, Goto, Refusal
    <2>3. CASE AcquireIdem(r)
      BY <2>3 DEF AcquireIdem, Goto
    <2>4. CASE AcquireFp(r)
      BY <2>4 DEF AcquireFp, Goto
    <2>5. CASE LockTimeout(r)
      BY <2>5 DEF LockTimeout, Return, Refusal
    <2>6. CASE Release(r)
      BY <2>6 DEF Release, Goto
    <2>7. CASE Replay(r)
      BY <2>7 DEF Replay, Return
    <2>8. CASE KeyConflict(r)
      BY <2>8 DEF KeyConflict, Goto
    <2>9. CASE NewKey(r)
      BY <2>9 DEF NewKey, Goto
    <2>10. CASE CheckFingerprint(r)
      BY <2>10 DEF CheckFingerprint, Goto
    <2>11. CASE Decide(r)
      BY <2>11 DEF Decide, Verdicts, Goto
    <2>12. CASE Persist(r)
      BY <2>12 DEF Persist, Goto
    <2>13. CASE PersistRefused(r)
      BY <2>13 DEF PersistRefused, Return, Refusal
    <2>14. CASE Block(r)
      BY <2>14 DEF Block, CallSetState, Goto
    <2>15. CASE RequireApproval(r)
      BY <2>15 DEF RequireApproval, Goto
    <2>16. CASE RecordVelocity(r)
      BY <2>16 DEF RecordVelocity, Goto
    <2>17. CASE Authorize(r)
      BY <2>17 DEF Authorize, CallSetState, Goto
    <2>18. CASE Submit(r)
      <3>1. /\ pc[r] = "submit" /\ phase[r] = "idle"
            /\ pc' = [pc EXCEPT ![r] = "post"] /\ phase' = [phase EXCEPT ![r] = "read"]
            /\ UNCHANGED <<rstate, velocity, expired, provider, sweepVars>>
            /\ target' = [target EXCEPT ![r] = "SUBMITTED"]
        BY <2>18, SubmitEffect DEF Goto, CallSetState
      <3>2. \A q \in Requests : row'[q].state = row[q].state
        BY <2>18, SubmitEffect
      <3>3. RowsCount'
        BY <3>1, <3>2
      <3>4. SweepsCount'
        BY <3>1
      <3> QED
        BY <3>3, <3>4
    <2>19. CASE PostCharge(r)
      BY <2>19 DEF PostCharge, Goto, Idle
    <2>20. CASE ProviderAnswers(r)
      BY <2>20 DEF ProviderAnswers, CallSetState, Goto
    <2>21. CASE ProviderTimeout(r)
      <3>1. /\ pc[r] = "await" /\ pc' = [pc EXCEPT ![r] = "to_unknown"]
            /\ phase' = [phase EXCEPT ![r] = "read"]
            /\ target' = [target EXCEPT ![r] = "TIMEOUT"]
            /\ UNCHANGED <<rstate, row, velocity, expired, sweepVars>>
        BY <2>21 DEF ProviderTimeout, CallSetState, Goto
      <3>2. /\ provider \in [Requests -> {"none", "sent", "lost", "refused",
                                           "declined", "confirmed"}]
            /\ \/ provider[r] # "sent" /\ provider' = provider
               \/ provider[r] = "sent" /\ provider' = [provider EXCEPT ![r] = "lost"]
        BY <2>21 DEF ProviderTimeout
      <3>3. provider[r] # "none"
        BY <3>1
      <3>4. /\ \A q \in Requests : /\ Charged(q)' <=> Charged(q)
                                   /\ Resolved(q) => Resolved(q)'
            /\ \A q \in Requests \ {r} : provider'[q] = provider[q]
            /\ Resolved(r)' /\ r \in velocity
        BY <3>1, <3>2, <3>3
      <3>5. RowsCount'
        BY <3>1, <3>3, <3>4
      <3>6. SweepsCount'
        BY <3>1, <3>4
      <3> QED
        BY <3>5, <3>6
    <2>22. CASE TimeoutToUnknown(r)
      BY <2>22 DEF TimeoutToUnknown, CallSetState, Goto, Idle
    <2>23. CASE AuditDecision(r)
      <3>1. CASE Goto(r, "remember_idem") /\ UNCHANGED answer
        BY <2>23, <3>1 DEF AuditDecision, Goto
      <3>2. CASE Return(r, Response(r))
        BY <2>23, <3>2 DEF AuditDecision, Return, Response
      <3> QED
        BY <2>23, <3>1, <3>2 DEF AuditDecision
    <2>24. CASE RememberIdem(r)
      <3>1. CASE Goto(r, "remember_fp") /\ UNCHANGED answer
        BY <2>24, <3>1 DEF RememberIdem, Goto
      <3>2. CASE Return(r, Response(r))
        BY <2>24, <3>2 DEF RememberIdem, Return, Response
      <3> QED
        BY <2>24, <3>1, <3>2 DEF RememberIdem
    <2>25. CASE RememberFp(r)
      BY <2>25 DEF RememberFp, Return, Response
    <2>26. CASE SetStateRaisesInRequest(r)
      <3>1. pc' = [pc EXCEPT ![r] = "release"] /\ phase' = [phase EXCEPT ![r] = "idle"]
        BY <2>26 DEF SetStateRaisesInRequest, Return
      <3>2. RowsCount'
        BY <2>26, <3>1 DEF SetStateRaisesInRequest
      <3>3. SweepsCount'
        BY <2>26, <3>1 DEF SetStateRaisesInRequest
      <3> QED
        BY <3>2, <3>3
    <2> QED
      BY <1>2, <2>1, <2>2, <2>3, <2>4, <2>5, <2>6, <2>7, <2>8, <2>9, <2>10,
         <2>11, <2>12, <2>13, <2>14, <2>15, <2>16, <2>17, <2>18, <2>19, <2>20,
         <2>21, <2>22, <2>23, <2>24, <2>25, <2>26 DEF RequestStep
  <1>3. ASSUME NEW r \in Requests, CreateCharge(r)
        PROVE  SpentInv'
    BY <1>3 DEF CreateCharge
  <1>4. ASSUME NEW p \in Procs, SetStateStep(p)
        PROVE  SpentInv'
    <2>1. CASE SetStateRead(p)
      BY <2>1 DEF SetStateRead
    <2>2. CASE SetStateCommit(p)
      BY <2>2, CommitEffect DEF SetStateCommit
    <2>3. CASE SetStateAudit(p)
      BY <2>3 DEF SetStateAudit
    <2> QED
      BY <1>4, <2>1, <2>2, <2>3 DEF SetStateStep
  <1>5. ASSUME NEW s \in Sweepers, SweepStep(s)
        PROVE  SpentInv'
    <2>1. CASE ReconcileStart(s)
      BY <2>1 DEF ReconcileStart
    <2>2. CASE ExpireStart(s)
      <3>1. \A r \in expired : row[r].state = "AUTHORIZED" => ~Charged(r)
        OBVIOUS
      <3>2. RowsCount'
        BY <2>2 DEF ExpireStart
      <3>3. SweepsCount'
        BY <2>2, <3>1 DEF ExpireStart
      <3> QED
        BY <3>2, <3>3
    <2>3. CASE SweepEnd(s)
      BY <2>3 DEF SweepEnd
    <2>4. CASE SetStateRaisesInSweep(s)
      BY <2>4 DEF SetStateRaisesInSweep
    <2>5. ASSUME NEW r \in Requests,
                  ReconcileAnswered(s, r) \/ ReconcileNoAnswer(s, r) \/ ExpireOne(s, r)
           PROVE  SpentInv'
      <3>1. CASE ReconcileAnswered(s, r)
        BY <3>1 DEF ReconcileAnswered, CallSetState
      <3>2. CASE ReconcileNoAnswer(s, r)
        BY <3>2 DEF ReconcileNoAnswer
      <3>3. CASE ExpireOne(s, r)
        BY <3>3 DEF ExpireOne, CallSetState
      <3> QED
        BY <2>5, <3>1, <3>2, <3>3
    <2> QED
      BY <1>5, <2>1, <2>2, <2>3, <2>4, <2>5 DEF SweepStep
  <1>6. CASE Environment
    <2>1. ASSUME NEW r \in Requests,
                  TokenExpires(r) \/ RowAges(r) \/ Outage(r) \/ Crash(r)
           PROVE  SpentInv'
      <3>1. CASE TokenExpires(r)
        BY <3>1 DEF TokenExpires
      <3>2. CASE RowAges(r)
        BY <3>2 DEF RowAges
      <3>3. CASE Outage(r)
        <4>1. RowsCount'
          BY <3>3 DEF Outage, Return
        <4>2. SweepsCount'
          BY <3>3 DEF Outage
        <4> QED
          BY <4>1, <4>2
      <3>4. CASE Crash(r)
        <4>1. RowsCount'
          BY <3>4 DEF Crash, Goto
        <4>2. SweepsCount'
          BY <3>4 DEF Crash
        <4> QED
          BY <4>1, <4>2
      <3> QED
        BY <2>1, <3>1, <3>2, <3>3, <3>4
    <2>2. ASSUME NEW s \in Sweepers, SweepCrash(s)
           PROVE  SpentInv'
      BY <2>2 DEF SweepCrash
    <2>3. ASSUME NEW k \in Keys, IdemExpires(k) \/ IdemLockLapses(k)
           PROVE  SpentInv'
      <3>1. CASE IdemExpires(k)
        BY <3>1 DEF IdemExpires, NoRecord
      <3>2. CASE IdemLockLapses(k)
        BY <3>2 DEF IdemLockLapses, MayLapse
      <3> QED
        BY <2>3, <3>1, <3>2
    <2>4. ASSUME NEW f \in Fingerprints, FpLockLapses(f)
           PROVE  SpentInv'
      BY <2>4 DEF FpLockLapses, MayLapse
    <2> QED
      BY <1>6, <2>1, <2>2, <2>3, <2>4 DEF Environment
  <1> QED
    BY <1>1, <1>2, <1>3, <1>4, <1>5, <1>6 DEF Next

\* A charge the provider made is in a state load_context sums and in the
\* velocity window, whatever two sweeps, a slow pipeline, failing audit writes
\* or crashes do to its row.  The provider must not act on a charge request
\* after the gateway's timeout has declared it unknown ("late").
THEOREM ChargesAreCounted ==
    ASSUME "late" \notin Faults
    PROVE  Spec => []ChargedCountsAsSpent
  <1>1. Spec => [](TypeInv /\ KeyInv /\ TruthInv /\ BranchInv /\ SpentInv)
    BY TypeInit, TypeStep, KeyInit, KeyStep, TruthInit, TruthStep, BranchInit,
       BranchStep, SpentInit, SpentStep, PTL DEF Spec
  <1>2. SpentInv => ChargedCountsAsSpent
    BY DEF SpentInv, RowsCount, Live, Charged, ChargedCountsAsSpent
  <1> QED
    BY <1>1, <1>2, PTL

-----------------------------------------------------------------------------
(***************************************************************************)
(* The state machine.  set_state checks the transition when it reads the   *)
(* row and writes later, with no lock in between, so a transition is valid *)
(* only if nobody else writes the row meanwhile.  Sweepers write a row only *)
(* when its own request has no write ahead of it (Quiet), or when its token *)
(* expired before it was charged: then it never will be (not Chargeable).  *)
(* Any other request finds its row as it left it.                          *)
(***************************************************************************)
Quiet(r) ==
    /\ pc[r] \in Answering \cup {"release", "done", "crashed"}
    /\ phase[r] \notin {"read", "commit"}

Chargeable(r) == Charged(r) \/ r \notin expired

FoundAsLeft(r) ==
    /\ pc[r] \in Undecided \cup {"persist"} => row[r].state = "none"
    /\ pc[r] \in {"authorization", "authorize"} => row[r].state = "CREATED"
    /\ phase[r] \in {"idle", "audit"} =>
          /\ pc[r] = "submit" => row[r].state = "AUTHORIZED"
          /\ pc[r] \in {"post", "await"} => row[r].state = "SUBMITTED"
          /\ pc[r] = "to_unknown" => row[r].state = "TIMEOUT"
    /\ phase[r] \in {"read", "commit"} =>
          /\ row[r].state # "none"
          /\ assert_transition(row[r].state, target[r])
    /\ provider[r] # "none" => row[r].state \notin {"none", "CREATED", "AUTHORIZED"}

RowsInOrder ==
    \A r \in Requests :
        /\ Chargeable(r) => FoundAsLeft(r)
        /\ pc[r] = "decision_audit" /\ rstate[r] = "AUTHORIZED" =>
              provider[r] = "none"
        /\ row[r].state = "UNKNOWN" => Quiet(r)
        /\ r \in expired /\ "token_expiry" \notin Faults => Quiet(r)

SweepsInOrder ==
    \A s \in Sweepers :
        /\ \A r \in pending[s] : Quiet(r) \/ ~Chargeable(r)
        /\ phase[s] # "idle" =>
              /\ Quiet(cur[s]) \/ ~Chargeable(cur[s])
              /\ target[s] \in {"CONFIRMED", "FAILED", "EXPIRED"}

OrderInv == RowsInOrder /\ SweepsInOrder

\* The table of transitions, state by state.
LEMMA ValidFrom ==
    /\ VALID_TRANSITIONS["CREATED"] = {"AUTHORIZED", "FAILED"}
    /\ VALID_TRANSITIONS["AUTHORIZED"] = {"SUBMITTED", "EXPIRED", "FAILED"}
    /\ VALID_TRANSITIONS["SUBMITTED"] = {"CONFIRMED", "FAILED", "TIMEOUT"}
    /\ VALID_TRANSITIONS["TIMEOUT"] = {"UNKNOWN"}
    /\ VALID_TRANSITIONS["UNKNOWN"] = {"CONFIRMED", "FAILED"}
    /\ VALID_TRANSITIONS["CONFIRMED"] = {}
    /\ VALID_TRANSITIONS["FAILED"] = {}
    /\ VALID_TRANSITIONS["EXPIRED"] = {}
  BY DEF VALID_TRANSITIONS

LEMMA OrderInit == Init => OrderInv
  BY DEF Init, OrderInv, RowsInOrder, FoundAsLeft, SweepsInOrder, NoRow, Undecided,
         Procs

\* Each request finds its row as it left it, and each sweeper a row that is
\* done with its own request.
LEMMA OrderStep ==
    ASSUME TypeInv, KeyInv, BranchInv, OrderInv, [Next]_vars
    PROVE  OrderInv'
  <1>0. \A r \in Requests : pc[r] \in Unposted => provider[r] = "none"
    BY DEF KeyInv
  <1> USE <1>0, ProcsAssumption
      DEF TypeInv, TypeOK, CallsTyped, OwnCalls, BranchInv, OrderInv,
          RowsInOrder, FoundAsLeft, SweepsInOrder, Chargeable, Charged, Quiet,
          Answering, Undecided, Unposted, Outcomes, Procs, Pa,
          assert_transition, requestVars, storeVars, timeVars, callVars,
          sweepVars
  <1>1. CASE UNCHANGED vars
    BY <1>1 DEF vars
  <1>2. ASSUME NEW r \in Requests, RequestStep(r)
        PROVE  OrderInv'
    <2>1. CASE Arrive(r)
      BY <2>1 DEF Arrive, Goto
    <2>2. CASE BlockedBeforePipeline(r)
      BY <2>2 DEF BlockedBeforePipeline, Goto, Refusal
    <2>3. CASE AcquireIdem(r)
      BY <2>3 DEF AcquireIdem, Goto
    <2>4. CASE AcquireFp(r)
      BY <2>4 DEF AcquireFp, Goto
    <2>5. CASE LockTimeout(r)
      BY <2>5 DEF LockTimeout, Return, Refusal
    <2>6. CASE Release(r)
      BY <2>6 DEF Release, Goto
    <2>7. CASE Replay(r)
      BY <2>7 DEF Replay, Return
    <2>8. CASE KeyConflict(r)
      BY <2>8 DEF KeyConflict, Goto
    <2>9. CASE NewKey(r)
      BY <2>9 DEF NewKey, Goto
    <2>10. CASE CheckFingerprint(r)
      BY <2>10 DEF CheckFingerprint, Goto
    <2>11. CASE Decide(r)
      BY <2>11 DEF Decide, Verdicts, Goto
    <2>12. CASE Persist(r)
      BY <2>12 DEF Persist, Goto
    <2>13. CASE PersistRefused(r)
      BY <2>13 DEF PersistRefused, Return, Refusal
    <2>14. CASE Block(r)
      BY <2>14, ValidFrom DEF Block, CallSetState, Goto
    <2>15. CASE RequireApproval(r)
      BY <2>15 DEF RequireApproval, Goto
    <2>16. CASE RecordVelocity(r)
      BY <2>16 DEF RecordVelocity, Goto
    <2>17. CASE Authorize(r)
      BY <2>17, ValidFrom DEF Authorize, CallSetState, Goto
    <2>18. CASE Submit(r)
      <3>1. /\ pc[r] = "submit" /\ phase[r] = "idle"
            /\ pc' = [pc EXCEPT ![r] = "post"] /\ phase' = [phase EXCEPT ![r] = "read"]
            /\ UNCHANGED <<rstate, provider, expired, sweepVars>>
            /\ target' = [target EXCEPT ![r] = "SUBMITTED"]
        BY <2>18, SubmitEffect DEF Submit, Goto, CallSetState
      <3>2. \A q \in Requests : row'[q].state = row[q].state
        BY <2>18, SubmitEffect
      <3>3. Chargeable(r) => row[r].state = "AUTHORIZED"
        BY <3>1
      <3>4. Chargeable(r) => assert_transition(row'[r].state, "SUBMITTED")
        BY <3>2, <3>3, ValidFrom
      <3>5. RowsInOrder'
        <4> SUFFICES ASSUME NEW q \in Requests
                     PROVE  /\ Chargeable(q)' => FoundAsLeft(q)'
                            /\ pc'[q] = "decision_audit" /\ rstate'[q] = "AUTHORIZED" =>
                                  provider'[q] = "none"
                            /\ row'[q].state = "UNKNOWN" => Quiet(q)'
                            /\ q \in expired' /\ "token_expiry" \notin Faults => Quiet(q)'
          OBVIOUS
        <4>1. CASE q = r
          <5>1. /\ pc'[r] = "post" /\ phase'[r] = "read" /\ target'[r] = "SUBMITTED"
                /\ provider'[r] = "none" /\ provider[r] = "none" /\ expired' = expired
            BY <3>1
          <5>2. ~Quiet(r)
            BY <3>1
          <5>3. /\ row[r].state # "UNKNOWN"
                /\ ~(r \in expired /\ "token_expiry" \notin Faults)
            BY <5>2
          <5>4. Chargeable(r)' => FoundAsLeft(r)'
            BY <3>2, <3>3, <3>4, <5>1
          <5> QED
            BY <3>2, <4>1, <5>1, <5>3, <5>4
        <4>2. CASE q # r
          <5>1. /\ pc'[q] = pc[q] /\ phase'[q] = phase[q] /\ target'[q] = target[q]
                /\ row'[q].state = row[q].state /\ expired' = expired
                /\ provider'[q] = provider[q] /\ rstate'[q] = rstate[q]
            BY <3>1, <3>2, <4>2
          <5> QED
            BY <5>1
        <4> QED
          BY <4>1, <4>2
      <3>6. SweepsInOrder'
        BY <3>1, <3>2
      <3> QED
        BY <3>5, <3>6
    <2>19. CASE PostCharge(r)
      BY <2>19 DEF PostCharge, Goto, Idle
    <2>20. CASE ProviderAnswers(r)
      BY <2>20, ValidFrom DEF ProviderAnswers, CallSetState, Goto, Charged
    <2>21. CASE ProviderTimeout(r)
      <3>1. /\ pc[r] = "await" /\ pc' = [pc EXCEPT ![r] = "to_unknown"]
            /\ phase' = [phase EXCEPT ![r] = "read"]
            /\ target' = [target EXCEPT ![r] = "TIMEOUT"]
            /\ \A q \in Requests :
                  /\ (provider'[q] = "none") <=> (provider[q] = "none")
                  /\ (provider'[q] = "confirmed") <=> (provider[q] = "confirmed")
            /\ UNCHANGED <<rstate, row, expired, sweepVars>>
        BY <2>21 DEF ProviderTimeout, CallSetState, Goto
      <3>2. Chargeable(r) => row[r].state = "SUBMITTED"
        BY <3>1
      <3>3. RowsInOrder'
        BY <3>1, <3>2, ValidFrom
      <3>4. SweepsInOrder'
        BY <3>1
      <3> QED
        BY <3>3, <3>4
    <2>22. CASE TimeoutToUnknown(r)
      BY <2>22, ValidFrom DEF TimeoutToUnknown, CallSetState, Goto, Idle
    <2>23. CASE AuditDecision(r)
      <3>1. CASE Goto(r, "remember_idem") /\ UNCHANGED answer
        BY <2>23, <3>1 DEF AuditDecision, Goto
      <3>2. CASE Return(r, Response(r))
        BY <2>23, <3>2 DEF AuditDecision, Return, Response
      <3> QED
        BY <2>23, <3>1, <3>2 DEF AuditDecision
    <2>24. CASE RememberIdem(r)
      <3>1. CASE Goto(r, "remember_fp") /\ UNCHANGED answer
        BY <2>24, <3>1 DEF RememberIdem, Goto
      <3>2. CASE Return(r, Response(r))
        BY <2>24, <3>2 DEF RememberIdem, Return, Response
      <3> QED
        BY <2>24, <3>1, <3>2 DEF RememberIdem
    <2>25. CASE RememberFp(r)
      BY <2>25 DEF RememberFp, Return, Response
    <2>26. CASE SetStateRaisesInRequest(r)
      <3>1. PICK kind \in {"error", "inflight"} : Return(r, Refusal(kind, r))
        BY <2>26 DEF SetStateRaisesInRequest
      <3> QED
        BY <2>26, <3>1 DEF SetStateRaisesInRequest, Return, Refusal
    <2> QED
      BY <1>2, <2>1, <2>2, <2>3, <2>4, <2>5, <2>6, <2>7, <2>8, <2>9, <2>10,
         <2>11, <2>12, <2>13, <2>14, <2>15, <2>16, <2>17, <2>18, <2>19, <2>20,
         <2>21, <2>22, <2>23, <2>24, <2>25, <2>26 DEF RequestStep
  <1>3. ASSUME NEW r \in Requests, CreateCharge(r)
        PROVE  OrderInv'
    BY <1>3 DEF CreateCharge
  <1>4. ASSUME NEW p \in Procs, SetStateStep(p)
        PROVE  OrderInv'
    <2>1. CASE SetStateRead(p)
      BY <2>1 DEF SetStateRead
    <2>2. CASE SetStateCommit(p)
      <3>1. /\ row'[Pa(p)].state = target[p] /\ Pa(p) \in Requests
            /\ \A q \in Requests : q # Pa(p) => row'[q] = row[q]
        BY <2>2, CommitEffect
      <3>2. CASE p \in Requests
        <4>1. Pa(p) = p /\ p \notin Sweepers
          BY <3>2
        <4>2. phase[p] = "commit" /\ phase'[p] \in {"idle", "audit"}
          BY <2>2, <3>2 DEF SetStateCommit
        <4>3. RowsInOrder'
          <5>1. /\ UNCHANGED <<pc, rstate, provider, expired, target>>
                /\ \A q \in Requests \ {p} : phase'[q] = phase[q]
            BY <2>2, <3>2, <4>1 DEF SetStateCommit
          <5>2. /\ row'[p].state = target[p]
                /\ \A q \in Requests \ {p} : row'[q].state = row[q].state
            BY <3>1, <4>1
          <5>3. ASSUME NEW q \in Requests
                PROVE  /\ Chargeable(q)' => FoundAsLeft(q)'
                       /\ row'[q].state = "UNKNOWN" => Quiet(q)'
                       /\ q \in expired' /\ "token_expiry" \notin Faults => Quiet(q)'
            <6>1. CASE q = p
              <7>1. \/ pc[p] = "submit" /\ target[p] = "AUTHORIZED"
                    \/ pc[p] = "post" /\ target[p] = "SUBMITTED"
                    \/ pc[p] = "to_unknown" /\ target[p] = "TIMEOUT"
                    \/ /\ pc[p] = "decision_audit" /\ target[p] = rstate[p]
                       /\ target[p] \in Outcomes
                BY <3>2, <4>2
              <7>2. target[p] \in {"none", "CREATED", "AUTHORIZED"} => provider[p] = "none"
                BY <3>2, <7>1
              <7> QED
                BY <3>2, <4>2, <5>1, <5>2, <6>1, <7>1, <7>2
            <6>2. CASE q # p
              BY <5>1, <5>2, <6>2
            <6> QED
              BY <6>1, <6>2
          <5>4. \A q \in Requests : pc'[q] = "decision_audit" /\ rstate'[q] = "AUTHORIZED" =>
                   provider'[q] = "none"
            BY <5>1
          <5> QED
            BY <5>3, <5>4
        <4>4. SweepsInOrder'
          BY <2>2, <3>2, <4>1, <4>2 DEF SetStateCommit
        <4> QED
          BY <4>3, <4>4
      <3>3. CASE p \in Sweepers
        <4>1. Pa(p) = cur[p] /\ p \notin Requests
          BY <3>3
        <4>2. /\ phase[p] = "commit" /\ phase' = [phase EXCEPT ![p] = "audit"]
              /\ target' = target /\ cur' = cur /\ pending' = pending
          BY <2>2, <3>3, <4>1 DEF SetStateCommit
        <4>3. /\ Quiet(cur[p]) \/ ~Chargeable(cur[p])
              /\ target[p] \in {"CONFIRMED", "FAILED", "EXPIRED"}
          BY <3>3, <4>2
        <4>4. RowsInOrder'
          BY <2>2, <3>1, <3>3, <4>1, <4>2, <4>3 DEF SetStateCommit
        <4>5. SweepsInOrder'
          BY <2>2, <3>3, <4>1, <4>2 DEF SetStateCommit
        <4> QED
          BY <4>4, <4>5
      <3> QED
        BY <3>2, <3>3
    <2>3. CASE SetStateAudit(p)
      BY <2>3 DEF SetStateAudit
    <2> QED
      BY <1>4, <2>1, <2>2, <2>3 DEF SetStateStep
  <1>5. ASSUME NEW s \in Sweepers, SweepStep(s)
        PROVE  OrderInv'
    <2>1. CASE ReconcileStart(s)
      BY <2>1 DEF ReconcileStart
    <2>2. CASE ExpireStart(s)
      BY <2>2 DEF ExpireStart
    <2>3. CASE SweepEnd(s)
      BY <2>3 DEF SweepEnd
    <2>4. CASE SetStateRaisesInSweep(s)
      BY <2>4 DEF SetStateRaisesInSweep
    <2>5. ASSUME NEW r \in Requests,
                  ReconcileAnswered(s, r) \/ ReconcileNoAnswer(s, r) \/ ExpireOne(s, r)
           PROVE  OrderInv'
      <3>1. CASE ReconcileAnswered(s, r)
        BY <3>1 DEF ReconcileAnswered, CallSetState
      <3>2. CASE ReconcileNoAnswer(s, r)
        BY <3>2 DEF ReconcileNoAnswer
      <3>3. CASE ExpireOne(s, r)
        BY <3>3 DEF ExpireOne, CallSetState
      <3> QED
        BY <2>5, <3>1, <3>2, <3>3
    <2> QED
      BY <1>5, <2>1, <2>2, <2>3, <2>4, <2>5 DEF SweepStep
  <1>6. CASE Environment
    <2>1. ASSUME NEW r \in Requests,
                  TokenExpires(r) \/ RowAges(r) \/ Outage(r) \/ Crash(r)
           PROVE  OrderInv'
      <3>1. CASE TokenExpires(r)
        BY <3>1 DEF TokenExpires, Finished
      <3>2. CASE RowAges(r)
        BY <3>2 DEF RowAges
      <3>3. CASE Outage(r)
        BY <3>3 DEF Outage, Return, Refusal
      <3>4. CASE Crash(r)
        BY <3>4 DEF Crash, Goto
      <3> QED
        BY <2>1, <3>1, <3>2, <3>3, <3>4
    <2>2. ASSUME NEW s \in Sweepers, SweepCrash(s)
           PROVE  OrderInv'
      BY <2>2 DEF SweepCrash
    <2>3. ASSUME NEW k \in Keys, IdemExpires(k) \/ IdemLockLapses(k)
           PROVE  OrderInv'
      <3>1. CASE IdemExpires(k)
        BY <3>1 DEF IdemExpires, NoRecord
      <3>2. CASE IdemLockLapses(k)
        BY <3>2 DEF IdemLockLapses, MayLapse
      <3> QED
        BY <2>3, <3>1, <3>2
    <2>4. ASSUME NEW f \in Fingerprints, FpLockLapses(f)
           PROVE  OrderInv'
      BY <2>4 DEF FpLockLapses, MayLapse
    <2> QED
      BY <1>6, <2>1, <2>2, <2>3, <2>4 DEF Environment
  <1> QED
    BY <1>1, <1>2, <1>3, <1>4, <1>5, <1>6 DEF Next

-----------------------------------------------------------------------------
(***************************************************************************)
(* Who was told BLOCK was not charged, as long as nothing is raised after  *)
(* the charge: an exception there is answered with BLOCK.  That an invalid *)
(* transition raises none is the order of the rows; a request whose token  *)
(* expired may meet one, but it was not charged and never will be.         *)
(***************************************************************************)
RefusedInv ==
    \A r \in Requests :
        /\ answer[r].kind = "none" => answer[r].decision # "BLOCK"
        /\ provider[r] # "none" /\ Chargeable(r) => answer[r].decision # "BLOCK"

LEMMA RefusedInit == Init => RefusedInv
  BY DEF Init, RefusedInv, NoAnswer

LEMMA RefusedStep ==
    ASSUME Faults \cap {"audit", "outage"} = {},
           TypeInv, KeyInv, TruthInv, BranchInv, OrderInv, RefusedInv, [Next]_vars
    PROVE  RefusedInv'
  <1>0. \A r \in Requests :
           /\ pc[r] \in Unposted => provider[r] = "none"
           /\ provider[r] # "none" => verdict[r] = "ALLOW"
           /\ answer[r].kind # "none" => pc[r] \in {"release", "done", "crashed"}
           /\ phase[r] = "read" /\ Chargeable(r) =>
                 assert_transition(row[r].state, target[r])
           /\ phase[r] = "audit" => "audit" \notin Faults
    BY DEF KeyInv, BranchInv, Branches, OrderInv, RowsInOrder, FoundAsLeft, TruthInv,
           AnswerInv
  <1> USE <1>0
      DEF TypeInv, TypeOK, RefusedInv, Chargeable, Charged, Unposted, requestVars, storeVars, timeVars,
          callVars, sweepVars
  <1>1. CASE UNCHANGED vars
    BY <1>1 DEF vars
  <1>2. ASSUME NEW r \in Requests, RequestStep(r)
        PROVE  RefusedInv'
    <2>1. CASE Arrive(r)
      BY <2>1 DEF Arrive, Goto
    <2>2. CASE BlockedBeforePipeline(r)
      BY <2>2 DEF BlockedBeforePipeline, Goto, Refusal
    <2>3. CASE AcquireIdem(r)
      BY <2>3 DEF AcquireIdem, Goto
    <2>4. CASE AcquireFp(r)
      BY <2>4 DEF AcquireFp, Goto
    <2>5. CASE LockTimeout(r)
      BY <2>5 DEF LockTimeout, Return, Refusal
    <2>6. CASE Release(r)
      BY <2>6 DEF Release, Goto
    <2>7. CASE Replay(r)
      BY <2>7 DEF Replay, Return
    <2>8. CASE KeyConflict(r)
      BY <2>8 DEF KeyConflict, Goto
    <2>9. CASE NewKey(r)
      BY <2>9 DEF NewKey, Goto
    <2>10. CASE CheckFingerprint(r)
      BY <2>10 DEF CheckFingerprint, Goto
    <2>11. CASE Decide(r)
      BY <2>11 DEF Decide, Goto
    <2>12. CASE Persist(r)
      BY <2>12 DEF Persist, Goto
    <2>13. CASE PersistRefused(r)
      BY <2>13 DEF PersistRefused, Return, Refusal
    <2>14. CASE Block(r)
      BY <2>14 DEF Block, Goto
    <2>15. CASE RequireApproval(r)
      BY <2>15 DEF RequireApproval, Goto
    <2>16. CASE RecordVelocity(r)
      BY <2>16 DEF RecordVelocity, Goto
    <2>17. CASE Authorize(r)
      BY <2>17 DEF Authorize, Goto
    <2>18. CASE Submit(r)
      BY <2>18 DEF Submit, Goto, Idle
    <2>19. CASE PostCharge(r)
      BY <2>19 DEF PostCharge, Goto, Idle
    <2>20. CASE ProviderAnswers(r)
      BY <2>20 DEF ProviderAnswers, Goto
    <2>21. CASE ProviderTimeout(r)
      BY <2>21 DEF ProviderTimeout, Goto
    <2>22. CASE TimeoutToUnknown(r)
      BY <2>22 DEF TimeoutToUnknown, Goto, Idle
    <2>23. CASE AuditDecision(r)
      <3>1. CASE Goto(r, "remember_idem") /\ UNCHANGED answer
        BY <2>23, <3>1 DEF AuditDecision, Goto
      <3>2. CASE Return(r, Response(r))
        BY <2>23, <3>2 DEF AuditDecision, Return, Response
      <3> QED
        BY <2>23, <3>1, <3>2 DEF AuditDecision
    <2>24. CASE RememberIdem(r)
      <3>1. CASE Goto(r, "remember_fp") /\ UNCHANGED answer
        BY <2>24, <3>1 DEF RememberIdem, Goto
      <3>2. CASE Return(r, Response(r))
        BY <2>24, <3>2 DEF RememberIdem, Return, Response
      <3> QED
        BY <2>24, <3>1, <3>2 DEF RememberIdem
    <2>25. CASE RememberFp(r)
      BY <2>25 DEF RememberFp, Return, Response
    <2>26. CASE SetStateRaisesInRequest(r)
      <3>1. /\ ~assert_transition(row[r].state, target[r]) /\ phase[r] = "read"
            /\ Return(r, Refusal("error", r))
            /\ UNCHANGED <<provider, expired, verdict, conflict, storeVars>>
        BY <2>26 DEF SetStateRaisesInRequest
      <3>2. ~Chargeable(r)
        BY <3>1
      <3> QED
        BY <3>1, <3>2 DEF Return, Refusal
    <2> QED
      BY <1>2, <2>1, <2>2, <2>3, <2>4, <2>5, <2>6, <2>7, <2>8, <2>9, <2>10,
         <2>11, <2>12, <2>13, <2>14, <2>15, <2>16, <2>17, <2>18, <2>19, <2>20,
         <2>21, <2>22, <2>23, <2>24, <2>25, <2>26 DEF RequestStep
  <1>3. ASSUME NEW r \in Requests, CreateCharge(r)
        PROVE  RefusedInv'
    BY <1>3 DEF CreateCharge
  <1>4. ASSUME NEW p \in Procs, SetStateStep(p)
        PROVE  RefusedInv'
    <2>1. CASE SetStateRead(p)
      BY <2>1 DEF SetStateRead
    <2>2. CASE SetStateCommit(p)
      BY <2>2 DEF SetStateCommit
    <2>3. CASE SetStateAudit(p)
      BY <2>3 DEF SetStateAudit
    <2> QED
      BY <1>4, <2>1, <2>2, <2>3 DEF SetStateStep
  <1>5. ASSUME NEW s \in Sweepers, SweepStep(s)
        PROVE  RefusedInv'
    <2>1. CASE ReconcileStart(s)
      BY <2>1 DEF ReconcileStart
    <2>2. CASE ExpireStart(s)
      BY <2>2 DEF ExpireStart
    <2>3. CASE SweepEnd(s)
      BY <2>3 DEF SweepEnd
    <2>4. CASE SetStateRaisesInSweep(s)
      BY <2>4 DEF SetStateRaisesInSweep
    <2>5. ASSUME NEW r \in Requests,
                  ReconcileAnswered(s, r) \/ ReconcileNoAnswer(s, r) \/ ExpireOne(s, r)
           PROVE  RefusedInv'
      <3>1. CASE ReconcileAnswered(s, r)
        BY <3>1 DEF ReconcileAnswered
      <3>2. CASE ReconcileNoAnswer(s, r)
        BY <3>2 DEF ReconcileNoAnswer
      <3>3. CASE ExpireOne(s, r)
        BY <3>3 DEF ExpireOne
      <3> QED
        BY <2>5, <3>1, <3>2, <3>3
    <2> QED
      BY <1>5, <2>1, <2>2, <2>3, <2>4, <2>5 DEF SweepStep
  <1>6. CASE Environment
    <2>1. ASSUME NEW r \in Requests,
                  TokenExpires(r) \/ RowAges(r) \/ Outage(r) \/ Crash(r)
           PROVE  RefusedInv'
      <3>1. CASE TokenExpires(r)
        BY <3>1 DEF TokenExpires
      <3>2. CASE RowAges(r)
        BY <3>2 DEF RowAges
      <3>3. CASE Outage(r)
        BY <3>3 DEF Outage, Return, Refusal
      <3>4. CASE Crash(r)
        BY <3>4 DEF Crash, Goto
      <3> QED
        BY <2>1, <3>1, <3>2, <3>3, <3>4
    <2>2. ASSUME NEW s \in Sweepers, SweepCrash(s)
           PROVE  RefusedInv'
      BY <2>2 DEF SweepCrash
    <2>3. ASSUME NEW k \in Keys, IdemExpires(k) \/ IdemLockLapses(k)
           PROVE  RefusedInv'
      <3>1. CASE IdemExpires(k)
        BY <3>1 DEF IdemExpires
      <3>2. CASE IdemLockLapses(k)
        BY <3>2 DEF IdemLockLapses
      <3> QED
        BY <2>3, <3>1, <3>2
    <2>4. ASSUME NEW f \in Fingerprints, FpLockLapses(f)
           PROVE  RefusedInv'
      BY <2>4 DEF FpLockLapses
    <2> QED
      BY <1>6, <2>1, <2>2, <2>3, <2>4 DEF Environment
  <1> QED
    BY <1>1, <1>2, <1>3, <1>4, <1>5, <1>6 DEF Next

\* A client that is told BLOCK was not charged for that request: neither the
\* decision to block, a lock that was not obtained, a refused insert nor the
\* invalid transition that an expired authorization causes can follow a charge.
\* An audit write or another await that raises can make the handler answer
\* BLOCK after the charge; they are excluded.
THEOREM BlockedAreNotCharged ==
    ASSUME Faults \cap {"audit", "outage"} = {}
    PROVE  Spec => []BlockedMeansNotCharged
  <1>2. Spec => [](TypeInv /\ KeyInv /\ TruthInv /\ BranchInv /\ OrderInv /\ RefusedInv)
    BY TypeInit, TypeStep, KeyInit, KeyStep, TruthInit, TruthStep,
       BranchInit, BranchStep, OrderInit, OrderStep, RefusedInit, RefusedStep,
       PTL DEF Spec
  <1>3. RefusedInv => BlockedMeansNotCharged
    BY DEF RefusedInv, Chargeable, BlockedMeansNotCharged, Charged
  <1> QED
    BY <1>2, <1>3, PTL

-----------------------------------------------------------------------------
(***************************************************************************)
(* Only valid transitions.  A request's own write is in order; a sweeper's *)
(* may come after another sweeper's write to the same row, which is the    *)
(* same write when the two agree.  They do when the provider settles every *)
(* charge request before the gateway gives up on it, or when nobody else   *)
(* sweeps.                                                                 *)
(***************************************************************************)
SweepersAgree ==
    \A s, t \in Sweepers :
        phase[s] = "commit" /\ phase[t] = "commit" /\ cur[s] = cur[t] =>
            target[s] = target[t]

CommitsInOrder ==
    \A s \in Sweepers :
        /\ \A r \in pending[s] : row[r].state # "none"
        /\ phase[s] # "idle" => row[cur[s]].state # "none"
        /\ phase[s] = "commit" =>
              \/ row[cur[s]].state = target[s]
              \/ assert_transition(row[cur[s]].state, target[s])

\* With tokens that outlive their pipelines a sweeper's row is quiet.
LEMMA SweptIsQuiet ==
    ASSUME "token_expiry" \notin Faults, TypeInv, OrderInv
    PROVE  /\ \A r \in Requests : ~Quiet(r) => Chargeable(r)
           /\ \A s \in Sweepers : phase[s] # "idle" => Quiet(cur[s])
  <1>1. \A s \in Sweepers : phase[s] # "idle" => cur[s] \in Requests
    BY ProcsAssumption DEF TypeInv, CallsTyped, Procs, Pa
  <1> QED
    BY <1>1 DEF OrderInv, RowsInOrder, SweepsInOrder, Chargeable

LEMMA CommitsInit == Init => CommitsInOrder
  BY DEF Init, CommitsInOrder, Procs

LEMMA CommitsStep ==
    ASSUME "token_expiry" \notin Faults, TypeInv, BranchInv, OrderInv,
           SweepersAgree, CommitsInOrder, [Next]_vars
    PROVE  CommitsInOrder'
  <1> USE ProcsAssumption
      DEF TypeInv, TypeOK, CallsTyped, OrderInv, SweepsInOrder, CommitsInOrder,
          Procs, Pa, requestVars, storeVars, timeVars, callVars, sweepVars
  <1>1. CASE UNCHANGED vars
    BY <1>1 DEF vars
  <1>2. ASSUME NEW r \in Requests, RequestStep(r)
        PROVE  CommitsInOrder'
    <2>1. CASE Arrive(r)
      BY <2>1 DEF Arrive
    <2>2. CASE BlockedBeforePipeline(r)
      BY <2>2 DEF BlockedBeforePipeline
    <2>3. CASE AcquireIdem(r)
      BY <2>3 DEF AcquireIdem
    <2>4. CASE AcquireFp(r)
      BY <2>4 DEF AcquireFp
    <2>5. CASE LockTimeout(r)
      BY <2>5 DEF LockTimeout
    <2>6. CASE Release(r)
      BY <2>6 DEF Release
    <2>7. CASE Replay(r)
      BY <2>7 DEF Replay
    <2>8. CASE KeyConflict(r)
      BY <2>8 DEF KeyConflict
    <2>9. CASE NewKey(r)
      BY <2>9 DEF NewKey
    <2>10. CASE CheckFingerprint(r)
      BY <2>10 DEF CheckFingerprint
    <2>11. CASE Decide(r)
      BY <2>11 DEF Decide
    <2>12. CASE Persist(r)
      <3>1. ~Quiet(r)
        BY <2>12 DEF Persist, Quiet, Answering
      <3>2. \A s \in Sweepers : phase[s] # "idle" => cur[s] # r
        BY <3>1, SweptIsQuiet
      <3> QED
        BY <2>12, <3>2 DEF Persist
    <2>13. CASE PersistRefused(r)
      BY <2>13 DEF PersistRefused
    <2>14. CASE Block(r)
      BY <2>14 DEF Block, CallSetState
    <2>15. CASE RequireApproval(r)
      BY <2>15 DEF RequireApproval
    <2>16. CASE RecordVelocity(r)
      BY <2>16 DEF RecordVelocity
    <2>17. CASE Authorize(r)
      BY <2>17 DEF Authorize, CallSetState
    <2>18. CASE Submit(r)
      <3>1. \A q \in Requests : row'[q].state = row[q].state
        BY <2>18, SubmitEffect DEF BranchInv
      <3>2. CallSetState(r, "SUBMITTED") /\ UNCHANGED sweepVars
        BY <2>18, SubmitEffect DEF BranchInv
      <3>3. \A s \in Sweepers : /\ phase'[s] = phase[s] /\ target'[s] = target[s]
                                /\ pending'[s] = pending[s] /\ cur'[s] = cur[s]
                                /\ pending[s] \subseteq Requests
                                /\ phase[s] # "idle" => cur[s] \in Requests
        BY <3>2 DEF CallSetState
      <3>4. ASSUME NEW s \in Sweepers
            PROVE  /\ \A q \in pending'[s] : row'[q].state # "none"
                   /\ phase'[s] # "idle" => row'[cur'[s]].state # "none"
                   /\ phase'[s] = "commit" =>
                         \/ row'[cur'[s]].state = target'[s]
                         \/ assert_transition(row'[cur'[s]].state, target'[s])
        <4>1. /\ phase'[s] = phase[s] /\ target'[s] = target[s]
              /\ pending'[s] = pending[s] /\ cur'[s] = cur[s]
          BY <3>3
        <4>2. \A q \in pending'[s] : row'[q].state # "none"
          BY <3>1, <3>3, <4>1
        <4>3. phase[s] # "idle" => row'[cur[s]].state = row[cur[s]].state
          BY <3>1, <3>3
        <4>4. phase'[s] # "idle" => row'[cur'[s]].state # "none"
          BY <4>1, <4>3
        <4>5. phase'[s] = "commit" =>
                 \/ row'[cur'[s]].state = target'[s]
                 \/ assert_transition(row'[cur'[s]].state, target'[s])
          BY <4>1, <4>3
        <4> QED
          BY <4>2, <4>4, <4>5
      <3> QED
        BY <3>4
    <2>19. CASE PostCharge(r)
      BY <2>19 DEF PostCharge, Idle
    <2>20. CASE ProviderAnswers(r)
      BY <2>20 DEF ProviderAnswers, CallSetState
    <2>21. CASE ProviderTimeout(r)
      BY <2>21 DEF ProviderTimeout, CallSetState
    <2>22. CASE TimeoutToUnknown(r)
      BY <2>22 DEF TimeoutToUnknown, CallSetState, Idle
    <2>23. CASE AuditDecision(r)
      BY <2>23 DEF AuditDecision, Idle
    <2>24. CASE RememberIdem(r)
      BY <2>24 DEF RememberIdem
    <2>25. CASE RememberFp(r)
      BY <2>25 DEF RememberFp
    <2>26. CASE SetStateRaisesInRequest(r)
      BY <2>26 DEF SetStateRaisesInRequest
    <2> QED
      BY <1>2, <2>1, <2>2, <2>3, <2>4, <2>5, <2>6, <2>7, <2>8, <2>9, <2>10,
         <2>11, <2>12, <2>13, <2>14, <2>15, <2>16, <2>17, <2>18, <2>19, <2>20,
         <2>21, <2>22, <2>23, <2>24, <2>25, <2>26 DEF RequestStep
  <1>3. ASSUME NEW r \in Requests, CreateCharge(r)
        PROVE  CommitsInOrder'
    BY <1>3 DEF CreateCharge
  <1>4. ASSUME NEW p \in Procs, SetStateStep(p)
        PROVE  CommitsInOrder'
    <2>1. CASE SetStateRead(p)
      BY <2>1 DEF SetStateRead
    <2>2. CASE SetStateCommit(p)
      <3>1. /\ row'[Pa(p)].state = target[p] /\ Pa(p) \in Requests
            /\ \A q \in Requests : q # Pa(p) => row'[q] = row[q]
        BY <2>2, CommitEffect
      <3>2. ASSUME NEW s \in Sweepers, phase'[s] = "commit"
            PROVE  \/ row'[cur[s]].state = target[s]
                   \/ assert_transition(row'[cur[s]].state, target[s])
        <4>1. phase[s] = "commit" /\ cur[s] \in Requests /\ s # p
          BY <2>2, <3>2 DEF SetStateCommit
        <4>2. CASE cur[s] # Pa(p)
          BY <3>1, <4>1, <4>2
        <4>3. CASE cur[s] = Pa(p) /\ p \in Requests
          <5>1. Quiet(p) /\ phase[p] = "commit"
            BY <2>2, <4>1, <4>3, SweptIsQuiet DEF SetStateCommit
          <5> QED
            BY <5>1 DEF Quiet
        <4>4. CASE cur[s] = Pa(p) /\ p \in Sweepers
          <5>1. phase[p] = "commit" /\ cur[s] = cur[p]
            BY <2>2, <4>4 DEF SetStateCommit
          <5>2. target[s] = target[p]
            BY <4>1, <4>4, <5>1 DEF SweepersAgree
          <5> QED
            BY <3>1, <4>4, <5>2
        <4> QED
          BY <4>2, <4>3, <4>4
      <3>3. \A q \in Requests : row[q].state # "none" => row'[q].state # "none"
        <4>1. target[p] \in PaymentState
          BY <2>2, CommitEffect
        <4>2. target[p] # "none"
          BY <4>1 DEF PaymentState
        <4> QED
          BY <3>1, <4>2
      <3> QED
        BY <2>2, <3>2, <3>3 DEF SetStateCommit
    <2>3. CASE SetStateAudit(p)
      BY <2>3 DEF SetStateAudit
    <2> QED
      BY <1>4, <2>1, <2>2, <2>3 DEF SetStateStep
  <1>5. ASSUME NEW s \in Sweepers, SweepStep(s)
        PROVE  CommitsInOrder'
    <2>1. CASE ReconcileStart(s)
      BY <2>1 DEF ReconcileStart
    <2>2. CASE ExpireStart(s)
      BY <2>2 DEF ExpireStart
    <2>3. CASE SweepEnd(s)
      BY <2>3 DEF SweepEnd
    <2>4. CASE SetStateRaisesInSweep(s)
      BY <2>4 DEF SetStateRaisesInSweep
    <2>5. ASSUME NEW r \in Requests,
                  ReconcileAnswered(s, r) \/ ReconcileNoAnswer(s, r) \/ ExpireOne(s, r)
           PROVE  CommitsInOrder'
      <3>1. CASE ReconcileAnswered(s, r)
        BY <3>1 DEF ReconcileAnswered, CallSetState
      <3>2. CASE ReconcileNoAnswer(s, r)
        BY <3>2 DEF ReconcileNoAnswer
      <3>3. CASE ExpireOne(s, r)
        BY <3>3 DEF ExpireOne, CallSetState
      <3> QED
        BY <2>5, <3>1, <3>2, <3>3
    <2> QED
      BY <1>5, <2>1, <2>2, <2>3, <2>4, <2>5 DEF SweepStep
  <1>6. CASE Environment
    <2>1. ASSUME NEW r \in Requests,
                  TokenExpires(r) \/ RowAges(r) \/ Outage(r) \/ Crash(r)
           PROVE  CommitsInOrder'
      <3>1. CASE TokenExpires(r)
        BY <3>1 DEF TokenExpires
      <3>2. CASE RowAges(r)
        BY <3>2 DEF RowAges
      <3>3. CASE Outage(r)
        BY <3>3 DEF Outage
      <3>4. CASE Crash(r)
        BY <3>4 DEF Crash
      <3> QED
        BY <2>1, <3>1, <3>2, <3>3, <3>4
    <2>2. ASSUME NEW s \in Sweepers, SweepCrash(s)
           PROVE  CommitsInOrder'
      BY <2>2 DEF SweepCrash
    <2>3. ASSUME NEW k \in Keys, IdemExpires(k) \/ IdemLockLapses(k)
           PROVE  CommitsInOrder'
      <3>1. CASE IdemExpires(k)
        BY <3>1 DEF IdemExpires
      <3>2. CASE IdemLockLapses(k)
        BY <3>2 DEF IdemLockLapses
      <3> QED
        BY <2>3, <3>1, <3>2
    <2>4. ASSUME NEW f \in Fingerprints, FpLockLapses(f)
           PROVE  CommitsInOrder'
      BY <2>4 DEF FpLockLapses
    <2> QED
      BY <1>6, <2>1, <2>2, <2>3, <2>4 DEF Environment
  <1> QED
    BY <1>1, <1>2, <1>3, <1>4, <1>5, <1>6 DEF Next

\* Reconciling sweeps agree on what the provider did, and an expiring sweep does
\* not meet a reconciling one on the same row.
LEMMA SettledSweepersAgree ==
    ASSUME TypeInv, TruthInv, SpentInv, CommitsInOrder
    PROVE  SweepersAgree
  <1> SUFFICES ASSUME NEW s \in Sweepers, NEW t \in Sweepers,
                      phase[s] = "commit", phase[t] = "commit", cur[s] = cur[t],
                      target[s] # target[t]
               PROVE  FALSE
    BY DEF SweepersAgree
  <1> DEFINE q == cur[s]
  <1>1. q \in Requests /\ s \in Procs /\ t \in Procs /\ Pa(s) = q /\ Pa(t) = q
    BY ProcsAssumption DEF TypeInv, CallsTyped, Procs, Pa
  <1>2. /\ target[s] = "CONFIRMED" => Charged(q)
        /\ target[t] = "CONFIRMED" => Charged(q)
    BY <1>1 DEF TruthInv, ReportInv, CallsTrue
  <1>3. /\ \/ target[s] = "CONFIRMED"
           \/ target[s] = "FAILED" /\ Resolved(q) /\ ~Charged(q)
           \/ target[s] = "EXPIRED" /\ ~Charged(q)
        /\ \/ target[t] = "CONFIRMED"
           \/ target[t] = "FAILED" /\ Resolved(q) /\ ~Charged(q)
           \/ target[t] = "EXPIRED" /\ ~Charged(q)
    BY DEF SpentInv, SweepsCount
  <1>4. /\ {target[s], target[t]} = {"FAILED", "EXPIRED"} /\ Resolved(q)
    BY <1>2, <1>3
  <1>5. row[q].state \notin {"none", "CREATED", "AUTHORIZED"}
    BY <1>1, <1>4 DEF SpentInv, RowsCount, Resolved, Past
  <1>6. row[q].state \in PaymentState
    BY <1>1, <1>5 DEF TypeInv, TypeOK, RowType, Maybe
  <1>7. /\ row[q].state = "EXPIRED" \/ assert_transition(row[q].state, "EXPIRED")
        /\ row[q].state = "FAILED" \/ assert_transition(row[q].state, "FAILED")
    BY <1>4 DEF CommitsInOrder
  <1>8. row[q].state = "EXPIRED"
    BY <1>5, <1>6, <1>7, ValidFrom DEF assert_transition, PaymentState
  <1> QED
    BY <1>7, <1>8, ValidFrom DEF assert_transition

\* What a step may do to the state a row holds.
Moves ==
    \A r \in Requests :
        row'[r].state # row[r].state =>
            IF row[r].state = "none" THEN row'[r].state = "CREATED"
            ELSE row'[r].state \in VALID_TRANSITIONS[row[r].state]

LEMMA MovesAreValid ==
    ASSUME "token_expiry" \notin Faults, TypeInv, BranchInv, OrderInv,
           CommitsInOrder, [Next]_vars
    PROVE  Moves
  <1> USE DEF Moves, requestVars, storeVars, timeVars, callVars, sweepVars
  <1>1. CASE UNCHANGED row
    BY <1>1
  <1>2. ASSUME NEW r \in Requests, Persist(r)
        PROVE  Moves
    <2>1. ~Quiet(r)
      BY <1>2 DEF Persist, Quiet, Answering
    <2>2. row[r].state = "none"
      BY <1>2, <2>1, SweptIsQuiet DEF Persist, OrderInv, RowsInOrder, FoundAsLeft
    <2> QED
      BY <1>2, <2>2 DEF Persist, TypeInv, TypeOK
  <1>3. ASSUME NEW r \in Requests, Authorize(r)
        PROVE  Moves
    BY <1>3 DEF Authorize, TypeInv, TypeOK, RowType
  <1>4. ASSUME NEW r \in Requests, Submit(r)
        PROVE  Moves
    BY <1>4, SubmitEffect DEF BranchInv
  <1>5. ASSUME NEW p \in Procs, SetStateCommit(p)
        PROVE  Moves
    <2>1. /\ row'[Pa(p)].state = target[p] /\ Pa(p) \in Requests
          /\ \A q \in Requests : q # Pa(p) => row'[q] = row[q]
      BY <1>5, CommitEffect
    <2>2. CASE p \in Requests
      <3>1. /\ Pa(p) = p /\ row[p].state # "none"
            /\ assert_transition(row[p].state, target[p])
        <4>1. phase[p] = "commit" /\ Chargeable(p)
          BY <1>5, <2>2, SweptIsQuiet DEF SetStateCommit, Quiet
        <4> QED
          BY <2>2, <4>1 DEF OrderInv, RowsInOrder, FoundAsLeft, Pa
      <3> QED
        BY <2>1, <3>1 DEF assert_transition
    <2>3. CASE p \in Sweepers
      <3>1. /\ Pa(p) = cur[p]
            /\ \/ row[cur[p]].state = target[p]
               \/ assert_transition(row[cur[p]].state, target[p])
        BY <1>5, <2>3, ProcsAssumption DEF SetStateCommit, CommitsInOrder, Pa
      <3>2. row[cur[p]].state # "none"
        BY <1>5, <2>3 DEF SetStateCommit, CommitsInOrder
      <3> QED
        BY <2>1, <3>1, <3>2 DEF assert_transition
    <2> QED
      BY <2>2, <2>3 DEF Procs
  <1>6. CASE UNCHANGED vars
    BY <1>1, <1>6 DEF vars
  <1>7. ASSUME NEW r \in Requests, RequestStep(r)
        PROVE  Moves
    <2>1. UNCHANGED row \/ Persist(r) \/ Authorize(r) \/ Submit(r)
      BY <1>7
         DEF RequestStep, Arrive, BlockedBeforePipeline, AcquireIdem, AcquireFp,
             LockTimeout, Release, Replay, KeyConflict, NewKey,
             CheckFingerprint, Decide, PersistRefused, Block, RequireApproval,
             RecordVelocity, PostCharge, ProviderAnswers, ProviderTimeout,
             TimeoutToUnknown, AuditDecision, RememberIdem, RememberFp,
             SetStateRaisesInRequest
    <2> QED
      BY <1>1, <1>2, <1>3, <1>4, <2>1
  <1>8. ASSUME NEW r \in Requests, CreateCharge(r)
        PROVE  Moves
    BY <1>1, <1>8 DEF CreateCharge
  <1>9. ASSUME NEW p \in Procs, SetStateStep(p)
        PROVE  Moves
    <2>1. UNCHANGED row \/ SetStateCommit(p)
      BY <1>9 DEF SetStateStep, SetStateRead, SetStateAudit
    <2> QED
      BY <1>1, <1>5, <2>1
  <1>10. ASSUME NEW s \in Sweepers, SweepStep(s)
         PROVE  Moves
    <2>1. UNCHANGED row
      BY <1>10 DEF SweepStep, ReconcileStart, ExpireStart, SweepEnd,
                   SetStateRaisesInSweep, ReconcileAnswered,
                   ReconcileNoAnswer, ExpireOne
    <2> QED
      BY <1>1, <2>1
  <1>11. CASE Environment
    <2>1. UNCHANGED row
      BY <1>11 DEF Environment, TokenExpires, RowAges, Outage, Crash,
                   SweepCrash, IdemExpires, IdemLockLapses, FpLockLapses
    <2> QED
      BY <1>1, <2>1
  <1> QED
    BY <1>6, <1>7, <1>8, <1>9, <1>10, <1>11 DEF Next

\* The state of a row moves only along VALID_TRANSITIONS although set_state
\* checks and writes without a lock: as long as tokens outlive their pipelines,
\* and charge requests are settled by the gateway's timeout or only one caller
\* reconciles at a time.
THEOREM TransitionsAreValid ==
    ASSUME "token_expiry" \notin Faults,
           "late" \notin Faults \/ \A s, t \in Sweepers : s = t
    PROVE  Spec => OnlyValidTransitions
  <1> DEFINE Shared == TypeInv /\ KeyInv /\ TruthInv /\ BranchInv /\ OrderInv
  <1>1. Spec => []Shared
    BY TypeInit, TypeStep, KeyInit, KeyStep, TruthInit, TruthStep, BranchInit,
       BranchStep, OrderInit, OrderStep, PTL DEF Spec
  <1>2. Spec => []CommitsInOrder
    <2>1. CASE "late" \notin Faults
      <3>1. Spec => [](Shared /\ SpentInv /\ CommitsInOrder)
        <4>1. Init => Shared /\ SpentInv /\ CommitsInOrder
          BY TypeInit, KeyInit, TruthInit, BranchInit, OrderInit, SpentInit,
             CommitsInit
        <4>2. Shared /\ SpentInv /\ CommitsInOrder /\ [Next]_vars =>
                  (Shared /\ SpentInv /\ CommitsInOrder)'
          BY <2>1, TypeStep, KeyStep, TruthStep, BranchStep, OrderStep,
             SpentStep, CommitsStep, SettledSweepersAgree
        <4> QED
          BY <4>1, <4>2, PTL DEF Spec
      <3> QED
        BY <3>1, PTL
    <2>2. CASE \A s, t \in Sweepers : s = t
      <3>1. SweepersAgree
        BY <2>2 DEF SweepersAgree
      <3>2. Init => Shared /\ CommitsInOrder
        BY TypeInit, KeyInit, TruthInit, BranchInit, OrderInit, CommitsInit
      <3>3. Shared /\ CommitsInOrder /\ [Next]_vars => (Shared /\ CommitsInOrder)'
        BY <3>1, TypeStep, KeyStep, TruthStep, BranchStep, OrderStep,
           CommitsStep
      <3> QED
        BY <3>2, <3>3, PTL DEF Spec
    <2> QED
      BY <2>1, <2>2
  <1>3. Shared /\ CommitsInOrder /\ [Next]_vars => [Moves]_row
    BY MovesAreValid
  <1>4. Spec => [][Moves]_row
    BY <1>1, <1>2, <1>3, PTL DEF Spec
  <1> QED
    BY <1>4 DEF OnlyValidTransitions, Moves


-----------------------------------------------------------------------------
(***************************************************************************)
(* One charge per fingerprint.  No index stands behind this one: it rests  *)
(* on the lock being held from the check of the slot until the slot is     *)
(* taken (HoldsFpLock), and on every request that reached the provider     *)
(* getting there (Reserves).  So the faults that release the lock early or *)
(* cut the pipeline short after the charge are excluded.                   *)
(***************************************************************************)
Checked == InPipeline \ {"check_idem", "check_fp"}

HoldsFpLock ==
    \A r \in Requests : pc[r] \in InPipeline => fpLock[FpOf[r]] = r

Reserves ==
    \A r \in Requests :
        /\ pc[r] # "crashed"
        /\ provider[r] # "none" /\ Chargeable(r) =>
              \/ pc[r] \in {"await", "to_unknown"} \cup Answering
              \/ fp[FpOf[r]] = r
        /\ pc[r] \in Checked /\ ~conflict[r] => fp[FpOf[r]] \in {None, r}

FpInv == HoldsFpLock /\ Reserves

LEMMA FpInit == Init => FpInv
  BY DEF Init, FpInv, HoldsFpLock, Reserves, InPipeline, Checked

LEMMA FpStep ==
    ASSUME Faults \cap {"lock_expiry", "crash", "audit", "outage"} = {},
           TypeInv, KeyInv, BranchInv, OrderInv, FpInv, [Next]_vars
    PROVE  FpInv'
  <1>0. \A r \in Requests :
           /\ pc[r] \in Unposted => provider[r] = "none"
           /\ provider[r] # "none" => verdict[r] = "ALLOW"
           /\ pc[r] = "remember_fp" => verdict[r] = "ALLOW"
           /\ verdict[r] = "ALLOW" => ~conflict[r]
           /\ phase[r] = "read" /\ Chargeable(r) =>
                 assert_transition(row[r].state, target[r])
    BY DEF KeyInv, BranchInv, Branches, OrderInv, RowsInOrder, FoundAsLeft
  <1> USE <1>0, InputsAssumption, ProcsAssumption
      DEF TypeInv, TypeOK, FpInv, HoldsFpLock, Reserves, Chargeable, Charged,
          InPipeline, Checked,
          Unposted, Answering, requestVars, storeVars, timeVars, callVars,
          sweepVars
  <1>1. CASE UNCHANGED vars
    BY <1>1 DEF vars
  <1>2. ASSUME NEW r \in Requests, RequestStep(r)
        PROVE  FpInv'
    <2>1. CASE Arrive(r)
      BY <2>1 DEF Arrive, Goto
    <2>2. CASE BlockedBeforePipeline(r)
      BY <2>2 DEF BlockedBeforePipeline, Goto
    <2>3. CASE AcquireIdem(r)
      BY <2>3 DEF AcquireIdem, Goto
    <2>4. CASE AcquireFp(r)
      BY <2>4 DEF AcquireFp, Goto
    <2>5. CASE LockTimeout(r)
      BY <2>5 DEF LockTimeout, Return
    <2>6. CASE Release(r)
      BY <2>6 DEF Release, Goto
    <2>7. CASE Replay(r)
      BY <2>7 DEF Replay, Return
    <2>8. CASE KeyConflict(r)
      BY <2>8 DEF KeyConflict, Goto
    <2>9. CASE NewKey(r)
      BY <2>9 DEF NewKey, Goto
    <2>10. CASE CheckFingerprint(r)
      <3>1. /\ pc[r] = "check_fp" /\ pc' = [pc EXCEPT ![r] = "decide"]
            /\ \A q \in Requests \ {r} : conflict'[q] = conflict[q]
            /\ UNCHANGED <<fpLock, fp, provider, expired>>
        BY <2>10 DEF CheckFingerprint, Goto
      <3>2. ~conflict'[r] => fp[FpOf[r]] \in {None, r}
        BY <2>10 DEF CheckFingerprint
      <3>3. HoldsFpLock'
        BY <3>1
      <3>4. Reserves'
        BY <3>1, <3>2
      <3> QED
        BY <3>3, <3>4
    <2>11. CASE Decide(r)
      BY <2>11 DEF Decide, Goto
    <2>12. CASE Persist(r)
      BY <2>12 DEF Persist, Goto
    <2>13. CASE PersistRefused(r)
      BY <2>13 DEF PersistRefused, Return
    <2>14. CASE Block(r)
      BY <2>14 DEF Block, Goto
    <2>15. CASE RequireApproval(r)
      BY <2>15 DEF RequireApproval, Goto
    <2>16. CASE RecordVelocity(r)
      BY <2>16 DEF RecordVelocity, Goto
    <2>17. CASE Authorize(r)
      BY <2>17 DEF Authorize, Goto
    <2>18. CASE Submit(r)
      BY <2>18 DEF Submit, Goto, Idle
    <2>19. CASE PostCharge(r)
      BY <2>19 DEF PostCharge, Goto, Idle
    <2>20. CASE ProviderAnswers(r)
      BY <2>20 DEF ProviderAnswers, Goto
    <2>21. CASE ProviderTimeout(r)
      BY <2>21 DEF ProviderTimeout, Goto
    <2>22. CASE TimeoutToUnknown(r)
      BY <2>22 DEF TimeoutToUnknown, Goto, Idle
    <2>23. CASE AuditDecision(r)
      <3>1. CASE Memoised(r)
        BY <2>23, <3>1 DEF AuditDecision, Goto
      <3>2. CASE ~Memoised(r)
        <4>1. provider[r] = "none"
          BY <3>2 DEF Memoised
        <4> QED
          BY <2>23, <3>2, <4>1 DEF AuditDecision, Return
      <3> QED
        BY <3>1, <3>2
    <2>24. CASE RememberIdem(r)
      <3>1. CASE verdict[r] = "ALLOW"
        BY <2>24, <3>1 DEF RememberIdem, Goto
      <3>2. CASE verdict[r] # "ALLOW"
        <4>1. provider[r] = "none"
          BY <3>2
        <4> QED
          BY <2>24, <3>2, <4>1 DEF RememberIdem, Return
      <3> QED
        BY <3>1, <3>2
    <2>25. CASE RememberFp(r)
      BY <2>25 DEF RememberFp, Return
    <2>26. CASE SetStateRaisesInRequest(r)
      <3>1. /\ ~assert_transition(row[r].state, target[r]) /\ phase[r] = "read"
            /\ Return(r, Refusal("error", r))
            /\ UNCHANGED <<provider, expired, verdict, conflict, storeVars>>
        BY <2>26 DEF SetStateRaisesInRequest
      <3>2. ~Chargeable(r)
        BY <3>1
      <3> QED
        BY <3>1, <3>2 DEF Return, Refusal
    <2> QED
      BY <1>2, <2>1, <2>2, <2>3, <2>4, <2>5, <2>6, <2>7, <2>8, <2>9, <2>10,
         <2>11, <2>12, <2>13, <2>14, <2>15, <2>16, <2>17, <2>18, <2>19, <2>20,
         <2>21, <2>22, <2>23, <2>24, <2>25, <2>26 DEF RequestStep
  <1>3. ASSUME NEW r \in Requests, CreateCharge(r)
        PROVE  FpInv'
    BY <1>3 DEF CreateCharge
  <1>4. ASSUME NEW p \in Procs, SetStateStep(p)
        PROVE  FpInv'
    <2>1. CASE SetStateRead(p)
      BY <2>1 DEF SetStateRead
    <2>2. CASE SetStateCommit(p)
      BY <2>2 DEF SetStateCommit
    <2>3. CASE SetStateAudit(p)
      BY <2>3 DEF SetStateAudit
    <2> QED
      BY <1>4, <2>1, <2>2, <2>3 DEF SetStateStep
  <1>5. ASSUME NEW s \in Sweepers, SweepStep(s)
        PROVE  FpInv'
    <2>1. CASE ReconcileStart(s)
      BY <2>1 DEF ReconcileStart
    <2>2. CASE ExpireStart(s)
      BY <2>2 DEF ExpireStart
    <2>3. CASE SweepEnd(s)
      BY <2>3 DEF SweepEnd
    <2>4. CASE SetStateRaisesInSweep(s)
      BY <2>4 DEF SetStateRaisesInSweep
    <2>5. ASSUME NEW r \in Requests,
                  ReconcileAnswered(s, r) \/ ReconcileNoAnswer(s, r) \/ ExpireOne(s, r)
           PROVE  FpInv'
      <3>1. CASE ReconcileAnswered(s, r)
        BY <3>1 DEF ReconcileAnswered
      <3>2. CASE ReconcileNoAnswer(s, r)
        BY <3>2 DEF ReconcileNoAnswer
      <3>3. CASE ExpireOne(s, r)
        BY <3>3 DEF ExpireOne
      <3> QED
        BY <2>5, <3>1, <3>2, <3>3
    <2> QED
      BY <1>5, <2>1, <2>2, <2>3, <2>4, <2>5 DEF SweepStep
  <1>6. CASE Environment
    <2>1. ASSUME NEW r \in Requests,
                  TokenExpires(r) \/ RowAges(r) \/ Outage(r) \/ Crash(r)
           PROVE  FpInv'
      <3>1. CASE TokenExpires(r)
        BY <3>1 DEF TokenExpires
      <3>2. CASE RowAges(r)
        BY <3>2 DEF RowAges
      <3>3. CASE Outage(r)
        BY <3>3 DEF Outage, Return
      <3>4. CASE Crash(r)
        BY <3>4 DEF Crash, Goto
      <3> QED
        BY <2>1, <3>1, <3>2, <3>3, <3>4
    <2>2. ASSUME NEW s \in Sweepers, SweepCrash(s)
           PROVE  FpInv'
      BY <2>2 DEF SweepCrash
    <2>3. ASSUME NEW k \in Keys, IdemExpires(k) \/ IdemLockLapses(k)
           PROVE  FpInv'
      <3>1. CASE IdemExpires(k)
        BY <3>1 DEF IdemExpires
      <3>2. CASE IdemLockLapses(k)
        BY <3>2 DEF IdemLockLapses, MayLapse
      <3> QED
        BY <2>3, <3>1, <3>2
    <2>4. ASSUME NEW f \in Fingerprints, FpLockLapses(f)
           PROVE  FpInv'
      BY <2>4 DEF FpLockLapses, MayLapse
    <2> QED
      BY <1>6, <2>1, <2>2, <2>3, <2>4 DEF Environment
  <1> QED
    BY <1>1, <1>2, <1>3, <1>4, <1>5, <1>6 DEF Next

\* Two requests for one cart in one window, under any keys, are never both
\* charged, however late the provider acts: the DistributedLock on the
\* fingerprint, check_duplicate and remember_outcome.  It needs locks that outlast the
\* pipeline and pipelines that end; a crash or a raising await after the charge
\* leaves the slot free, and no index stands behind it.  A token that expires
\* under its pipeline does no harm: it is refused, or the charge was made before.
THEOREM ChargedOncePerFingerprint ==
    ASSUME Faults \cap {"lock_expiry", "crash", "audit", "outage"} = {}
    PROVE  Spec => []OneChargePerFingerprint
  <1>2. Spec => [](TypeInv /\ KeyInv /\ BranchInv /\ OrderInv /\ FpInv)
    BY TypeInit, TypeStep, KeyInit, KeyStep, BranchInit, BranchStep,
       OrderInit, OrderStep, FpInit, FpStep, PTL DEF Spec
  <1>3. TypeInv /\ BranchInv /\ FpInv => OneChargePerFingerprint
    <2> SUFFICES ASSUME TypeInv, BranchInv, FpInv, NEW r \in Requests,
                        NEW q \in Requests, Charged(r), Charged(q),
                        FpOf[r] = FpOf[q]
                 PROVE  r = q
      BY DEF OneChargePerFingerprint
    <2> DEFINE Busy(x) == pc[x] \in {"await", "to_unknown"} \cup Answering
    <2>1. /\ Busy(r) \/ fp[FpOf[r]] = r
          /\ Busy(q) \/ fp[FpOf[r]] = q
      BY DEF FpInv, Reserves, Chargeable, Charged
    <2>2. /\ Busy(r) => fpLock[FpOf[r]] = r /\ fp[FpOf[r]] \in {None, r}
          /\ Busy(q) => fpLock[FpOf[r]] = q /\ fp[FpOf[r]] \in {None, q}
      BY DEF FpInv, HoldsFpLock, Reserves, BranchInv, Branches, Charged,
             Answering, InPipeline, Checked
    <2> QED
      BY <2>1, <2>2, ProcsAssumption
  <1> QED
    BY <1>2, <1>3, PTL
=============================================================================
