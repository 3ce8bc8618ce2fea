--------------------------- MODULE CircuitBreaker ---------------------------
(***************************************************************************)
(* The injection classifier and the breaker in front of it.                *)
(*                                                                         *)
(* classify checks the breaker, awaits the model and records how the call  *)
(* went; other calls run while it waits.  A call that was let through      *)
(* before the breaker opened may still fail, or succeed, after it.  Once   *)
(* the cooldown has passed every caller is let through, not one trial.     *)
(***************************************************************************)
EXTENDS Integers

CONSTANTS
    Classifications,    \* concurrent calls of classify, each repeated for ever
    Threshold,          \* classifier_circuit_failures, 0 switches it off
    Cooldown            \* classifier_circuit_cooldown_seconds, in ticks

ASSUME BreakerAssumption == Threshold \in Nat /\ Cooldown \in Nat

VARIABLES
    openFor,    \* what is left of _circuit_open_until
    failures,   \* _consecutive_failures
    call,       \* "idle" or "waiting" for the model
    result,     \* the last ClassifierResult of a caller
    configured, \* the classifier is online and has a key
    streak      \* (history) transport failures since the last success, capped

breakerVars == <<openFor, failures, call, result, configured, streak>>

NoVerdict == [degraded |-> FALSE, confidence |-> 0]
degraded_result == [degraded |-> TRUE, confidence |-> 0]

BreakerInit ==
    /\ openFor = 0
    /\ failures = 0
    /\ call = [c \in Classifications |-> "idle"]
    /\ result = [c \in Classifications |-> NoVerdict]
    /\ configured \in BOOLEAN
    /\ streak = 0

_circuit_is_open == openFor > 0

Answer(c, r) == result' = [result EXCEPT ![c] = r]

\* classify up to its await: no content, no classifier, an open breaker.
Classify_bug(c) ==
    /\ call[c] = "idle"
    /\ \/ \E r \in {NoVerdict, degraded_result} : Answer(c, r) /\ UNCHANGED call
       \/ configured /\ call' = [call EXCEPT ![c] = "waiting"] /\ UNCHANGED result
    /\ UNCHANGED <<openFor, failures, configured, streak>>

Classify(c) ==
    /\ call[c] = "idle"
    /\ \/ /\ Answer(c, NoVerdict)               \* nothing to classify
          /\ UNCHANGED call
       \/ /\ ~configured \/ _circuit_is_open
          /\ Answer(c, degraded_result)
          /\ UNCHANGED call
       \/ /\ configured /\ ~_circuit_is_open
          /\ call' = [call EXCEPT ![c] = "waiting"]
          /\ UNCHANGED result
    /\ UNCHANGED <<openFor, failures, configured, streak>>

Capped(n) == IF n < Threshold THEN n ELSE Threshold

\* Opening clears the counter.  (With the breaker switched off the counter
\* grows and is never looked at.)
_record_transport_failure ==
    LET trips == Threshold > 0 /\ failures + 1 >= Threshold
    IN  /\ openFor' = IF trips THEN Cooldown ELSE openFor
        /\ failures' = IF trips \/ Threshold = 0 THEN 0 ELSE failures + 1

_record_success == openFor' = 0 /\ failures' = 0

\* A timeout or an API error.
TransportFailure(c) ==
    /\ call[c] = "waiting"
    /\ call' = [call EXCEPT ![c] = "idle"]
    /\ Answer(c, degraded_result)
    /\ _record_transport_failure
    /\ streak' = Capped(streak + 1)
    /\ UNCHANGED configured

\* The payload's confidence, in thousandths: a number in or out of range, NaN
\* (which Python's max takes for 0), or nothing that float accepts.
Payloads == {-1, 0, 700, 1000, 1001}

\* Clamps from below only.
_coerce_bug(x) == [degraded |-> FALSE, confidence |-> IF x < 0 THEN 0 ELSE x]

_coerce(x) ==
    [degraded |-> FALSE,
     confidence |-> IF x < 0 THEN 0 ELSE IF x > 1000 THEN 1000 ELSE x]

\* What becomes of an answer: truncated, unparseable or malformed, or coerced.
Coerced == {degraded_result} \cup {_coerce(x) : x \in Payloads}

\* The API answered: _record_success comes before the answer is parsed.
ApiAnswers_bug(c) ==
    /\ call[c] = "waiting"
    /\ call' = [call EXCEPT ![c] = "idle"]
    /\ \E r \in Coerced : Answer(c, r)
    /\ openFor' = 0
    /\ streak' = 0
    /\ UNCHANGED <<failures, configured>>

ApiAnswers(c) ==
    /\ call[c] = "waiting"
    /\ call' = [call EXCEPT ![c] = "idle"]
    /\ \E r \in Coerced : Answer(c, r)
    /\ _record_success
    /\ streak' = 0
    /\ UNCHANGED configured

CooldownPasses ==
    /\ openFor > 0
    /\ openFor' = openFor - 1
    /\ UNCHANGED <<failures, call, result, configured, streak>>

BreakerNext ==
    \/ \E c \in Classifications :
          Classify(c) \/ TransportFailure(c) \/ ApiAnswers(c)
    \/ CooldownPasses

BreakerSpec == BreakerInit /\ [][BreakerNext]_breakerVars

BreakerTypeOK ==
    /\ openFor \in 0..Cooldown
    /\ failures \in Nat
    /\ call \in [Classifications -> {"idle", "waiting"}]
    /\ result \in [Classifications -> [degraded : BOOLEAN, confidence : 0..1000]]
    /\ configured \in BOOLEAN
    /\ streak \in 0..Threshold

\* The breaker is open only after `Threshold` transport failures with no
\* success among them, in the order the calls ended, although the counter is
\* cleared each time it opens and calls from before may end at any time.
OpenIsEarned == openFor > 0 => streak = Threshold /\ Threshold > 0

\* An open breaker closes: late failures may prolong the cooldown, but nobody
\* new is let through meanwhile, so they run out.
BreakerCloses == openFor > 0 ~> openFor = 0
=============================================================================
