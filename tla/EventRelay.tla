----------------------------- MODULE EventRelay -----------------------------
(***************************************************************************)
(* The relay between Redis and one browser tab.                            *)
(*                                                                         *)
(* Events are numbered in the order the pump receives them.  Between two   *)
(* awaits of the tab's own task the pump may fan out any number of events; *)
(* fan-out itself has no await that yields, so it is one step.  Tabs share *)
(* nothing but the pump, so one is enough.                                 *)
(***************************************************************************)
EXTENDS Integers, Sequences, FiniteSets, FiniteSetsExt

CONSTANTS
    MaxEvents,          \* bound: events the pump receives
    CLIENT_QUEUE_SIZE,
    REPLAY_BUFFER_SIZE

ASSUME RelayAssumption ==
    /\ MaxEvents \in Nat
    /\ CLIENT_QUEUE_SIZE \in Nat \ {0}
    /\ REPLAY_BUFFER_SIZE \in Nat \ {0}

VARIABLES
    connected,  \* the pump's subscription to Redis is up
    events_seen,
    mine,       \* the events this tab wants: all of them, or one request's
    phase,      \* where the tab's _serve is
    queue,      \* its bounded queue
    dropped,    \* its count of events that found the queue full
    toReplay,   \* events _serve has still to replay
    inHand,     \* the event, or the count, it is sending
    shown,      \* events the browser got, replayed or live
    reported,   \* drops the browser was told of
    missed,     \* (history) events dropped for this tab
    erased      \* (history) drops counted while a report was being sent

relayVars == <<connected, events_seen, mine, phase, queue, dropped, toReplay,
               inHand, shown, reported, missed, erased>>

Phases == {"none", "hello", "replay", "live", "sending", "reporting", "gone"}

RelayInit ==
    /\ connected = FALSE
    /\ events_seen = 0
    /\ mine = {}
    /\ phase = "none"
    /\ queue = <<>>
    /\ dropped = 0
    /\ toReplay = {}
    /\ inHand = 0
    /\ shown = {}
    /\ reported = 0
    /\ missed = {}
    /\ erased = 0

tabVars == <<phase, toReplay, inHand, shown, reported, erased>>

\* The tab is among the hub's subscribers: from add to remove.
Subscribed_bug == phase \in {"live", "sending", "reporting"}

Subscribed == phase \in Phases \ {"none", "gone"}

\* _pump connects, or loses its subscription; what is published while it is
\* down never reaches the relay.
PumpConnects ==
    /\ connected' = ~connected
    /\ UNCHANGED <<events_seen, mine, queue, dropped, missed, tabVars>>

\* _fan_out of one event, wanted by this tab or not.
FanOut ==
    LET e == events_seen + 1
    IN  /\ connected /\ e <= MaxEvents
        /\ events_seen' = e
        /\ \/ /\ UNCHANGED <<mine, queue, dropped, missed>>
           \/ /\ mine' = mine \cup {e}
              /\ \/ ~Subscribed /\ UNCHANGED <<queue, dropped, missed>>
                 \/ /\ Subscribed /\ Len(queue) < CLIENT_QUEUE_SIZE
                    /\ queue' = Append(queue, e)
                    /\ UNCHANGED <<dropped, missed>>
                 \/ /\ Subscribed /\ Len(queue) = CLIENT_QUEUE_SIZE
                    /\ dropped' = dropped + 1
                    /\ missed' = missed \cup {e}
                    /\ UNCHANGED queue
        /\ UNCHANGED <<connected, tabVars>>

\* _recent, trimmed to the buffer's size.
_recent == {e \in 1..events_seen : e > events_seen - REPLAY_BUFFER_SIZE}

replay == _recent \cap mine

\* _serve: accept, hub.add, then the hello is sent.
Add ==
    /\ phase = "none"
    /\ phase' = "hello"
    /\ UNCHANGED <<connected, events_seen, mine, queue, dropped, toReplay,
                   inHand, shown, reported, missed, erased>>

\* The hello is through: hub.replay is read once.
SendHello ==
    /\ phase = "hello"
    /\ phase' = "replay"
    /\ toReplay' = replay
    /\ UNCHANGED <<connected, events_seen, mine, queue, dropped, inHand, shown,
                   reported, missed, erased>>

SendReplayed ==
    /\ phase = "replay"
    /\ IF toReplay = {}
       THEN phase' = "live" /\ UNCHANGED <<toReplay, shown>>
       ELSE LET e == Min(toReplay)
            IN  /\ toReplay' = toReplay \ {e}
                /\ shown' = shown \cup {e}
                /\ UNCHANGED phase
    /\ UNCHANGED <<connected, events_seen, mine, queue, dropped, inHand,
                   reported, missed, erased>>

\* queue.get returns; the event is on its way.
TakeLive ==
    /\ phase = "live" /\ queue # <<>>
    /\ phase' = "sending"
    /\ inHand' = Head(queue)
    /\ queue' = Tail(queue)
    /\ UNCHANGED <<connected, events_seen, mine, dropped, toReplay, shown,
                   reported, missed, erased>>

\* The event is sent; drops counted by now are put into a report.
SendLive ==
    /\ phase = "sending"
    /\ shown' = shown \cup {inHand}
    /\ IF dropped > 0 THEN phase' = "reporting" /\ inHand' = dropped
                      ELSE phase' = "live" /\ inHand' = 0
    /\ UNCHANGED <<connected, events_seen, mine, queue, dropped, toReplay,
                   reported, missed, erased>>

\* The report is sent and the count cleared, with what was added meanwhile.
SendDropped_bug ==
    /\ phase = "reporting"
    /\ phase' = "live"
    /\ reported' = reported + inHand
    /\ inHand' = 0
    /\ UNCHANGED <<connected, events_seen, mine, queue, dropped, toReplay,
                   shown, missed, erased>>

SendDropped ==
    /\ phase = "reporting"
    /\ phase' = "live"
    /\ reported' = reported + inHand
    /\ erased' = erased + (dropped - inHand)
    /\ dropped' = 0
    /\ inHand' = 0
    /\ UNCHANGED <<connected, events_seen, mine, queue, toReplay, shown, missed>>

\* The socket closes: hub.remove.
Disconnect ==
    /\ Subscribed
    /\ phase' = "gone"
    /\ UNCHANGED <<connected, events_seen, mine, queue, dropped, toReplay,
                   inHand, shown, reported, missed, erased>>

RelayNext == \/ PumpConnects \/ FanOut \/ Add \/ SendHello \/ SendReplayed
             \/ TakeLive \/ SendLive \/ SendDropped \/ Disconnect

RelaySpec == RelayInit /\ [][RelayNext]_relayVars

RelayTypeOK ==
    /\ connected \in BOOLEAN
    /\ events_seen \in 0..MaxEvents
    /\ mine \subseteq 1..events_seen
    /\ phase \in Phases
    /\ queue \in Seq(1..MaxEvents) /\ Len(queue) <= CLIENT_QUEUE_SIZE
    /\ dropped \in Nat /\ reported \in Nat /\ erased \in Nat /\ inHand \in Nat
    /\ toReplay \subseteq mine /\ shown \subseteq mine /\ missed \subseteq mine

\* The events accounted for: shown, waiting, being sent, or counted as missed.
Accounted ==
    shown \cup toReplay \cup {queue[i] : i \in 1..Len(queue)} \cup missed
          \cup (IF phase = "sending" THEN {inHand} ELSE {})

\* A late tab sees a run from some event on without a gap: once it has been
\* replayed one event, every later one it wants is replayed, queued, shown or
\* counted, although the buffer is read after the tab was added and trimmed
\* while events keep coming.
NoGapAtJoin ==
    phase \in Phases \ {"none", "hello", "gone"} =>
        \A e, f \in mine : e \in Accounted /\ e < f => f \in Accounted

\* "The count is reported so the UI can say so": every drop is counted or was
\* reported, but for those that happen while a report is being sent, which the
\* reset after it wipes out.
DropsAreReported ==
    /\ Cardinality(missed) = dropped + reported + erased
    /\ phase = "reporting" => inHand <= dropped
=============================================================================
