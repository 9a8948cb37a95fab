--------------------------- MODULE WeatherProducer ---------------------------
(***************************************************************************)
(* The NWS poller, src/producers/weather_producer.py, with the queue of    *)
(* its Kafka client.                                                       *)
(*                                                                         *)
(* A pass asks for the alerts, the observations or both, in the order of   *)
(* AIRPORTS.  The deadlines and the backoff after a failed request only    *)
(* delay a pass; they are left out.                                        *)
(***************************************************************************)
EXTENDS WeatherTopic

CONSTANTS
    Order,          \* per topic: its keys, in the order of AIRPORTS
    MaxChanges      \* bound: how often the weather changes

ASSUME OrderAssumption ==
    Order \in [Topics -> Seq(Keys)] /\ MaxChanges \in Nat

VARIABLES
    source,         \* the NWS: the signature it serves for each key
    changes,        \* how often it changed
    remembered,     \* last_obs_ts and seen_alerts
    remaining,      \* the keys this pass has not asked for yet
    queue,          \* per topic: produced, not yet delivered
    \* History:
    lost,           \* keys whose last message was not delivered
    repeats         \* failures that may repeat a message in the topic

producerVars == <<source, changes, remembered, remaining, queue, lost, repeats>>

ProducerInit ==
    /\ source = [k \in Keys |-> Null] /\ changes = 0
    /\ remembered = [k \in Keys |-> Null]
    /\ remaining = <<>> /\ queue = [t \in Topics |-> <<>>]
    /\ lost = {} /\ repeats = 0

(* The weather changes; an alert may expire.                               *)
Change ==
    /\ changes < MaxChanges /\ changes' = changes + 1
    /\ \E k \in Keys, s \in Signatures \cup {Null} :
          s # source[k] /\ source' = [source EXCEPT ![k] = s]
    /\ UNCHANGED <<remembered, remaining, queue, lost, repeats, log, faults>>

(* main(): the deadlines of these topics have passed.                      *)
StartPass(topics) ==
    /\ remaining = <<>>
    /\ remaining' = (IF ALERTS_TOPIC \in topics THEN Order[ALERTS_TOPIC] ELSE <<>>)
                    \o (IF OBS_TOPIC \in topics THEN Order[OBS_TOPIC] ELSE <<>>)
    /\ UNCHANGED <<source, changes, remembered, queue, lost, repeats, log, faults>>

-----------------------------------------------------------------------------
(* A bug form, for the mutation runs.                                      *)
ChangedAlways(k) == source[k] # Null
-----------------------------------------------------------------------------

(* A key is published when its signature is not the remembered one.        *)
Changed(k) == source[k] # Null /\ remembered[k] # source[k]

(* poll_observation and poll_alerts: what is handed to the client is       *)
(* remembered at once; flush() waits, but not for success.                 *)
PollKey ==
    /\ remaining # <<>> /\ remaining' = Tail(remaining)
    /\ LET k == Head(remaining) IN
       IF Changed(k)
       THEN /\ queue' = [queue EXCEPT ![TopicOf(k)] = Append(@, Good(k, source[k]))]
            /\ remembered' = [remembered EXCEPT ![k] = source[k]]
       ELSE UNCHANGED <<queue, remembered>>
    /\ UNCHANGED <<source, changes, lost, repeats, log, faults>>

(* A request that fails yields nothing for its key.                        *)
PollFails ==
    /\ Fault
    /\ remaining # <<>> /\ remaining' = Tail(remaining)
    /\ UNCHANGED <<source, changes, remembered, queue, lost, repeats, log>>

(* An answer that cannot be parsed raises: the rest of the pass is skipped.*)
PollRaises ==
    /\ Fault
    /\ remaining # <<>> /\ remaining' = <<>>
    /\ UNCHANGED <<source, changes, remembered, queue, lost, repeats, log>>

(* The client delivers the queue of a topic in order.                      *)
Deliver(t) ==
    /\ queue[t] # <<>> /\ queue' = [queue EXCEPT ![t] = Tail(@)]
    /\ log' = [log EXCEPT ![t] = Append(@, Head(queue[t]))]
    /\ lost' = lost \ {Head(queue[t]).key}
    /\ UNCHANGED <<source, changes, remembered, remaining, repeats, faults>>

(* The acknowledgement is lost, and the client will deliver again.         *)
DeliverTwice(t) ==
    /\ Fault
    /\ queue[t] # <<>>
    /\ log' = [log EXCEPT ![t] = Append(@, Head(queue[t]))]
    /\ repeats' = repeats + 1
    /\ UNCHANGED <<source, changes, remembered, remaining, queue, lost>>

(* The broker is away for longer than the client keeps a message.          *)
DeliveryFails(t) ==
    /\ Fault
    /\ queue[t] # <<>> /\ queue' = [queue EXCEPT ![t] = Tail(@)]
    /\ lost' = lost \cup {Head(queue[t]).key}
    /\ repeats' = repeats + 1
    /\ UNCHANGED <<source, changes, remembered, remaining, log>>

(* The process dies and Docker starts it again, with an empty memory.      *)
ProducerCrash ==
    /\ Fault
    /\ remembered' = [k \in Keys |-> Null]
    /\ remaining' = <<>> /\ queue' = [t \in Topics |-> <<>>]
    /\ lost' = {} /\ repeats' = repeats + 1
    /\ UNCHANGED <<source, changes, log>>

ProducerNext ==
    \/ Change \/ PollKey \/ PollFails \/ PollRaises \/ ProducerCrash
    \/ StartPass(Topics)
    \/ \E t \in Topics : StartPass({t}) \/ Deliver(t) \/ DeliverTwice(t) \/ DeliveryFails(t)

-----------------------------------------------------------------------------
ProducerTypeOK ==
    /\ source \in [Keys -> Signatures \cup {Null}]
    /\ remembered \in [Keys -> Signatures \cup {Null}]
    /\ changes \in Nat /\ repeats \in Nat
    /\ remaining \in Seq(Keys) /\ queue \in [Topics -> Seq(Published)]
    /\ lost \subseteq Keys

(* Where a message of a key equals the one of that key before it.          *)
Again(messages, k) ==
    {i \in DOMAIN messages :
        /\ messages[i].key = k
        /\ \E j \in 1..(i - 1) :
              /\ messages[j] = messages[i]
              /\ \A n \in (j + 1)..(i - 1) : messages[n].key # k}

(* "The topic carries changes, not heartbeats": of the messages of one     *)
(* key, two in a row are only equal because of a failure in between.       *)
Heartbeats(k) == Again(log[TopicOf(k)], k)

=============================================================================
