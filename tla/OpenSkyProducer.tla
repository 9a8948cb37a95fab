--------------------------- MODULE OpenSkyProducer ---------------------------
(***************************************************************************)
(* The OpenSky poller: src/producers/opensky_producer.py with its          *)
(* TokenManager and Backoff, and the queue of its Kafka client.            *)
(*                                                                         *)
(* Time is left out: a sleep ends, whatever its length, and a token comes  *)
(* due for its refresh at any moment.  With it goes what only changes the  *)
(* length of a sleep, the credit guard and Retry-After.                    *)
(***************************************************************************)
EXTENDS StatesTopic, FiniteSets

CONSTANT MaxPolled      \* bound: the vectors OpenSky ever answers; empty answers go on

VARIABLES
    pc,             \* where main() is
    running,        \* _running
    attempt,        \* of poll_once
    token,          \* "none", or what OpenSky makes of it: "good", "bad"
    backoff,        \* Backoff._current
    sending,        \* the client's queue: produced, not delivered
    \* History:
    revoked,        \* how often OpenSky stopped accepting the held token
    unauthorized    \* how many polls ended with a 401

producerVars == <<pc, running, attempt, token, backoff, sending, revoked, unauthorized>>

InitialS == 30
MaxS     == 480

ProducerInit ==
    /\ pc = "loop" /\ running = TRUE /\ attempt = 1 /\ token = "none"
    /\ backoff = InitialS /\ sending = {} /\ revoked = 0 /\ unauthorized = 0

-----------------------------------------------------------------------------
(* Bug forms, for the mutation runs.                                       *)
InvalidateKept == token' = token
LoopUntilFull ==
    /\ pc = "loop" /\ sending = {}
    /\ pc' = IF running THEN "token" ELSE "stopping"
    /\ attempt' = 1
    /\ UNCHANGED <<running, token, backoff, sending, revoked, unauthorized, log, faults>>
-----------------------------------------------------------------------------

(* while _running                                                          *)
Loop ==
    /\ pc = "loop"
    /\ pc' = IF running THEN "token" ELSE "stopping"
    /\ attempt' = 1
    /\ UNCHANGED <<running, token, backoff, sending, revoked, unauthorized, log, faults>>

(* TokenManager.get: a token that is held and not due is used.             *)
GetHeld ==
    /\ pc = "token" /\ token # "none"
    /\ pc' = "request"
    /\ UNCHANGED <<running, attempt, token, backoff, sending, revoked, unauthorized, log, faults>>

(* TokenManager._refresh                                                   *)
Refresh ==
    /\ pc = "token"
    /\ token' = "good" /\ pc' = "request"
    /\ UNCHANGED <<running, attempt, backoff, sending, revoked, unauthorized, log, faults>>

(* A refused or unreachable refresh is a failed request; one that is not   *)
(* understood skips the cycle.                                             *)
RefreshFails ==
    /\ Fault
    /\ pc = "token" /\ pc' \in {"backoff", "sleep"}
    /\ UNCHANGED <<running, attempt, token, backoff, sending, revoked, unauthorized, log>>

Invalidate == token' = "none"

(* A 401: the first is retried at once, the second fails the poll.         *)
Unauthorized ==
    /\ pc = "request" /\ token = "bad"
    /\ IF attempt = 1
       THEN Invalidate /\ attempt' = 2 /\ pc' = "token" /\ UNCHANGED unauthorized
       ELSE pc' = "backoff" /\ unauthorized' = unauthorized + 1 /\ UNCHANGED <<attempt, token>>
    /\ UNCHANGED <<running, backoff, sending, revoked, log, faults>>

(* 429 sleeps for as long as it says; 5xx, any other answer and no answer  *)
(* at all back off.                                                        *)
RequestFails ==
    /\ Fault
    /\ pc = "request" /\ pc' \in {"backoff", "sleep"}
    /\ UNCHANGED <<running, attempt, token, backoff, sending, revoked, unauthorized, log>>

Answered ==
    /\ pc = "request" /\ token = "good"
    /\ backoff' = InitialS /\ pc' = "publish"
    /\ UNCHANGED <<running, attempt, token, sending, revoked, unauthorized, log, faults>>

(* The messages of one answer: of its vectors that parse, one per aircraft.*)
Answer(vectors, located, made, polled) ==
    {[icao24 |-> a, api_ts |-> made, poll_ts |-> polled, positioned |-> a \in located] : a \in vectors}

Produce ==
    \E vectors, located \in SUBSET Aircraft, made \in 1..MaxApiTs, polled \in 1..MaxPollTs :
        /\ vectors # {} => Len(log) + Cardinality(sending) + Cardinality(vectors) <= MaxPolled
        /\ sending' = sending \cup Answer(vectors, located, made, polled)

Publish ==
    /\ pc = "publish" /\ pc' = "flush"
    /\ Produce
    /\ UNCHANGED <<running, attempt, token, backoff, revoked, unauthorized, log, faults>>

(* The answer is not understood, or the queue is full: the rest of the     *)
(* cycle is skipped, the flush with it.                                    *)
PublishRaises ==
    /\ Fault
    /\ pc = "publish" /\ pc' = "sleep"
    /\ Produce
    /\ UNCHANGED <<running, attempt, token, backoff, revoked, unauthorized, log>>

(* flush(10), at the end of a poll and of main(): it waits, but not for    *)
(* success.                                                                *)
Flush ==
    /\ pc \in {"flush", "stopping"}
    /\ pc' = IF pc = "flush" THEN "sleep" ELSE "stopped"
    /\ UNCHANGED <<running, attempt, token, backoff, sending, revoked, unauthorized, log, faults>>

(* Backoff.sleep                                                           *)
BackOff ==
    /\ pc = "backoff" /\ pc' = "loop"
    /\ backoff' = IF 2 * backoff < MaxS THEN 2 * backoff ELSE MaxS
    /\ UNCHANGED <<running, attempt, token, sending, revoked, unauthorized, log, faults>>

Sleep ==
    /\ pc = "sleep" /\ pc' = "loop"
    /\ UNCHANGED <<running, attempt, token, backoff, sending, revoked, unauthorized, log, faults>>

Stop ==
    /\ Fault
    /\ running /\ running' = FALSE
    /\ UNCHANGED <<pc, attempt, token, backoff, sending, revoked, unauthorized, log>>

(* The client delivers a message, perhaps not for the last time, or gives  *)
(* it up.                                                                  *)
Deliver ==
    /\ \E m \in sending : log' = Append(log, m) /\ sending' = sending \ {m}
    /\ UNCHANGED <<pc, running, attempt, token, backoff, revoked, unauthorized, faults>>

DeliverTwice ==
    /\ Fault
    /\ \E m \in sending : log' = Append(log, m)
    /\ UNCHANGED <<pc, running, attempt, token, backoff, sending, revoked, unauthorized>>

DeliveryFails ==
    /\ Fault
    /\ \E m \in sending : sending' = sending \ {m}
    /\ UNCHANGED <<pc, running, attempt, token, backoff, revoked, unauthorized, log>>

(* OpenSky lets the held token go.                                         *)
Revoke ==
    /\ Fault
    /\ token = "good" /\ token' = "bad" /\ revoked' = revoked + 1
    /\ UNCHANGED <<pc, running, attempt, backoff, sending, unauthorized, log>>

(* The process dies and Docker starts it again, unless it was being        *)
(* stopped: then it has until the end of the grace period.                 *)
ProducerCrash ==
    /\ Fault
    /\ pc # "stopped" /\ pc' = IF running THEN "loop" ELSE "stopped"
    /\ attempt' = 1 /\ token' = "none" /\ backoff' = InitialS /\ sending' = {}
    /\ UNCHANGED <<running, revoked, unauthorized, log>>

MainStep ==
    \/ Loop \/ GetHeld \/ Refresh \/ Unauthorized \/ Answered \/ Publish
    \/ Flush \/ BackOff \/ Sleep

ProducerNext ==
    \/ MainStep \/ RefreshFails \/ RequestFails \/ PublishRaises
    \/ Stop \/ Deliver \/ DeliverTwice \/ DeliveryFails \/ Revoke \/ ProducerCrash

ProducerSpec ==
    /\ log = <<>> /\ faults = 0 /\ ProducerInit
    /\ [][ProducerNext]_<<log, faults, producerVars>>

-----------------------------------------------------------------------------
ProducerTypeOK ==
    /\ pc \in {"loop", "token", "request", "publish", "flush", "backoff", "sleep",
               "stopping", "stopped"}
    /\ running \in BOOLEAN /\ attempt \in {1, 2} /\ token \in {"none", "good", "bad"}
    /\ backoff \in InitialS..MaxS /\ sending \subseteq Message
    /\ revoked \in Nat /\ unauthorized \in Nat

(* A token OpenSky no longer accepts costs at most one poll each time.     *)
OneRevocationOnePoll == unauthorized <= revoked

(* Whatever fails, the poller publishes an answer and comes to the flush   *)
(* behind it, again and again until it is stopped.                         *)
PollsForever == <>~running \/ []<>(pc = "flush")

=============================================================================
