----------------------------- MODULE StatesTopic -----------------------------
(***************************************************************************)
(* The topic adsb.states.raw between the OpenSky producer and the queries  *)
(* of the streaming application, and the faults they are exposed to.       *)
(***************************************************************************)
EXTENDS Integers, Sequences

CONSTANTS
    Null,
    Aircraft,       \* the icao24 addresses
    MaxApiTs,       \* bound: the last api_ts
    MaxPollTs,      \* bound: the last poll_ts
    MaxLog,         \* bound: the messages ever published
    MaxFaults       \* bound: how often something fails

ASSUME TopicAssumption == MaxApiTs \in Nat /\ MaxPollTs \in Nat /\ MaxLog \in Nat /\ MaxFaults \in Nat

VARIABLES
    log,            \* the topic, in offset order
    faults          \* how often something failed

(* StateMessage: whose report, when OpenSky made it, when it was polled,   *)
(* and whether it has a position.                                          *)
Message ==
    [icao24 : Aircraft, api_ts : 1..MaxApiTs, poll_ts : 1..MaxPollTs, positioned : BOOLEAN]

ASSUME NullAssumption == Null \notin Message /\ Null \notin Int

Fault == faults < MaxFaults /\ faults' = faults + 1

(* What the queries make of the producer: any message may be the next one, *)
(* late, repeated or reordered.                                            *)
Published ==
    /\ Len(log) < MaxLog
    /\ \E m \in Message : log' = Append(log, m)

=============================================================================
