---------------------------- MODULE WeatherTopic ----------------------------
(***************************************************************************)
(* What the weather producer and the weather consumer share: the messages, *)
(* and the topics wx.observations and wx.alerts, of one partition each.    *)
(*                                                                         *)
(* A key is a station, or an alert at an airport.  A signature is what the *)
(* producer compares to see a change (the time of an observation; event,   *)
(* severity and times of an alert) and stands for the whole payload.       *)
(***************************************************************************)
EXTENDS Naturals, Sequences

CONSTANTS
    Stations, Alerts, Signatures,
    Null,           \* no observation, no alert; nothing remembered
    MaxFaults       \* bound: failures of any kind, together

ASSUME WeatherAssumption ==
    /\ MaxFaults \in Nat /\ Stations \cap Alerts = {}
    /\ Null \notin Signatures \cup Stations \cup Alerts

VARIABLES
    log,            \* the topics, in the order of their offsets
    faults          \* history: the failures so far

Keys == Stations \cup Alerts
OBS_TOPIC == "wx.observations"
ALERTS_TOPIC == "wx.alerts"
Topics == {OBS_TOPIC, ALERTS_TOPIC}
TopicOf(k) == IF k \in Stations THEN OBS_TOPIC ELSE ALERTS_TOPIC

Good(k, signature) == [kind |-> "good", key |-> k, signature |-> signature]

(* "garbled" is not JSON or no object; "unwritable" is refused by Postgres. *)
Junk(kind) == [kind |-> kind, key |-> Null, signature |-> Null]

Published == {Good(k, s) : k \in Keys, s \in Signatures}
Message   == Published \cup {Junk(kind) : kind \in {"garbled", "unwritable"}}

Fault == faults < MaxFaults /\ faults' = faults + 1

=============================================================================
