----------------------------- MODULE EventsQuery -----------------------------
(***************************************************************************)
(* The events query of src/streaming/spark_app.py: the topic it reads, its *)
(* checkpoint, and its micro-batches, which end in the upsert into         *)
(* flight_events; with crashes, restarts and the replay runbook.           *)
(*                                                                         *)
(* Spark is external.  What the code relies on: a batch's offsets (and the *)
(* time that decides which groups time out) are logged before it runs, a   *)
(* logged batch is run again after a restart, and offsets and group states *)
(* advance when it is committed, after the sink returned.  foreachBatch    *)
(* raising, a detector raising and a killed process all end the            *)
(* application, which Docker starts again.                                 *)
(***************************************************************************)
EXTENDS EventsBatch

CONSTANTS
    MaxOffsetsPerTrigger,
    MaxLog,         \* bound: the messages ever published
    MaxTs,          \* bound: their last ts
    MaxCrashes,     \* bound: how often the application dies
    MaxResets       \* bound: how often the operator deletes the checkpoint

ASSUME EventsAssumption ==
    /\ MaxOffsetsPerTrigger \in Nat \ {0}
    /\ MaxLog \in Nat /\ MaxTs \in Nat /\ MaxCrashes \in Nat /\ MaxResets \in Nat
    /\ Null \notin [upTo : Nat, expired : SUBSET Aircraft]

VARIABLES
    log,            \* adsb.states.raw, in offset order
    phase,          \* "down", "ready" for a trigger, "ran", "sunk"
    fresh,          \* checkpoints/events does not exist: the next three hold
                    \* what the last one held, until Start makes a new one
    offset,         \* checkpoint: where the last committed batch ended
    states,         \* checkpoint: the group states it left
    planned,        \* checkpoint: the batch logged and not yet committed
    replayFrom,     \* EVENTS_REPLAY_FROM
    flight_events,  \* the table
    result,         \* what the batch that ran last amounts to, in memory
    \* History:
    delivered,      \* the rows of the planned batch have reached the table
    crashes, resets

vars == <<log, phase, fresh, offset, states, planned, replayFrom, flight_events,
          result, delivered, crashes, resets>>

Init ==
    /\ log = <<>> /\ phase = "down" /\ fresh = TRUE
    /\ offset = 0 /\ states = NoStates /\ planned = Null
    /\ replayFrom = Null /\ flight_events = <<>>
    /\ result = [states |-> NoStates, rows |-> <<>>]
    /\ delivered = FALSE /\ crashes = 0 /\ resets = 0

PlannedBatch == SubSeq(log, offset + 1, planned.upTo)
PlannedResult ==
    [states |-> StatesAfter(states, PlannedBatch, planned.expired),
     rows   |-> RowsOf(states, PlannedBatch, planned.expired)]

(* The producer's next message: api_ts grows from poll to poll, and a poll *)
(* has one report per aircraft.                                            *)
Publish ==
    /\ Len(log) < MaxLog
    /\ \E a \in Aircraft, t \in 0..MaxTs, p \in Profiles \cup {NoPosition} :
          /\ \A i \in DOMAIN log :
                /\ log[i].ts <= t
                /\ log[i].icao24 = a => log[i].ts < t
          /\ log' = Append(log, [icao24 |-> a, ts |-> t, report |-> p])
    /\ UNCHANGED <<phase, fresh, offset, states, planned, replayFrom, flight_events,
                   result, delivered, crashes, resets>>

(* Where a fresh query starts: startingOffsetsByTimestamp when the         *)
(* environment names a time, and so behind the messages before the first   *)
(* that is not older; else the earliest message.                           *)
StartingOffset(from) ==
    IF from = Null THEN 0
    ELSE Cardinality({i \in DOMAIN log : \A j \in 1..i : log[j].ts < from})

-----------------------------------------------------------------------------
(* Bug forms, for the mutation runs.                                       *)
StartLosingPlan ==
    /\ phase = "down" /\ phase' = "ready" /\ fresh' = FALSE
    /\ planned' = Null /\ delivered' = FALSE
    /\ UNCHANGED <<log, offset, states, replayFrom, flight_events, result, crashes, resets>>
PlanFullBatches ==
    /\ phase = "ready" /\ planned = Null
    /\ offset + MaxOffsetsPerTrigger <= Len(log)
    /\ planned' = [upTo |-> offset + MaxOffsetsPerTrigger, expired |-> {}]
    /\ UNCHANGED <<log, phase, fresh, offset, states, replayFrom, flight_events,
                   result, delivered, crashes, resets>>
PlanUnclamped ==
    /\ phase = "ready" /\ planned = Null /\ offset < Len(log)
    /\ planned' = [upTo |-> offset + MaxOffsetsPerTrigger, expired |-> {}]
    /\ UNCHANGED <<log, phase, fresh, offset, states, replayFrom, flight_events,
                   result, delivered, crashes, resets>>
-----------------------------------------------------------------------------

(* main(): the query resumes its checkpoint; only a fresh one reads        *)
(* replayFrom.                                                             *)
Start ==
    /\ phase = "down"
    /\ fresh /\ replayFrom # Null => \E i \in DOMAIN log : log[i].ts >= replayFrom
    /\ phase' = "ready" /\ fresh' = FALSE
    /\ IF fresh
       THEN /\ offset' = StartingOffset(replayFrom) /\ states' = NoStates
            /\ planned' = Null /\ delivered' = FALSE
       ELSE UNCHANGED <<offset, states, planned, delivered>>
    /\ UNCHANGED <<log, replayFrom, flight_events, result, crashes, resets>>

(* A trigger: the messages since the last batch, at most                   *)
(* maxOffsetsPerTrigger of them, and the groups whose timeout passed.  A   *)
(* trigger with neither changes nothing.                                   *)
Plan ==
    /\ phase = "ready" /\ planned = Null
    /\ \E expired \in SUBSET {a \in Aircraft : states[a].samples # {}} :
          LET bound == offset + MaxOffsetsPerTrigger
              upTo  == IF bound < Len(log) THEN bound ELSE Len(log)
          IN  /\ upTo > offset \/ expired # {}
              /\ planned' = [upTo |-> upTo, expired |-> expired]
    /\ UNCHANGED <<log, phase, fresh, offset, states, replayFrom, flight_events,
                   result, delivered, crashes, resets>>

(* The batch runs the detectors; one that raises takes the application     *)
(* down.                                                                   *)
RunBatch ==
    /\ phase = "ready" /\ planned # Null
    /\ IF BatchRaises(states, PlannedBatch, planned.expired)
       THEN phase' = "down" /\ UNCHANGED result
       ELSE phase' = "ran" /\ result' = PlannedResult
    /\ UNCHANGED <<log, fresh, offset, states, planned, replayFrom, flight_events,
                   delivered, crashes, resets>>

(* sink: one transaction.                                                  *)
Sink ==
    /\ phase = "ran"
    /\ flight_events' = Upsert(flight_events, result.rows)
    /\ phase' = "sunk" /\ delivered' = TRUE
    /\ UNCHANGED <<log, fresh, offset, states, planned, replayFrom, result,
                   crashes, resets>>

Commit ==
    /\ phase = "sunk"
    /\ offset' = planned.upTo
    /\ states' = result.states
    /\ planned' = Null /\ delivered' = FALSE /\ phase' = "ready"
    /\ UNCHANGED <<log, fresh, replayFrom, flight_events, result, crashes, resets>>

(* The application dies, or is stopped, between any two of these steps; a  *)
(* sink that cannot reach Postgres is a death before Sink.                 *)
Crash ==
    /\ phase # "down" /\ crashes < MaxCrashes
    /\ phase' = "down" /\ crashes' = crashes + 1
    /\ UNCHANGED <<log, fresh, offset, states, planned, replayFrom, flight_events,
                   result, delivered, resets>>

(* The replay runbook: its two halves, each of which may be forgotten.     *)
DeleteCheckpoint ==
    /\ phase = "down" /\ ~fresh /\ resets < MaxResets
    /\ fresh' = TRUE /\ resets' = resets + 1
    /\ UNCHANGED <<log, phase, offset, states, planned, replayFrom, flight_events,
                   result, delivered, crashes>>

SetReplayFrom ==
    /\ phase = "down" /\ MaxResets > 0
    /\ \E i \in DOMAIN log : replayFrom' = log[i].ts
    /\ UNCHANGED <<log, phase, fresh, offset, states, planned, flight_events,
                   result, delivered, crashes, resets>>

(* The application's own next step.                                        *)
Advance == Start \/ Plan \/ RunBatch \/ Sink \/ Commit

Next == Publish \/ Advance \/ Crash \/ DeleteCheckpoint \/ SetReplayFrom

Spec == Init /\ [][Next]_vars

(* Spark fires its trigger again and again, a batch it planned is run      *)
(* unless the application dies first, and Docker restarts the application  *)
(* ("restart: unless-stopped").                                            *)
BatchRunOrLost == phase = "ready" /\ planned # Null /\ phase' \in {"ran", "down"}

LiveSpec ==
    /\ Spec
    /\ WF_vars(Start \/ Plan \/ Sink \/ Commit)
    /\ WF_phase(BatchRunOrLost)

-----------------------------------------------------------------------------
(* Types; a planned batch never reaches beyond the topic.                  *)
TypeOK ==
    /\ log \in Seq(Message)
    /\ phase \in {"down", "ready", "ran", "sunk"}
    /\ fresh \in BOOLEAN /\ delivered \in BOOLEAN
    /\ offset \in 0..Len(log)
    /\ \A a \in Aircraft : states[a].samples \subseteq Sample /\ states[a].flags \in Flags
    /\ planned # Null => planned.upTo \in offset..Len(log) /\ planned.expired \subseteq Aircraft
    /\ replayFrom \in Nat \cup {Null}
    /\ crashes \in Nat /\ resets \in Nat

(* Crashes between any two steps and restarts leave the table, the group   *)
(* states and the place in the topic as if every batch had been one        *)
(* uninterrupted step; only a deleted checkpoint forgets the states and    *)
(* the place, and even it keeps the table.                                 *)
Once == INSTANCE EventsOnce WITH
    consumed <- IF delivered THEN planned.upTo ELSE offset,
    states   <- IF delivered THEN result.states ELSE states,
    table    <- flight_events

DetectedExactlyOnce == Once!Spec

(* Whatever was crashed or replayed, and from wherever, a landing in the   *)
(* table is in the topic: that aircraft airborne when the window started,  *)
(* and later on the ground; and, as long as nothing was replayed from a    *)
(* deleted checkpoint, not before the event.                               *)
LandingIsInTheTopic ==
    \A id \in DOMAIN flight_events :
        flight_events[id].details = "on_ground" =>
            \E i, j \in DOMAIN log :
                /\ i < j /\ log[i].icao24 = id[1] /\ log[j].icao24 = id[1]
                /\ log[i].report # NoPosition /\ ~log[i].report.onGround
                /\ log[i].ts = id[2][2]
                /\ log[j].report # NoPosition /\ log[j].report.onGround
                /\ resets = 0 => log[j].ts >= flight_events[id].event_ts

(* Every message published is eventually behind the checkpoint, through    *)
(* crashes and a deleted checkpoint.                                       *)
EveryMessageConsumed == \A n \in 1..MaxLog : Len(log) >= n ~> offset >= n

-----------------------------------------------------------------------------
(* What the comments promise and the code does not do under a replay.      *)

(* One landing is one row: no two rows of an aircraft report the same kind *)
(* of event at the same moment (pg.py: "a replayed window UPDATEs the same *)
(* rows instead of duplicating them").                                     *)
EventHasOneRow ==
    \A i, j \in DOMAIN flight_events :
        /\ i[1] = j[1] /\ i[2][1] = j[2][1]
        /\ flight_events[i].event_ts = flight_events[j].event_ts
        => i = j

=============================================================================
