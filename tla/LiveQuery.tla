----------------------------- MODULE LiveQuery -------------------------------
(***************************************************************************)
(* The live query: start_live of src/streaming/spark_app.py and            *)
(* upsert_live_states of src/streaming/sinks/pg.py.                        *)
(***************************************************************************)
EXTENDS MicroBatch

VARIABLE live_states    \* the table: per aircraft its row, a message, or Null

LiveInit == live_states = [a \in Aircraft |-> Null]

-----------------------------------------------------------------------------
(* Bug forms, for the mutation runs.                                       *)
OrderByPoll(m, n) == m.poll_ts < n.poll_ts
-----------------------------------------------------------------------------

(* The order of the window: api_ts, then poll_ts.                          *)
Before(m, n) == m.api_ts < n.api_ts \/ (m.api_ts = n.api_ts /\ m.poll_ts < n.poll_ts)

(* The offsets that may be row number 1 of an aircraft.                    *)
Latest(a) ==
    LET mine == {i \in Batch("live") : log[i].icao24 = a}
    IN  {i \in mine : \A j \in mine : ~Before(log[i], log[j])}

-----------------------------------------------------------------------------
(* A bug form, for the mutation runs.                                      *)
UpsertClears(row, m) ==
    IF row # Null /\ Before(m, row) THEN row ELSE IF m.positioned THEN m ELSE Null
-----------------------------------------------------------------------------

(* What a message makes of a row: one without a position is dropped after  *)
(* it was chosen, one that is not newer than the row by the guard.         *)
Upserted(row, m) ==
    IF m.positioned /\ (row = Null \/ m.api_ts > row.api_ts) THEN m ELSE row

UpsertBatch ==
    /\ Sinking("live")
    /\ \E chosen \in [Aircraft -> Batch("live") \cup {Null}] :
          /\ \A a \in Aircraft :
                IF Latest(a) = {} THEN chosen[a] = Null ELSE chosen[a] \in Latest(a)
          /\ live_states' = [a \in Aircraft |->
                IF chosen[a] = Null THEN live_states[a]
                ELSE Upserted(live_states[a], log[chosen[a]])]

LiveNext ==
    \/ UpsertBatch
    \/ (StartQuery("live") \/ PlanBatch("live") \/ Committing("live") \/ Die) /\ UNCHANGED live_states

LiveFed ==
    \/ Published /\ UNCHANGED <<faults, batchVars, live_states>>
    \/ LiveNext

LiveQuerySpec ==
    /\ log = <<>> /\ faults = 0 /\ BatchInit /\ LiveInit
    /\ [][LiveFed]_<<log, faults, batchVars, live_states>>

-----------------------------------------------------------------------------
LiveTypeOK == \A a \in Aircraft :
    live_states[a] # Null => live_states[a] \in {m \in Message : m.icao24 = a}

(* A position that was consumed is in the table, or a newer one of that    *)
(* aircraft is, unless a report without a position, no older, hid it from  *)
(* the table: that is what choosing the latest row first may cost, and     *)
(* crashes and re-run batches add nothing.                                 *)
HiddenOnlyByPositionless ==
    \A i \in 1..offset["live"] : log[i].positioned =>
        \/ /\ live_states[log[i].icao24] # Null
           /\ live_states[log[i].icao24].api_ts >= log[i].api_ts
        \/ \E j \in 1..offset["live"] :
              log[j].icao24 = log[i].icao24 /\ ~log[j].positioned /\ ~Before(log[j], log[i])

(* pg.py: "crash-replays cannot move aircraft backwards", nor can late or  *)
(* repeated messages, and no aircraft leaves the table.                    *)
NeverBackwards ==
    [][\A a \in Aircraft : live_states[a] # Null =>
          live_states'[a] # Null /\ live_states'[a].api_ts >= live_states[a].api_ts]_live_states

=============================================================================
