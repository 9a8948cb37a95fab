--------------------------- MODULE WeatherConsumer ---------------------------
(***************************************************************************)
(* The weather consumer, src/consumers/weather_to_pg.py: one message at a  *)
(* time is upserted and then committed.                                    *)
(*                                                                         *)
(* Commits are asynchronous: consumer.commit(message) hands the offset to  *)
(* the client, which sends it some time later.                             *)
(***************************************************************************)
EXTENDS WeatherTopic

VARIABLES
    at,             \* "down", "connect" (start-up), "poll", "write",
                    \* "reconnect", "commit"
    running,        \* _running
    topic,          \* the topic of the message in hand, or Null
    position,       \* per topic: the offset after the last message polled
    pending,        \* per topic: the offset handed to commit()
    committed,      \* per topic: the group's offset at the broker
    connected,      \* the connection is usable
    postgres,       \* Postgres is up
    table           \* weather_obs and weather_alerts

offsetVars == <<topic, position, pending, committed>>
postgresVars == <<connected, postgres, table>>
consumerVars == <<at, running, offsetVars, postgresVars>>

ConsumerInit ==
    /\ at = "down" /\ running = TRUE /\ topic = Null
    /\ position = [t \in Topics |-> 0]
    /\ pending = [t \in Topics |-> 0] /\ committed = [t \in Topics |-> 0]
    /\ connected = FALSE /\ postgres = TRUE /\ table = {}

InHand == log[topic][position[topic]]

(* ON CONFLICT: (station, obs_ts) or (alert_id, airport); an alert's       *)
(* signature is not part of its row's key.                                 *)
Upserted(m) ==
    {row \in table : row.key # m.key \/ m.key \in Stations}
    \cup {[key |-> m.key, signature |-> m.signature]}

(* Docker starts the process, which subscribes.                            *)
Start ==
    /\ at = "down" /\ at' = "connect"
    /\ UNCHANGED <<running, offsetVars, postgresVars, log, faults>>

(* What the process loses when it ends; the group goes on at its offsets.  *)
End ==
    /\ at' = "down" /\ running' = TRUE /\ topic' = Null
    /\ position' = committed /\ pending' = committed
    /\ connected' = FALSE
    /\ UNCHANGED <<committed, postgres, table, log>>

(* connect_pg, at start-up and after a failed write: it tries for ever,    *)
(* whether _running or not.                                                *)
Connect ==
    /\ at \in {"connect", "reconnect"} /\ postgres
    /\ connected' = TRUE
    /\ at' = IF at = "connect" THEN "poll" ELSE "write"
    /\ UNCHANGED <<running, offsetVars, postgres, table, log, faults>>

-----------------------------------------------------------------------------
(* Bug forms, for the mutation runs.                                       *)
CommitUnwritten ==
    /\ at = "write" /\ ~running /\ at' = "commit"
    /\ UNCHANGED <<running, offsetVars, postgresVars, log, faults>>
WriteNoSkip ==
    /\ at = "write" /\ running /\ connected
    /\ InHand.kind = "good" /\ table' = Upserted(InHand) /\ at' = "commit"
    /\ UNCHANGED <<running, offsetVars, connected, postgres, log, faults>>
CommitAhead ==
    /\ at = "commit" /\ at' = "poll" /\ topic' = Null
    /\ pending' = [pending EXCEPT ![topic] = position[topic] + 1]
    /\ UNCHANGED <<running, position, committed, postgresVars, log, faults>>
-----------------------------------------------------------------------------

(* poll(): the next message of a topic; a garbled one is committed and     *)
(* dropped.                                                                *)
Poll(t) ==
    /\ at = "poll" /\ running /\ position[t] < Len(log[t])
    /\ position' = [position EXCEPT ![t] = @ + 1]
    /\ IF log[t][position[t] + 1].kind = "garbled"
       THEN pending' = [pending EXCEPT ![t] = position[t] + 1] /\ UNCHANGED <<at, topic>>
       ELSE at' = "write" /\ topic' = t /\ UNCHANGED pending
    /\ UNCHANGED <<running, committed, postgresVars, log, faults>>

(* upsert(); an unwritable message is rolled back and dropped.             *)
Write ==
    /\ at = "write" /\ running /\ connected
    /\ table' = IF InHand.kind = "good" THEN Upserted(InHand) ELSE table
    /\ at' = "commit"
    /\ UNCHANGED <<running, offsetVars, connected, postgres, log, faults>>

(* OperationalError on a connection that broke.                            *)
WriteFails ==
    /\ at = "write" /\ running /\ ~connected
    /\ at' = "reconnect"
    /\ UNCHANGED <<running, offsetVars, postgresVars, log, faults>>

(* The loop of the retries ends without a write: no commit.                *)
GiveUp ==
    /\ at = "write" /\ ~running
    /\ End /\ UNCHANGED faults

Commit ==
    /\ at = "commit" /\ at' = "poll" /\ topic' = Null
    /\ pending' = [pending EXCEPT ![topic] = position[topic]]
    /\ UNCHANGED <<running, position, committed, postgresVars, log, faults>>

(* The client sends the offset it was handed.                              *)
CommitSent(t) ==
    /\ at # "down" /\ pending[t] # committed[t]
    /\ committed' = [committed EXCEPT ![t] = pending[t]]
    /\ UNCHANGED <<at, running, topic, position, pending, postgresVars, log, faults>>

(* SIGTERM; the loop is left between two messages and the consumer closed. *)
Stop ==
    /\ Fault
    /\ at # "down" /\ running /\ running' = FALSE
    /\ UNCHANGED <<at, offsetVars, postgresVars, log>>

Close ==
    /\ at = "poll" /\ ~running
    /\ End /\ UNCHANGED faults

ConsumerCrash ==
    /\ Fault
    /\ at # "down" /\ End

(* Postgres goes away, and with it the connection; a write that just       *)
(* reached it may have been committed although it fails for the consumer.  *)
PostgresDown ==
    /\ Fault
    /\ postgres /\ postgres' = FALSE /\ connected' = FALSE
    /\ \/ UNCHANGED <<at, table>>
       \/ /\ at = "write" /\ running /\ connected /\ InHand.kind = "good"
          /\ table' = Upserted(InHand) /\ at' = "reconnect"
    /\ UNCHANGED <<running, offsetVars, log>>

PostgresUp ==
    /\ ~postgres /\ postgres' = TRUE
    /\ UNCHANGED <<at, running, offsetVars, connected, table, log, faults>>

ConsumerStep ==
    \/ Start \/ Connect \/ Write \/ WriteFails \/ GiveUp \/ Commit \/ Close
    \/ \E t \in Topics : Poll(t)
ConsumerNext ==
    \/ ConsumerStep
    \/ \E t \in Topics : CommitSent(t)
    \/ Stop \/ ConsumerCrash \/ PostgresDown \/ PostgresUp

-----------------------------------------------------------------------------
ConsumerTypeOK ==
    /\ at \in {"down", "connect", "poll", "write", "reconnect", "commit"}
    /\ running \in BOOLEAN /\ connected \in BOOLEAN /\ postgres \in BOOLEAN
    /\ topic \in Topics \cup {Null}
    /\ \A f \in {position, pending, committed} :
          f \in [Topics -> Nat] /\ \A t \in Topics : f[t] <= Len(log[t])
    /\ table \subseteq [key : Keys, signature : Signatures]

(* The message at an offset left a row, or for an alert a newer one did.   *)
HasRow(t, i) ==
    \E j \in i..Len(log[t]) :
        /\ log[t][j].key = log[t][i].key
        /\ t = OBS_TOPIC => log[t][j] = log[t][i]
        /\ [key |-> log[t][j].key, signature |-> log[t][j].signature] \in table

(* "Offsets are committed only after a successful upsert ... no loss": a   *)
(* committed message has its row, whatever was crashed, stopped, retried   *)
(* or read again.                                                          *)
CommitNeverAhead ==
    \A t \in Topics : \A i \in 1..committed[t] :
        log[t][i].kind = "good" => HasRow(t, i)

=============================================================================
