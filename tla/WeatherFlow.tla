----------------------------- MODULE WeatherFlow -----------------------------
(***************************************************************************)
(* The weather from the NWS to Postgres: producer, topics and consumer.    *)
(***************************************************************************)
EXTENDS WeatherProducer, WeatherConsumer, FiniteSets

vars == <<producerVars, consumerVars, log, faults>>

Init ==
    /\ log = [t \in Topics |-> <<>>] /\ faults = 0
    /\ ProducerInit /\ ConsumerInit

(* Something else writes to a topic what the consumer cannot use.          *)
Garbage ==
    /\ Fault
    /\ \E t \in Topics, kind \in {"garbled", "unwritable"} :
          log' = [log EXCEPT ![t] = Append(@, Junk(kind))]
    /\ UNCHANGED <<producerVars, consumerVars>>

Next ==
    \/ ProducerNext /\ UNCHANGED consumerVars
    \/ ConsumerNext /\ UNCHANGED producerVars
    \/ Garbage

Spec == Init /\ [][Next]_vars

(* The loops of both processes go on and the deadline of each topic passes *)
(* again and again, Docker restarts the processes ("restart:               *)
(* unless-stopped"), the client works off its queues, Postgres comes back. *)
LiveSpec ==
    /\ Spec
    /\ WF_vars(PollKey /\ UNCHANGED consumerVars)
    /\ WF_vars(ConsumerStep /\ UNCHANGED producerVars)
    /\ WF_vars(PostgresUp /\ UNCHANGED producerVars)
    /\ WF_vars((\E t \in Topics : Deliver(t)) /\ UNCHANGED consumerVars)
    /\ \A t \in Topics : SF_vars((StartPass({t}) \/ StartPass(Topics)) /\ UNCHANGED consumerVars)

-----------------------------------------------------------------------------
(* Types; no offset is beyond its topic.                                   *)
TypeOK ==
    /\ log \in [Topics -> Seq(Message)] /\ faults \in Nat
    /\ ProducerTypeOK /\ ConsumerTypeOK

(* The topics repeat themselves at most once per failure that makes the    *)
(* producer forget, or the client send again.                              *)
ChangesNotHeartbeats == \A k \in Keys : Cardinality(Heartbeats(k)) <= repeats

(* In the end the tables show the weather: through crashes of both         *)
(* processes, outages, duplicates and garbage, except for a key whose last *)
(* message never reached its topic.                                        *)
TableFollowsSource ==
    <>[](\A k \in Keys :
            \/ k \in lost \/ source[k] = Null
            \/ [key |-> k, signature |-> source[k]] \in table)

=============================================================================
