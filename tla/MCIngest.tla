------------------------------ MODULE MCIngest -------------------------------
(***************************************************************************)
(* Small instances of the parts on both sides of adsb.states.raw.  They    *)
(* only meet in the topic, so one of them moves: the producer that fills   *)
(* it, or a query behind a topic that anything may fill.                   *)
(***************************************************************************)
EXTENDS OpenSkyProducer, LiveQuery, BronzeQuery, TLC

VARIABLE part

vars == <<part, log, faults, producerVars, batchVars, live_states, bronzeVars>>

OneAircraft == {"a1"}
TwoAircraft == {"a1", "a2"}

Init ==
    /\ part \in {"producer", "live", "bronze"}
    /\ log = <<>> /\ faults = 0
    /\ ProducerInit /\ BatchInit /\ LiveInit /\ BronzeInit

Producer ==
    /\ part = "producer" /\ ProducerNext
    /\ UNCHANGED <<part, batchVars, live_states, bronzeVars>>

Live == part = "live" /\ LiveFed /\ UNCHANGED <<part, producerVars, bronzeVars>>

Bronze == part = "bronze" /\ BronzeFed /\ UNCHANGED <<part, producerVars, live_states>>

Next == Producer \/ Live \/ Bronze

Spec == Init /\ [][Next]_vars

(* main() goes on whatever happens: it catches every failure and Docker    *)
(* restarts it.                                                            *)
LiveSpec ==
    Spec /\ WF_vars(part = "producer" /\ MainStep
                    /\ UNCHANGED <<part, batchVars, live_states, bronzeVars>>)

TypeOK == ProducerTypeOK /\ BatchTypeOK /\ LiveTypeOK /\ BronzeTypeOK

Polls == part = "producer" => PollsForever

=============================================================================
