----------------------------- MODULE MicroBatch ------------------------------
(***************************************************************************)
(* The micro-batches of a query of src/streaming/spark_app.py that keeps   *)
(* nothing in its own memory: bronze and live.                             *)
(*                                                                         *)
(* Spark is external: it logs the end of a batch before the batch runs,    *)
(* runs a logged batch again after a restart, and moves on when the batch  *)
(* is committed, after its sink returned.                                  *)
(***************************************************************************)
EXTENDS StatesTopic

CONSTANT MaxOffsetsPerTrigger

ASSUME BatchAssumption == MaxOffsetsPerTrigger \in Nat \ {0}

Queries == {"bronze", "live"}

VARIABLES
    phase,          \* per query: "down", "ready" for a trigger, "sunk"
    offset,         \* checkpoint: where its last committed batch ended
    planned         \* checkpoint: where the batch logged after it ends, or Null

batchVars == <<phase, offset, planned>>

BatchInit ==
    /\ phase = [q \in Queries |-> "down"] /\ offset = [q \in Queries |-> 0]
    /\ planned = [q \in Queries |-> Null]

(* The offsets of the planned batch.                                       *)
Batch(q) == offset[q] + 1..planned[q]

(* start_*(): the query resumes its checkpoint.                            *)
StartQuery(q) ==
    /\ phase[q] = "down" /\ phase' = [phase EXCEPT ![q] = "ready"]
    /\ UNCHANGED <<offset, planned, log, faults>>

-----------------------------------------------------------------------------
(* A bug form, for the mutation runs.                                      *)
PlanUnclamped(q) ==
    /\ phase[q] = "ready" /\ planned[q] = Null /\ offset[q] < Len(log)
    /\ planned' = [planned EXCEPT ![q] = offset[q] + MaxOffsetsPerTrigger]
    /\ UNCHANGED <<phase, offset, log, faults>>
-----------------------------------------------------------------------------

PlanBatch(q) ==
    /\ phase[q] = "ready" /\ planned[q] = Null /\ offset[q] < Len(log)
    /\ LET bound == offset[q] + MaxOffsetsPerTrigger
       IN  planned' = [planned EXCEPT ![q] = IF bound < Len(log) THEN bound ELSE Len(log)]
    /\ UNCHANGED <<phase, offset, log, faults>>

Sinking(q) ==
    /\ phase[q] = "ready" /\ planned[q] # Null
    /\ phase' = [phase EXCEPT ![q] = "sunk"]
    /\ UNCHANGED <<offset, planned, log, faults>>

Committing(q) ==
    /\ phase[q] = "sunk" /\ phase' = [phase EXCEPT ![q] = "ready"]
    /\ offset' = [offset EXCEPT ![q] = planned[q]]
    /\ planned' = [planned EXCEPT ![q] = Null]
    /\ UNCHANGED <<log, faults>>

(* The application dies between any two steps, of its own or because any   *)
(* of its queries failed; an unreachable sink is a death before Sinking.   *)
Die ==
    /\ Fault
    /\ \E q \in Queries : phase[q] # "down"
    /\ phase' = [q \in Queries |-> "down"]
    /\ UNCHANGED <<offset, planned, log>>

BatchTypeOK ==
    /\ log \in Seq(Message)
    /\ phase \in [Queries -> {"down", "ready", "sunk"}]
    /\ offset \in [Queries -> 0..Len(log)]
    /\ planned \in [Queries -> 0..Len(log) \cup {Null}]
    /\ \A q \in Queries : planned[q] # Null => planned[q] >= offset[q]

=============================================================================
