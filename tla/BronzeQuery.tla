---------------------------- MODULE BronzeQuery ------------------------------
(***************************************************************************)
(* The bronze query: start_bronze of src/streaming/spark_app.py, the       *)
(* archive that is the system of record.                                   *)
(*                                                                         *)
(* External, as Spark defines it: withWatermark moves the watermark at the *)
(* end of a batch, rows not newer than it are late and dropped,            *)
(* dropDuplicatesWithinWatermark forgets a key when the watermark passes   *)
(* its time plus the delay, and the file sink writes a batch once.         *)
(***************************************************************************)
EXTENDS MicroBatch

CONSTANT Delay          \* of the watermark

ASSUME DelayAssumption == Delay \in Nat

VARIABLES
    archive,        \* the files: per batch that was written, its offsets
    written,        \* the files of the planned batch are complete
    watermark,      \* checkpoint
    seen            \* checkpoint: the keys remembered, with the time they expire

bronzeVars == <<archive, written, watermark, seen>>

BronzeInit == archive = <<>> /\ written = FALSE /\ watermark = 0 /\ seen = {}

-----------------------------------------------------------------------------
(* Bug forms, for the mutation runs.                                       *)
KeyWithPoll(m) == <<m.icao24, m.api_ts, m.poll_ts>>
NoDelay(t) == t
-----------------------------------------------------------------------------

Key(m) == <<m.icao24, m.api_ts>>

(* The rows with a position that are not late.                             *)
InTime == {i \in Batch("bronze") : log[i].positioned /\ log[i].api_ts > watermark}

(* Of these, the first of each key that is not remembered.                 *)
Deduplicated ==
    {i \in InTime :
        /\ \A s \in seen : s.key # Key(log[i])
        /\ \A j \in InTime : Key(log[j]) = Key(log[i]) => i <= j}

Behind(t) == t - Delay

(* The watermark after the batch, which never moves back.                  *)
Marks == {watermark} \cup
         {Behind(log[i].api_ts) : i \in {j \in Batch("bronze") : log[j].positioned}}

WriteFiles ==
    /\ Sinking("bronze")
    /\ archive' = IF written THEN archive ELSE Append(archive, Deduplicated)
    /\ written' = TRUE
    /\ UNCHANGED <<watermark, seen>>

CommitBronze ==
    /\ Committing("bronze")
    /\ LET new == {[key |-> Key(log[i]), until |-> log[i].api_ts + Delay] : i \in Deduplicated}
       IN  seen' = {s \in seen \cup new : s.until > watermark}
    /\ watermark' \in {w \in Marks : \A v \in Marks : v <= w}
    /\ written' = FALSE
    /\ UNCHANGED archive

BronzeNext ==
    \/ WriteFiles \/ CommitBronze
    \/ (StartQuery("bronze") \/ PlanBatch("bronze") \/ Die) /\ UNCHANGED bronzeVars

BronzeFed ==
    \/ Published /\ UNCHANGED <<faults, batchVars, bronzeVars>>
    \/ BronzeNext

BronzeQuerySpec ==
    /\ log = <<>> /\ faults = 0 /\ BatchInit /\ BronzeInit
    /\ [][BronzeFed]_<<log, faults, batchVars, bronzeVars>>

-----------------------------------------------------------------------------
BronzeTypeOK ==
    /\ archive \in Seq(SUBSET DOMAIN log) /\ written \in BOOLEAN
    /\ watermark \in Int

(* A report, named by its aircraft and api_ts, is archived once: through   *)
(* duplicates of the producer, re-run batches and forgotten keys.          *)
BronzeOnce ==
    \A f, g \in DOMAIN archive : \A i \in archive[f], j \in archive[g] :
        log[i].icao24 = log[j].icao24 /\ log[i].api_ts = log[j].api_ts => f = g /\ i = j

(* "The archive is the system of record": a position that was consumed is  *)
(* in it, unless it came after one that was newer by the watermark's delay.*)
BronzeLosesOnlyLate ==
    \A i \in 1..offset["bronze"] : log[i].positioned =>
        \/ \E f \in DOMAIN archive : \E j \in archive[f] :
              log[j].icao24 = log[i].icao24 /\ log[j].api_ts = log[i].api_ts
        \/ \E j \in 1..i - 1 :
              log[j].positioned /\ log[j].api_ts >= log[i].api_ts + Delay

=============================================================================
