------------------------------ MODULE Lakehouse ------------------------------
(***************************************************************************)
(* lakehouse_job of definitions.py: databricks_medallion_run starts the    *)
(* Databricks job and waits, gold_airport_day_delay_pg loads its export.   *)
(*                                                                         *)
(* Databricks runs one build at a time (max_concurrent_runs of main.tf)    *)
(* and skips one asked for meanwhile; an export is told by the run that    *)
(* made it.  Dagster runs one job at a time, and nothing but a person      *)
(* starts a failed one again.                                              *)
(***************************************************************************)
EXTENDS Integers, Sequences

CONSTANTS
    MaxRuns,            \* bound: the runs asked of Databricks
    MaxPolls            \* DATABRICKS_MAX_WAIT_S over DATABRICKS_POLL_S

ASSUME LakehouseAssumption == MaxRuns \in Nat /\ MaxPolls \in Nat

VARIABLES
    configured,     \* the Databricks credentials are set
    azure,          \* the storage credentials are set
    runs,           \* of Databricks: the state of each of its runs
    export,         \* the run whose CSV part is there, or 0
    step,           \* of the Dagster job: "idle", "run", "poll", "list", "download", "upsert"
    run_id, polls,  \* the run it waits for, and for how long
    csv,            \* the part it listed
    gold,           \* the run whose rows gold_airport_day_delay has, or 0
    \* History:
    asked,          \* the runs there were when the job began
    done            \* the last job: "none", "failed", "skipped" (for want of
                    \* credentials, of either kind), "built"

jobVars  == <<step, run_id, polls, csv, asked, done>>
lakeVars == <<configured, azure, runs, export, jobVars, gold>>

LakeInit ==
    /\ configured \in BOOLEAN /\ azure \in BOOLEAN /\ runs = <<>> /\ export = 0 /\ gold = 0
    /\ step = "idle" /\ run_id = 0 /\ polls = 0 /\ csv = 0
    /\ asked = 0 /\ done = "none"

-----------------------------------------------------------------------------
(* Databricks.  gold_marts.py overwrites the export: the old part is gone  *)
(* before the new one is there.                                            *)
Active(r) == runs[r] \in {"RUNNING", "exporting"}

Export(r) ==
    /\ runs[r] = "RUNNING" /\ runs' = [runs EXCEPT ![r] = "exporting"]
    /\ export' = 0
    /\ UNCHANGED <<configured, azure, jobVars, gold>>

Finish(r) ==
    /\ runs[r] = "exporting" /\ runs' = [runs EXCEPT ![r] = "SUCCESS"]
    /\ export' = r
    /\ UNCHANGED <<configured, azure, jobVars, gold>>

Fail(r) ==
    /\ Active(r)
    /\ \E end \in {"FAILED", "INTERNAL_ERROR"} : runs' = [runs EXCEPT ![r] = end]
    /\ UNCHANGED <<configured, azure, export, jobVars, gold>>

-----------------------------------------------------------------------------
(* A deployment sets credentials, or forgets them.                         *)
Deploy ==
    /\ step = "idle"
    /\ \/ configured' = ~configured /\ UNCHANGED azure
       \/ azure' = ~azure /\ UNCHANGED configured
    /\ UNCHANGED <<runs, export, jobVars, gold>>

(* The schedule, or a person.  Without credentials for Databricks the job  *)
(* goes on to the load.                                                    *)
StartJob ==
    /\ step = "idle" /\ step' = (IF configured THEN "run" ELSE "list")
    /\ asked' = Len(runs) /\ done' = (IF configured THEN "none" ELSE "skipped")
    /\ UNCHANGED <<configured, azure, runs, export, run_id, polls, csv, gold>>

Fails == step' = "idle" /\ done' = "failed"

(* run-now; the answer may be lost when the run has begun.                 *)
RunNow ==
    /\ step = "run" /\ Len(runs) < MaxRuns
    /\ runs' = Append(runs, IF \E r \in DOMAIN runs : Active(r) THEN "SKIPPED" ELSE "RUNNING")
    /\ \/ step' = "poll" /\ run_id' = Len(runs') /\ polls' = 0 /\ UNCHANGED done
       \/ Fails /\ UNCHANGED <<run_id, polls>>
    /\ UNCHANGED <<configured, azure, export, csv, gold, asked>>

(* No token, or the request is refused.                                    *)
TriggerFails ==
    /\ step = "run" /\ Fails
    /\ UNCHANGED <<configured, azure, runs, export, run_id, polls, csv, gold, asked>>

-----------------------------------------------------------------------------
(* Bug forms, for the mutation runs.                                       *)
AnyEnd(state) == state \notin {"RUNNING", "exporting"}
-----------------------------------------------------------------------------

Succeeded(state) == state = "SUCCESS"
Refused(state)   == state \in {"FAILED", "INTERNAL_ERROR", "SKIPPED"}

Poll ==
    /\ step = "poll" /\ polls < MaxPolls
    /\ polls' = polls + 1
    /\ \/ Succeeded(runs[run_id]) /\ step' = "list" /\ UNCHANGED done
       \/ ~Succeeded(runs[run_id]) /\ Refused(runs[run_id]) /\ Fails
       \/ Active(run_id) /\ UNCHANGED <<step, done>>
    /\ UNCHANGED <<configured, azure, runs, export, run_id, csv, gold, asked>>

(* A poll that fails, or the last one: the Databricks run goes on.         *)
PollRaises ==
    /\ step = "poll" /\ Fails
    /\ UNCHANGED <<configured, azure, runs, export, run_id, polls, csv, gold, asked>>

-----------------------------------------------------------------------------
(* gold_airport_day_delay_pg: without credentials for the storage it loads *)
(* nothing and the job succeeds; otherwise it lists the parts, reads them, *)
(* and upserts their rows in one transaction.                              *)
ListParts ==
    /\ step = "list"
    /\ \/ ~azure /\ step' = "idle" /\ done' = "skipped" /\ UNCHANGED csv
       \/ azure /\ export # 0 /\ step' = "download" /\ csv' = export /\ UNCHANGED done
       \/ azure /\ Fails /\ UNCHANGED csv
    /\ UNCHANGED <<configured, azure, runs, export, run_id, polls, gold, asked>>

(* A part that was replaced meanwhile is not there to be read.             *)
Download ==
    /\ step = "download"
    /\ \/ export = csv /\ step' = "upsert" /\ UNCHANGED done
       \/ Fails
    /\ UNCHANGED <<configured, azure, runs, export, run_id, polls, csv, gold, asked>>

(* UPSERT_GOLD, by the primary key.                                        *)
Overwritten == csv

UpsertGold ==
    /\ step = "upsert"
    /\ \/ /\ step' = "idle" /\ gold' = Overwritten
          /\ done' = IF done = "none" THEN "built" ELSE done
       \/ Fails /\ UNCHANGED gold
    /\ UNCHANGED <<configured, azure, runs, export, run_id, polls, csv, asked>>

LakeNext ==
    \/ \E r \in DOMAIN runs : Export(r) \/ Finish(r) \/ Fail(r)
    \/ Deploy \/ StartJob \/ RunNow \/ TriggerFails \/ Poll \/ PollRaises
    \/ ListParts \/ Download \/ UpsertGold

LakeSpec == LakeInit /\ [][LakeNext]_lakeVars

-----------------------------------------------------------------------------
LakeTypeOK ==
    /\ configured \in BOOLEAN /\ azure \in BOOLEAN /\ Len(runs) <= MaxRuns
    /\ \A r \in DOMAIN runs :
          runs[r] \in {"RUNNING", "exporting", "SUCCESS", "FAILED", "INTERNAL_ERROR", "SKIPPED"}
    /\ step \in {"idle", "run", "poll", "list", "download", "upsert"}
    /\ export \in {0} \cup DOMAIN runs /\ csv \in {0} \cup DOMAIN runs
    /\ gold \in {0} \cup DOMAIN runs /\ asked \in 0..Len(runs)
    /\ done \in {"none", "failed", "skipped", "built"}

(* A job that says it succeeded has loaded a build that it started itself, *)
(* never what an earlier run left or still was writing.  Excepted are jobs *)
(* for which credentials were missing: without those of Databricks a job   *)
(* loads what is there, without those of the storage it loads nothing.     *)
LoadsItsOwnBuild == step = "idle" /\ done = "built" => gold > asked

=============================================================================
