----------------------------- MODULE DailyBatch ------------------------------
(***************************************************************************)
(* The daily jobs of src/orchestration/dagster_project/skynyc_dagster/     *)
(* definitions.py that belong together: the ground-truth pulls, the dbt    *)
(* build and the quality report, in the queue of dagster.yaml, which runs  *)
(* one at a time and in order.                                             *)
(*                                                                         *)
(* The rows of a day and an airport are counted: the feed only grows, so   *)
(* an idempotent upsert keeps the larger count.  The detector is taken to  *)
(* have found every arrival.                                               *)
(***************************************************************************)
EXTENDS Integers, Sequences, SequencesExt, FiniteSetsExt

CONSTANTS
    None,
    AIRPORTS,           \* in the order of the pull
    Volume,             \* [day][airport]: the arrivals there were
    MaxToday,           \* bound: how long the schedules are watched
    MaxBacklog          \* bound: the runs a day may leave to the next

Days  == DOMAIN Volume
Cells == Days \X ToSet(AIRPORTS)

(* A run of the queue, of no day unless it pulls one, and a run at work.   *)
Runs     == [job : {"ground_truth", "dbt", "quality"}, fire : Nat, day : Nat]
Attempts == [run : Runs, asked : Nat, rows : [ToSet(AIRPORTS) -> Nat]]

ASSUME DailyBatchAssumption ==
    /\ AIRPORTS \in Seq(STRING) /\ MaxToday \in Nat \ 0..1 /\ MaxBacklog \in Nat
    /\ Days \subseteq 1..MaxToday
    /\ \A d \in Days : \A a \in ToSet(AIRPORTS) : Volume[d][a] \in Nat
    /\ None \notin Attempts

VARIABLES
    today,
    ticked,         \* the schedules that fired today
    run_keys,       \* those Dagster has seen
    queue,          \* the runs to come
    running,        \* the run at work, or None
    feed,           \* per cell: the arrivals the API has so far
    table,          \* per cell: the rows of arrivals_ground_truth
    mart,           \* mart_detection_quality: the cells that have a score
    \* History:
    whole,          \* per day: the date on which the feed had it whole, 0 before
    fired,          \* the dates on which daily_ground_truth fired
    failed,         \* the pulls that failed, [fire, day]
    report          \* what the run just ended reported, or None

dailyVars == <<today, ticked, run_keys, queue, running, feed, table, mart,
               whole, fired, failed, report>>

DailyInit ==
    /\ today = 2 /\ ticked = {} /\ run_keys = {} /\ queue = <<>> /\ running = None
    /\ feed = [c \in Cells |-> 0] /\ table = [c \in Cells |-> 0] /\ mart = {}
    /\ whole = [d \in Days |-> 0] /\ fired = {} /\ failed = {} /\ report = None

-----------------------------------------------------------------------------
(* The world outside: the days pass, whether or not a schedule fired, and  *)
(* the nightly aggregation of OpenSky is late by as long as it likes.      *)
Tomorrow ==
    /\ today < MaxToday /\ Len(queue) <= MaxBacklog
    /\ today' = today + 1 /\ ticked' = {}
    /\ UNCHANGED <<run_keys, queue, running, feed, table, mart, whole, fired, failed, report>>

Aggregate(d, a) ==
    /\ d < today
    /\ \E n \in (feed[<<d, a>>] + 1) .. Volume[d][a] : feed' = [feed EXCEPT ![<<d, a>>] = n]
    /\ whole' = [whole EXCEPT ![d] =
          IF \A b \in ToSet(AIRPORTS) : feed'[<<d, b>>] = Volume[d][b] THEN today ELSE 0]
    /\ UNCHANGED <<today, ticked, run_keys, queue, running, table, mart, fired, failed, report>>

-----------------------------------------------------------------------------
(* Bug forms, for the mutation runs.                                       *)
KeyOfDay(fire, day) == <<day>>
NoRebuild == UNCHANGED mart
-----------------------------------------------------------------------------

RunKey(fire, day) == <<fire, day>>

(* daily_ground_truth, 09:15: the days D-1 to D-3, as far as there are     *)
(* partitions.  Dagster passes over a request whose run_key it has seen.   *)
Request(i) ==
    IF today - i \in Days /\ RunKey(today, today - i) \notin run_keys
    THEN <<[job |-> "ground_truth", fire |-> today, day |-> today - i]>> ELSE <<>>

FireGroundTruth ==
    /\ {"ground_truth", "quality"} \cap ticked = {}
    /\ ticked' = ticked \cup {"ground_truth"}
    /\ LET kept == Request(1) \o Request(2) \o Request(3)
       IN  /\ queue' = queue \o kept
           /\ run_keys' = run_keys \cup {RunKey(r.fire, r.day) : r \in ToSet(kept)}
    /\ fired' = fired \cup {today}
    /\ UNCHANGED <<today, running, feed, table, mart, whole, failed, report>>

(* hourly_dbt, at any hour; daily_quality, 09:45.                          *)
FireBuild(job) ==
    /\ job \notin ticked
    /\ ticked' = ticked \cup {job}
    /\ queue' = Append(queue, [job |-> job, fire |-> today, day |-> 0])
    /\ UNCHANGED <<today, run_keys, running, feed, table, mart, whole, fired, failed, report>>

-----------------------------------------------------------------------------
(* QueuedRunCoordinator, max_concurrent_runs 1.                            *)
Start ==
    /\ running = None /\ queue # <<>>
    /\ running' = [run |-> Head(queue), asked |-> 0, rows |-> [a \in ToSet(AIRPORTS) |-> 0]]
    /\ queue' = Tail(queue) /\ report' = None
    /\ UNCHANGED <<today, ticked, run_keys, feed, table, mart, whole, fired, failed>>

Pulling == running # None /\ running.run.job = "ground_truth"

(* One airport of ground_truth_arrivals; a 404 is no rows.                 *)
Pull ==
    /\ Pulling /\ running.asked < Len(AIRPORTS)
    /\ LET a == AIRPORTS[running.asked + 1]
       IN  running' = [running EXCEPT !.asked = @ + 1, !.rows[a] = feed[<<running.run.day, a>>]]
    /\ UNCHANGED <<today, ticked, run_keys, queue, feed, table, mart, whole, fired, failed, report>>

(* UPSERT_GT; the feed has only grown since an earlier pull.               *)
Upserted(day, rows) ==
    [c \in Cells |-> IF c[1] = day THEN Max({table[c], rows[c[2]]}) ELSE table[c]]

(* All the rows in one transaction, when every airport has answered.       *)
Upsert ==
    /\ Pulling /\ running.asked = Len(AIRPORTS) /\ running' = None
    /\ table' = Upserted(running.run.day, running.rows)
    /\ UNCHANGED <<today, ticked, run_keys, queue, feed, mart, whole, fired, failed, report>>

(* Any other answer, no answer or a failing upsert ends the run; nothing   *)
(* tries it again.                                                         *)
PullFails ==
    /\ Pulling /\ running' = None
    /\ failed' = failed \cup {<<running.run.fire, running.run.day>>}
    /\ UNCHANGED <<today, ticked, run_keys, queue, feed, table, mart, whole, fired, report>>

-----------------------------------------------------------------------------
(* mart_detection_quality: only a day whose ground truth has landed at     *)
(* plausible volume, half of what was detected, has a score.               *)
Plausible == {c \in Cells : table[c] > 0 /\ 2 * table[c] >= Volume[c[1]][c[2]]}

(* dbt build of the mart and what it reads.                                *)
Rebuild == mart' = Plausible

Build ==
    /\ running # None /\ running.run.job = "dbt" /\ running' = None
    /\ Rebuild
    /\ UNCHANGED <<today, ticked, run_keys, queue, feed, table, whole, fired, failed, report>>

(* daily_quality_job: the rebuild, then detection_quality_report of the    *)
(* newest day with a score.                                                *)
Report ==
    /\ running # None /\ running.run.job = "quality" /\ running' = None
    /\ Rebuild
    /\ report' = [fire |-> running.run.fire, newest |-> Max({0} \cup {c[1] : c \in mart'})]
    /\ UNCHANGED <<today, ticked, run_keys, queue, feed, table, whole, fired, failed>>

(* A build may fail before or after it rebuilt the mart: the check of the  *)
(* sources' freshness comes last.  The report is not made.                 *)
BuildFails ==
    /\ running # None /\ running.run.job \in {"dbt", "quality"} /\ running' = None
    /\ Rebuild \/ UNCHANGED mart
    /\ UNCHANGED <<today, ticked, run_keys, queue, feed, table, whole, fired, failed, report>>

DailyNext ==
    \/ Tomorrow \/ FireGroundTruth \/ FireBuild("dbt") \/ FireBuild("quality")
    \/ \E c \in Cells : Aggregate(c[1], c[2])
    \/ Start \/ Pull \/ Upsert \/ PullFails \/ Build \/ Report \/ BuildFails

DailySpec == DailyInit /\ [][DailyNext]_dailyVars

-----------------------------------------------------------------------------
DailyTypeOK ==
    /\ today \in 2..MaxToday /\ ticked \subseteq {"ground_truth", "dbt", "quality"}
    /\ \A c \in Cells : feed[c] \in 0..Volume[c[1]][c[2]] /\ table[c] \in 0..feed[c]
    /\ queue \in Seq(Runs) /\ running \in Attempts \cup {None}
    /\ mart \subseteq Plausible
    /\ report # None => report.newest \in {0} \cup Days

Pending(fire, day) ==
    LET same(r) == r.job = "ground_truth" /\ r.fire = fire /\ r.day = day
    IN  (\E i \in DOMAIN queue : same(queue[i])) \/ (running # None /\ same(running.run))

(* The window heals late data: a day the aggregation has finished before   *)
(* the last of its three pulls is whole in the table after that pull,      *)
(* unless the pull failed, however little the earlier pulls found.         *)
Healed ==
    \A d \in Days :
        /\ d + 3 \in fired /\ whole[d] \in 1..(d + 2)
        /\ <<d + 3, d>> \notin failed /\ ~Pending(d + 3, d)
        => \A a \in ToSet(AIRPORTS) : table[<<d, a>>] = Volume[d][a]

(* The report is of the newest day with a plausible ground truth, the      *)
(* pulls of its own morning included: none of them is still to come.       *)
ReportSeesThePulls ==
    report # None =>
        /\ report.newest = Max({0} \cup {c[1] : c \in Plausible})
        /\ \A d \in Days : ~Pending(report.fire, d)

=============================================================================
