--------------------------- MODULE ServicesProofs ----------------------------
(***************************************************************************)
(* What the services around the stream keep, for every number of routes,   *)
(* streams, slices, builds and nights, and however long they run.          *)
(***************************************************************************)
EXTENDS MCServices, NatSetProofs, FiniteSetTheorems

-----------------------------------------------------------------------------
(* The backup.  What goes to the upload is a whole dump.                   *)
BackupInv ==
    /\ backup \in {"idle", "dump", "upload"}
    /\ backups \in [Nights -> {"none", "whole"}]
    /\ backup = "idle" => dump = "none"
    /\ backup = "upload" => dump = "whole"

LEMMA BackupStep ==
  ASSUME BackupInv, [BackupNext]_backupVars
  PROVE  BackupInv'
<1> USE DEF BackupInv
<1>1. CASE Night
  BY <1>1 DEF Night
<1>2. CASE StartBackup
  BY <1>2 DEF StartBackup
<1>3. CASE PgDump \/ PgDumpBreaks
  BY <1>3 DEF PgDump, PgDumpBreaks
<1>4. CASE PgDumpFails
  BY <1>4 DEF PgDumpFails, DumpRaises, Unlink
<1>5. CASE Upload
  BY <1>5 DEF Upload, Unlink
<1>6. CASE UNCHANGED backupVars
  BY <1>6 DEF backupVars
<1>7. QED
  BY <1>1, <1>2, <1>3, <1>4, <1>5, <1>6 DEF BackupNext

(* postgres_backup never leaves half a dump in the container, and no file  *)
(* behind: through every night, every night run again and every failure.   *)
THEOREM BackupAlwaysWhole == BackupSpec => []BackupStaysWhole
<1>1. BackupInit => BackupInv
  BY DEF BackupInit, BackupInv
<1>2. BackupInv => BackupStaysWhole
  BY DEF BackupInv, BackupStaysWhole
<1>3. QED
  BY <1>1, <1>2, BackupStep, PTL DEF BackupSpec

-----------------------------------------------------------------------------
(* The lakehouse job.  Databricks builds one at a time: behind a build     *)
(* that is at work only skipped ones were asked for, so nothing older can  *)
(* replace an export.                                                      *)
OneBuild ==
    \A r \in DOMAIN runs : Active(r) =>
        \A q \in DOMAIN runs : q > r => runs[q] = "SKIPPED"

ExportIsNewest ==
    export # 0 => \A r \in DOMAIN runs : runs[r] = "SUCCESS" => r <= export

(* The run the job waits for was asked for by it; when the job is past the *)
(* wait, that run is built.                                                *)
OwnBuild ==
    /\ step = "poll" => run_id \in DOMAIN runs /\ run_id > asked
    /\ step \in {"run", "poll"} => done = "none"
    /\ step \in {"list", "download", "upsert"} /\ done = "none" =>
          run_id \in DOMAIN runs /\ run_id > asked /\ runs[run_id] = "SUCCESS"
    /\ step \in {"download", "upsert"} /\ done = "none" => csv >= run_id
    /\ step \in {"list", "download", "upsert"} => done \in {"none", "skipped"}

RunStates == {"RUNNING", "exporting", "SUCCESS", "FAILED", "INTERNAL_ERROR", "SKIPPED"}

LakeInv ==
    /\ runs \in Seq(RunStates) /\ export \in Nat /\ csv \in Nat /\ run_id \in Nat /\ asked \in Nat
    /\ asked <= Len(runs)
    /\ step \in {"idle", "run", "poll", "list", "download", "upsert"}
    /\ OneBuild /\ ExportIsNewest /\ OwnBuild /\ LoadsItsOwnBuild

(* The Databricks side of a step: no build ends that an export is newer    *)
(* than, and no state but that of the build itself changes.                *)
LEMMA BuildStep ==
  ASSUME LakeInv, NEW r \in DOMAIN runs, Export(r) \/ Finish(r) \/ Fail(r)
  PROVE  LakeInv'
<1> USE DEF LakeInv
<1>1. /\ DOMAIN runs' = DOMAIN runs /\ Len(runs') = Len(runs)
      /\ runs' \in Seq(RunStates) /\ export' \in Nat
      /\ Active(r) /\ UNCHANGED <<jobVars, gold>>
      /\ runs'[r] # "SKIPPED" /\ \A q \in DOMAIN runs : q # r => runs'[q] = runs[q]
      /\ DOMAIN runs \subseteq Nat \ {0}
  <2>1. PICK end \in {"exporting", "SUCCESS", "FAILED", "INTERNAL_ERROR"} :
           runs' = [runs EXCEPT ![r] = end]
    BY DEF Export, Finish, Fail
  <2>2. DOMAIN runs = 1..Len(runs) /\ Len(runs) \in Nat
    OBVIOUS
  <2>3. runs' \in Seq(RunStates) /\ DOMAIN runs' = DOMAIN runs /\ Len(runs') = Len(runs)
    <3>1. end \in RunStates
      BY <2>1 DEF RunStates
    <3>2. QED
      BY <2>1, <3>1
  <2>4. Active(r) /\ export' \in Nat /\ UNCHANGED <<jobVars, gold>>
    BY <2>2 DEF Export, Finish, Fail, Active
  <2>5. QED
    BY <2>1, <2>2, <2>3, <2>4
<1>2. UNCHANGED <<step, run_id, polls, csv, asked, done, gold>>
  BY <1>1 DEF jobVars
<1>3. \A q \in DOMAIN runs : q > r => runs[q] = "SKIPPED"
  BY <1>1 DEF OneBuild
<1>4. OneBuild'
  BY <1>1, <1>3 DEF OneBuild, Active
<1>5. ExportIsNewest'
  <2>1. CASE Export(r)
    BY <2>1 DEF Export, ExportIsNewest
  <2>2. CASE Finish(r)
    BY <1>1, <1>3, <2>2 DEF Finish, ExportIsNewest
  <2>3. CASE Fail(r)
    BY <1>1, <2>3 DEF Fail, ExportIsNewest
  <2>4. QED
    BY <2>1, <2>2, <2>3
<1>6. OwnBuild'
  BY <1>1, <1>2 DEF OwnBuild, Active
<1>7. QED
  BY <1>1, <1>2, <1>4, <1>5, <1>6 DEF LoadsItsOwnBuild

(* The job runs through what it waits for, lists, reads and upserts.       *)
LEMMA JobStep ==
  ASSUME LakeInv,
         \/ Deploy \/ StartJob \/ RunNow \/ TriggerFails \/ Poll \/ PollRaises
         \/ ListParts \/ Download \/ UpsertGold
  PROVE  LakeInv'
<1> USE DEF LakeInv
<1>1. CASE Deploy
  BY <1>1 DEF Deploy, jobVars, OneBuild, Active, ExportIsNewest, OwnBuild, LoadsItsOwnBuild
<1>2. CASE StartJob
  BY <1>2 DEF StartJob, OneBuild, Active, ExportIsNewest, OwnBuild, LoadsItsOwnBuild
<1>3. CASE RunNow
  <2> DEFINE new == IF \E r \in DOMAIN runs : Active(r) THEN "SKIPPED" ELSE "RUNNING"
  <2>1. /\ runs' = Append(runs, new) /\ new \in {"SKIPPED", "RUNNING"}
        /\ UNCHANGED <<export, csv, gold, asked>>
    BY <1>3 DEF RunNow
  <2>2. /\ runs' \in Seq(RunStates) /\ Len(runs') = Len(runs) + 1 /\ runs'[Len(runs')] = new
        /\ DOMAIN runs' = DOMAIN runs \cup {Len(runs')}
        /\ \A q \in DOMAIN runs : runs'[q] = runs[q] /\ q < Len(runs')
        /\ Len(runs') \in Nat /\ DOMAIN runs \subseteq Nat
    <3>1. new \in RunStates
      BY DEF RunStates
    <3> HIDE DEF new
    <3>2. QED
      BY <2>1, <3>1
  <2>3. OneBuild'
    BY <2>2 DEF OneBuild, Active
  <2>4. ExportIsNewest'
    BY <2>1, <2>2 DEF ExportIsNewest
  <2>5. OwnBuild' /\ LoadsItsOwnBuild'
    BY <1>3, <2>1, <2>2 DEF RunNow, Fails, OwnBuild, LoadsItsOwnBuild
  <2>6. QED
    BY <1>3, <2>1, <2>2, <2>3, <2>4, <2>5 DEF RunNow, Fails
<1>4. CASE TriggerFails \/ PollRaises
  BY <1>4 DEF TriggerFails, PollRaises, Fails, OneBuild, Active, ExportIsNewest, OwnBuild,
              LoadsItsOwnBuild
<1>5. CASE Poll
  BY <1>5 DEF Poll, Succeeded, Fails, OneBuild, Active, ExportIsNewest, OwnBuild,
              LoadsItsOwnBuild
<1>6. CASE ListParts
  BY <1>6 DEF ListParts, Fails, OneBuild, Active, ExportIsNewest, OwnBuild, LoadsItsOwnBuild
<1>7. CASE Download
  BY <1>7 DEF Download, Fails, OneBuild, Active, ExportIsNewest, OwnBuild, LoadsItsOwnBuild
<1>8. CASE UpsertGold
  BY <1>8 DEF UpsertGold, Overwritten, Fails, OneBuild, Active, ExportIsNewest, OwnBuild,
              LoadsItsOwnBuild
<1>9. QED
  BY <1>1, <1>2, <1>3, <1>4, <1>5, <1>6, <1>7, <1>8

(* lakehouse_job never says it succeeded with rows of a build it did not   *)
(* start itself, whatever else is asked of Databricks, skipped, exported,  *)
(* lost in an answer or still at work.  Excepted are jobs that lacked the  *)
(* credentials of Databricks or of the storage, which skip their part.     *)
THEOREM JobAlwaysLoadsItsOwnBuild == LakeSpec => []LoadsItsOwnBuild
<1>1. LakeInit => LakeInv
  BY DEF LakeInit, LakeInv, OneBuild, ExportIsNewest, OwnBuild, LoadsItsOwnBuild
<1>2. LakeInv /\ [LakeNext]_lakeVars => LakeInv'
  <2>1. LakeInv /\ UNCHANGED lakeVars => LakeInv'
    BY DEF lakeVars, jobVars, LakeInv, OneBuild, Active, ExportIsNewest, OwnBuild,
           LoadsItsOwnBuild
  <2>2. QED
    BY <2>1, BuildStep, JobStep DEF LakeNext
<1>3. LakeInv => LoadsItsOwnBuild
  BY DEF LakeInv
<1>4. QED
  BY <1>1, <1>2, <1>3, PTL DEF LakeSpec

-----------------------------------------------------------------------------
(* The publisher.  A history that was put after the start is of the day it *)
(* is counted for.                                                         *)
HistoryInv ==
    /\ day \in Nat /\ started \in Nat /\ last_history_day \in Nat /\ blob.day \in Nat
    /\ last_history_day <= day /\ blob.day <= day
    /\ last_history_day > started => blob.day >= last_history_day
    /\ HistoryIsRetried

LEMMA HistoryStep ==
  ASSUME HistoryInv, [BlobNext]_blobVars
  PROVE  HistoryInv'
<1> USE DEF HistoryInv, HistoryIsRetried
<1>1. CASE Time
  BY <1>1 DEF Time
<1>2. CASE StartUp
  <2>1. blob'.day \in Nat /\ blob'.day <= day
    BY <1>2 DEF StartUp, PublishHistory
  <2>2. QED
    BY <1>2, <2>1 DEF StartUp
<1>3. CASE PublishLive \/ QueryRaises \/ Wake \/ Restart
  BY <1>3 DEF PublishLive, QueryRaises, Wake, Restart
<1>4. CASE History
  <2>1. CASE due /\ day > last_history_day
    <3>1. \/ attempt' = "ok" /\ blob'.day = day /\ last_history_day' = day
          \/ attempt' = "failed" /\ blob' = blob /\ last_history_day' = last_history_day
      BY <1>4, <2>1 DEF History, PublishHistory, DayAfter
    <3>2. QED
      BY <1>4, <3>1 DEF History
  <2>2. CASE ~(due /\ day > last_history_day)
    BY <1>4, <2>2 DEF History
  <2>3. QED
    BY <2>1, <2>2
<1>5. CASE UNCHANGED blobVars
  BY <1>5 DEF blobVars
<1>6. QED
  BY <1>1, <1>2, <1>3, <1>4, <1>5 DEF BlobNext

(* publisher_loop makes good a failed history in the next pass, not on the *)
(* next day, through restarts and slices that fail, for any set of slices. *)
THEOREM HistoryAlwaysRetried == BlobSpec => []HistoryIsRetried
<1>1. BlobInit => HistoryInv
  BY DEF BlobInit, HistoryInv, HistoryIsRetried
<1>2. HistoryInv => HistoryIsRetried
  BY DEF HistoryInv
<1>3. QED
  BY <1>1, <1>2, HistoryStep, PTL DEF BlobSpec

-----------------------------------------------------------------------------
(* The page.  In a live build that is not left, a request is in flight     *)
(* only while the poll timer runs: what its answer does not show, a later  *)
(* one will.  An archive never opens a stream, arms a timer or polls.      *)
LiveBuild == ~sunset => NeverDead /\ (~disposed /\ inFlight # "none" => pollTimer)

ArchiveBuild ==
    sunset => ~source /\ ~stallTimer /\ ~pollTimer /\ ~reconnect /\ inFlight # "poll"

PageInv ==
    /\ sunset \in BOOLEAN /\ source \in BOOLEAN /\ stallTimer \in BOOLEAN
    /\ pollTimer \in BOOLEAN /\ reconnect \in BOOLEAN /\ disposed \in BOOLEAN
    /\ LiveBuild /\ ArchiveBuild /\ LeftForGood

LEMMA PageStep ==
  ASSUME PageInv, [PageNext]_pageVars
  PROVE  PageInv'
<1> USE DEF PageInv, LiveBuild, ArchiveBuild, NeverDead, LeftForGood
<1>1. CASE ApiTurns \/ VercelTurns
  BY <1>1 DEF ApiTurns, VercelTurns
<1>2. CASE Snap
  BY <1>2 DEF Snap
<1>3. CASE SseFails
  BY <1>3 DEF SseFails, StartPolling
<1>4. CASE Reconnect
  BY <1>4 DEF Reconnect, StartSse
<1>5. CASE Stall
  BY <1>5 DEF Stall, StartPolling
<1>6. CASE PollAgain
  BY <1>6 DEF PollAgain
<1>7. CASE PollAnswers
  BY <1>7 DEF PollAnswers, Shown
<1>8. CASE PollFails
  BY <1>8 DEF PollFails
<1>9. CASE Freeze
  BY <1>9 DEF Freeze, StopPolling, Shown
<1>10. CASE FreezeFails
  BY <1>10 DEF FreezeFails
<1>11. CASE Dispose
  BY <1>11 DEF Dispose
<1>12. CASE UNCHANGED pageVars
  BY <1>12 DEF pageVars
<1>13. QED
  BY <1>1, <1>2, <1>3, <1>4, <1>5, <1>6, <1>7, <1>8, <1>9, <1>10, <1>11, <1>12
     DEF PageNext, Timers, Answers

LEMMA PageAlways == PageSpec => []PageInv
<1>1. PageInit => PageInv
  BY DEF PageInit, Mounted, PageInv, LiveBuild, ArchiveBuild, NeverDead, LeftForGood
<1>2. QED
  BY <1>1, PageStep, PTL DEF PageSpec

(* In a live build useLive never ends in a state in which nothing will     *)
(* move the page, however the stall timer, errors, reconnects and answers  *)
(* interleave.                                                             *)
THEOREM PageNeverDead == PageSpec => []NeverDead
<1>1. PageInv => NeverDead
  BY DEF PageInv, LiveBuild, NeverDead
<1>2. QED
  BY <1>1, PageAlways, PTL

(* After the clean-up of useLive the page has no stream and neither its    *)
(* stall nor its poll timer is armed again, whatever reconnect or answer   *)
(* was still to come.                                                      *)
THEOREM PageLeftForGood == PageSpec => []LeftForGood
<1>1. PageInv => LeftForGood
  BY DEF PageInv
<1>2. QED
  BY <1>1, PageAlways, PTL

-----------------------------------------------------------------------------
(* The streams of an address.                                              *)
Running == {s \in Streams : stream[s] = "running"}

CountInv ==
    /\ stream \in [Streams -> {"closed", "accepted", "running"}]
    /\ StreamsCounted

LEMMA CountStep ==
  ASSUME CountInv, [ApiNext]_apiVars
  PROVE  CountInv'
<1> USE DEF CountInv
<1>1. IsFiniteSet(Streams) /\ Running \subseteq Streams /\ sse_clients = Cardinality(Running)
  BY ApiAssumption DEF Running, StreamsCounted
<1>2. IsFiniteSet(Running)
  BY <1>1, FS_Subset
<1>3. CASE UNCHANGED streamVars
  BY <1>3 DEF streamVars, StreamsCounted
<1>4. ASSUME NEW s \in Streams, Accept(s) \/ Abandon(s) PROVE CountInv'
  <2>1. stream' \in [Streams -> {"closed", "accepted", "running"}]
        /\ Running' = Running /\ sse_clients' = sse_clients
    BY <1>4 DEF Accept, Abandon, Running
  <2>2. QED
    BY <1>1, <2>1 DEF StreamsCounted, Running
<1>5. ASSUME NEW s \in Streams, Begin(s) PROVE CountInv'
  <2>1. stream' \in [Streams -> {"closed", "accepted", "running"}]
        /\ Running' = Running \cup {s} /\ s \notin Running /\ sse_clients' = sse_clients + 1
    BY <1>5 DEF Begin, Running
  <2>2. Cardinality(Running') = sse_clients'
    BY <1>1, <1>2, <2>1, FS_AddElement
  <2>3. QED
    BY <2>1, <2>2 DEF StreamsCounted, Running
<1>6. ASSUME NEW s \in Streams, StreamRaises(s) \/ Disconnect(s) PROVE CountInv'
  <2>1. stream' \in [Streams -> {"closed", "accepted", "running"}]
        /\ Running' = Running \ {s} /\ s \in Running /\ sse_clients' = sse_clients - 1
    BY <1>6 DEF StreamRaises, Disconnect, Uncount, Running
  <2>2. Cardinality(Running') = sse_clients'
    BY <1>1, <1>2, <2>1, FS_RemoveElement
  <2>3. QED
    BY <2>1, <2>2 DEF StreamsCounted, Running
<1>7. QED
  BY <1>3, <1>4, <1>5, <1>6
     DEF ApiNext, Clock, Database, SamplerStarts, SamplerGets, SamplerFails, Query, Route,
         SendOwn, apiVars

(* _sse_clients counts the streams that run, so that a client that leaves  *)
(* between the check and the first chunk loses or gives away no slot, for  *)
(* any number of streams.                                                  *)
THEOREM StreamsAlwaysCounted == ApiSpec => []StreamsCounted
<1>1. ApiInit => CountInv
  <2>1. ApiInit => Running = {}
    BY DEF ApiInit, Running
  <2>2. QED
    BY <2>1, FS_EmptySet DEF ApiInit, CountInv, StreamsCounted, Running
<1>2. CountInv => StreamsCounted
  BY DEF CountInv
<1>3. QED
  BY <1>1, <1>2, CountStep, PTL DEF ApiSpec

-----------------------------------------------------------------------------
(* The cache.  What a call brings is read after it started, and what is    *)
(* stored is stamped with that start.                                      *)
Value == [readAt : Nat]

CacheInv ==
    /\ now \in Nat /\ DOMAIN calls = Callers
    /\ \A c \in Callers : calls[c] # Null =>
          /\ calls[c] \in [started : Nat, value : {Null} \cup Value]
          /\ calls[c].started <= now
          /\ calls[c].value # Null =>
                calls[c].started <= calls[c].value.readAt /\ calls[c].value.readAt <= now
    /\ store # Null =>
          /\ store.at \in Nat /\ store.value \in Value
          /\ store.at <= store.value.readAt /\ store.value.readAt <= now

LEMMA CallStep ==
  ASSUME CacheInv, NEW c \in Callers, UNCHANGED now,
         CallHits(c) \/ CallMisses(c) \/ QueryFails(c) \/ Store(c) \/ Query(c)
  PROVE  CacheInv'
<1> USE DEF CacheInv
<1>1. CASE CallHits(c)
  BY <1>1 DEF CallHits
<1>2. CASE CallMisses(c)
  BY <1>2 DEF CallMisses
<1>3. CASE QueryFails(c)
  BY <1>3 DEF QueryFails
<1>4. CASE Store(c)
  BY <1>4 DEF Store, Stamp
<1>5. CASE Query(c)
  <2>1. /\ calls[c] # Null /\ UNCHANGED store /\ [readAt |-> now] \in Value
        /\ calls' = [calls EXCEPT ![c].value = [readAt |-> now]]
    BY <1>5 DEF Query, Value
  <2>2. /\ calls'[c] \in [started : Nat, value : {Null} \cup Value]
        /\ calls'[c].started = calls[c].started /\ calls'[c].value.readAt = now
        /\ DOMAIN calls' = Callers /\ \A d \in Callers : d # c => calls'[d] = calls[d]
    BY <2>1
  <2>3. QED
    BY <2>1, <2>2
<1>6. QED
  BY <1>1, <1>2, <1>3, <1>4, <1>5

LEMMA CacheStep ==
  ASSUME CacheInv, [ApiNext]_apiVars
  PROVE  CacheInv'
<1>1. CASE Clock
  BY <1>1 DEF Clock, CacheInv, Value
<1>2. CASE UNCHANGED <<now, store, calls>>
  BY <1>2 DEF CacheInv
<1>3. ASSUME NEW c \in Callers, UNCHANGED now,
             CallHits(c) \/ CallMisses(c) \/ QueryFails(c) \/ Store(c) \/ Query(c)
      PROVE  CacheInv'
  BY <1>3, CallStep
<1>4. "sampler" \in Callers /\ Routes \subseteq Callers /\ Streams \subseteq Callers
  BY DEF Callers
<1>5. QED
  BY <1>1, <1>2, <1>3, <1>4
     DEF ApiNext, Database, SamplerStarts, SamplerGets, SamplerFails, Query, Route, Accept,
         Begin, Abandon, SendOwn, StreamRaises, Disconnect, apiVars, streamVars

LEMMA CacheInitially == ApiInit => CacheInv
BY DEF ApiInit, CacheInv

LEMMA HitIsRecent ==
  ASSUME CacheInv
  PROVE  HitsAreRecent
BY ApiAssumption DEF CacheInv, HitsAreRecent, Hit, Value

(* cache.py: a hit is what was in the database less than the TTL ago,      *)
(* however slow the calls are and in whatever order they store.            *)
THEOREM HitsAlwaysRecent == ApiSpec => []HitsAreRecent
<1>1. QED
  BY CacheInitially, CacheStep, HitIsRecent, PTL DEF ApiSpec

-----------------------------------------------------------------------------
(* The sampler.  It sleeps longer than a hit is old, so that what it gets  *)
(* next was read after what it has.                                        *)
SamplerInv ==
    /\ CacheInv /\ nextTick \in Nat
    /\ latest # Null => latest \in Value /\ latest.readAt + SSE_INTERVAL_S <= nextTick
    /\ calls["sampler"] # Null => nextTick <= calls["sampler"].started

LEMMA SamplerStep ==
  ASSUME SamplerInv, [ApiNext]_apiVars
  PROVE  /\ SamplerInv'
         /\ latest # Null => latest'.readAt >= latest.readAt
<1> USE DEF SamplerInv
<1>0. /\ CacheInv' /\ "sampler" \in Callers /\ "sampler" \notin Routes \cup Streams
      /\ Ttl \in Nat /\ SSE_INTERVAL_S \in Nat /\ Ttl <= SSE_INTERVAL_S
  BY CacheStep, ApiAssumption DEF Callers
<1>1. latest # Null => latest.readAt \in Nat
  BY DEF Value
<1>2. CASE SamplerStarts
  <2>1. CASE CallMisses("sampler") /\ UNCHANGED <<latest, nextTick>>
    BY <1>0, <1>1, <1>2, <2>1 DEF SamplerStarts, CallMisses, CacheInv
  <2>2. CASE CallHits("sampler") /\ latest' = store.value
             /\ nextTick' = WakeAfter([started |-> now])
    <3>1. store.value \in Value /\ store.value.readAt > now - Ttl /\ store.value.readAt <= now
          /\ now >= nextTick /\ calls' = calls /\ calls["sampler"] = Null
          /\ nextTick' = now + SSE_INTERVAL_S /\ now \in Nat
      BY <1>2, <2>2, HitIsRecent
         DEF SamplerStarts, CallHits, Hit, HitsAreRecent, CacheInv, WakeAfter
    <3>2. store.value.readAt \in Nat
      BY <3>1 DEF Value
    <3>3. QED
      BY <1>0, <1>1, <2>2, <3>1, <3>2
  <2>3. QED
    BY <1>2, <2>1, <2>2 DEF SamplerStarts
<1>3. CASE SamplerGets
  <2>1. /\ calls["sampler"] # Null /\ calls["sampler"].value # Null
        /\ latest' = calls["sampler"].value /\ nextTick' = now + SSE_INTERVAL_S
        /\ calls'["sampler"] = Null /\ now \in Nat
    BY <1>0, <1>3 DEF SamplerGets, Store, WakeAfter, CacheInv
  <2>2. latest' \in Value /\ latest'.readAt <= now /\ latest'.readAt \in Nat
        /\ calls["sampler"].started <= latest'.readAt /\ calls["sampler"].started \in Nat
    BY <1>0, <2>1 DEF CacheInv, Value
  <2>3. QED
    BY <1>0, <1>1, <2>1, <2>2
<1>4. CASE SamplerFails
  <2>1. /\ calls["sampler"] # Null /\ calls["sampler"].started \in Nat
        /\ calls["sampler"].started <= now /\ nextTick' = now + SSE_INTERVAL_S
        /\ calls'["sampler"] = Null /\ now \in Nat /\ latest' = latest
    BY <1>0, <1>4 DEF SamplerFails, QueryFails, WakeAfter, CacheInv
  <2>2. QED
    BY <1>0, <1>1, <2>1
<1>5. CASE Query("sampler")
  <2>1. calls'["sampler"].started = calls["sampler"].started /\ calls["sampler"] # Null
        /\ UNCHANGED <<latest, nextTick>>
    BY <1>0, <1>5 DEF Query, CacheInv
  <2>2. QED
    BY <1>0, <1>1, <2>1
<1>6. CASE UNCHANGED <<latest, nextTick>> /\ calls'["sampler"] = calls["sampler"]
  BY <1>0, <1>1, <1>6
<1>7. ASSUME NEW c \in Callers, c # "sampler", UNCHANGED <<latest, nextTick>>,
             CallHits(c) \/ CallMisses(c) \/ QueryFails(c) \/ Store(c) \/ Query(c)
      PROVE  UNCHANGED <<latest, nextTick>> /\ calls'["sampler"] = calls["sampler"]
  BY <1>0, <1>7 DEF CallHits, CallMisses, QueryFails, Store, Query, CacheInv
<1>8. Routes \subseteq Callers /\ Streams \subseteq Callers
  BY DEF Callers
<1>9. CASE \E c \in Callers : Query(c)
  BY <1>5, <1>6, <1>7, <1>9 DEF Query
<1>10. CASE \E c \in Routes : Route(c)
  BY <1>0, <1>6, <1>7, <1>8, <1>10 DEF Route
<1>11. CASE \E s \in Streams : SendOwn(s) \/ StreamRaises(s)
  BY <1>0, <1>6, <1>7, <1>8, <1>11 DEF SendOwn, StreamRaises
<1>12. QED
  BY <1>2, <1>3, <1>4, <1>6, <1>9, <1>10, <1>11
     DEF ApiNext, Clock, Database, Accept, Begin, Abandon, Disconnect, apiVars, streamVars

(* main.py: the snapshot all streams share never goes back in time,        *)
(* although the cache the sampler reads it through may.                    *)
THEOREM LatestAlwaysForward == ApiSpec => LatestNeverBackwards
<1>1. ApiInit => SamplerInv
  BY CacheInitially DEF ApiInit, SamplerInv, Callers
<1>2. SamplerInv /\ [ApiNext]_apiVars
      => SamplerInv' /\ [latest # Null => latest'.readAt >= latest.readAt]_latest
  BY SamplerStep
<1>3. QED
  BY <1>1, <1>2, PTL DEF ApiSpec, LatestNeverBackwards

-----------------------------------------------------------------------------
(* The daily jobs: for every number of days and airports, every volume of  *)
(* arrivals and every delay of the feed, whatever fails.                   *)

(* The schedules: what has fired fired by today, and the day on which the  *)
(* feed had a day whole is not ahead.                                      *)
Calendar ==
    /\ \A f \in fired : f \in 2..today /\ (f = today => "ground_truth" \in ticked)
    /\ \A k \in run_keys : k[1] \in fired
    /\ \A d \in Days : /\ whole[d] \in 0..today
                       /\ whole[d] # 0 => \A a \in ToSet(AIRPORTS) : feed[<<d, a>>] = Volume[d][a]

(* A run asked for: of a day there is, and today's quality run only after  *)
(* its schedule ticked.                                                    *)
DueRun(r) ==
    /\ r.fire <= today
    /\ r.job = "quality" /\ r.fire = today => "quality" \in ticked
    /\ r.job = "ground_truth" => r.day \in Days

Scheduled ==
    /\ \A i \in DOMAIN queue : DueRun(queue[i])
    /\ running # None => DueRun(running.run)
    /\ report # None => DueRun([job |-> "quality", fire |-> report.fire, day |-> 0])

(* The queue is in order: behind a quality run there is no pull of the     *)
(* same morning.                                                           *)
NoPullBehind(fire, i) ==
    \A j \in DOMAIN queue : j > i /\ queue[j].job = "ground_truth" => queue[j].fire # fire

PullsFirst ==
    /\ \A i \in DOMAIN queue : queue[i].job = "quality" => NoPullBehind(queue[i].fire, i)
    /\ running # None /\ running.run.job = "quality" => NoPullBehind(running.run.fire, 0)
    /\ report # None => running = None /\ NoPullBehind(report.fire, 0)

(* The pull at work never has more than the feed; the last pull of a day   *)
(* that came whole in time has all of every airport it asked for.          *)
Fetched ==
    Pulling =>
        /\ running.asked \in 0..Len(AIRPORTS)
        /\ \A a \in ToSet(AIRPORTS) : running.rows[a] <= feed[<<running.run.day, a>>]
        /\ /\ running.run.fire = running.run.day + 3
           /\ whole[running.run.day] \in 1..(running.run.day + 2)
           => \A i \in 1..running.asked :
                 running.rows[AIRPORTS[i]] = Volume[running.run.day][AIRPORTS[i]]

(* While a report stands, the mart is that of the table it was built from. *)
Scored ==
    report # None =>
        mart = Plausible /\ report.newest = Max({0} \cup {c[1] : c \in Plausible})

DailyTypes ==
    /\ DailyTypeOK
    /\ feed \in [Cells -> Nat] /\ table \in [Cells -> Nat] /\ whole \in [Days -> Nat]
    /\ report # None => report.fire \in Nat /\ report.newest \in Nat

DailyInv == DailyTypes /\ Calendar /\ Scheduled /\ PullsFirst /\ Fetched /\ Scored /\ Healed

-----------------------------------------------------------------------------
(* The constants.                                                          *)
LEMMA DaysAndCells ==
  /\ Days \subseteq Nat /\ \A d \in Days : d \in 1..MaxToday
  /\ AIRPORTS \in Seq(STRING) /\ Len(AIRPORTS) \in Nat
  /\ \A i \in 1..Len(AIRPORTS) : AIRPORTS[i] \in ToSet(AIRPORTS)
  /\ \A a \in ToSet(AIRPORTS) : \E i \in 1..Len(AIRPORTS) : a = AIRPORTS[i]
  /\ \A d \in Days : \A a \in ToSet(AIRPORTS) : <<d, a>> \in Cells /\ Volume[d][a] \in Nat
  /\ \A c \in Cells : /\ c = <<c[1], c[2]>> /\ c[1] \in Days /\ c[2] \in ToSet(AIRPORTS)
                      /\ Volume[c[1]][c[2]] \in Nat
<1>1. AIRPORTS \in Seq(STRING) /\ Len(AIRPORTS) \in Nat /\ DOMAIN AIRPORTS = 1..Len(AIRPORTS)
  BY DailyBatchAssumption
<1>2. /\ \A i \in 1..Len(AIRPORTS) : AIRPORTS[i] \in ToSet(AIRPORTS)
      /\ \A a \in ToSet(AIRPORTS) : \E i \in 1..Len(AIRPORTS) : a = AIRPORTS[i]
  BY <1>1 DEF ToSet
<1>3. Days \subseteq Nat /\ \A d \in Days : d \in 1..MaxToday
  BY DailyBatchAssumption
<1>4. \A c \in Cells : c = <<c[1], c[2]>> /\ c[1] \in Days /\ c[2] \in ToSet(AIRPORTS)
  BY DEF Cells
<1>5. \A d \in Days : \A a \in ToSet(AIRPORTS) : <<d, a>> \in Cells /\ Volume[d][a] \in Nat
  BY DailyBatchAssumption DEF Cells
<1>6. QED
  BY <1>1, <1>2, <1>3, <1>4, <1>5

(* Max of a bounded set of naturals is its greatest.                       *)
LEMMA MaxIsGreatest ==
  ASSUME NEW T, T \subseteq Nat, T # {}, NEW b \in Nat, \A n \in T : n <= b
  PROVE  Max(T) \in T /\ \A n \in T : n <= Max(T)
<1>1. \E m \in T : \A n \in T : m >= n
  <2>1. PICK m \in T : \A n \in T : n <= m
    BY NatMax
  <2>2. \A n \in T : m >= n
    BY <2>1
  <2>3. QED
    BY <2>2
<1>2. Max(T) \in T /\ \A n \in T : Max(T) >= n
  BY <1>1 DEF Max
<1>3. QED
  BY <1>2

LEMMA MaxOfTwo ==
  ASSUME NEW m \in Nat, NEW n \in Nat
  PROVE  /\ Max({m, n}) \in Nat /\ m <= Max({m, n}) /\ n <= Max({m, n})
         /\ Max({m, n}) = m \/ Max({m, n}) = n
<1>1. \A x \in {m, n} : x <= m + n
  OBVIOUS
<1>2. Max({m, n}) \in {m, n} /\ \A x \in {m, n} : x <= Max({m, n})
  <2>1. {m, n} \subseteq Nat /\ {m, n} # {} /\ m + n \in Nat
    OBVIOUS
  <2> HIDE DEF Max
  <2>2. QED
    BY <1>1, <2>1, MaxIsGreatest
<1>3. QED
  BY <1>2

(* The score of a report is that of a day, or 0.                           *)
LEMMA NewestScored ==
  ASSUME NEW T, T \subseteq Cells
  PROVE  Max({0} \cup {c[1] : c \in T}) \in {0} \cup Days
<1> DEFINE U == {0} \cup {c[1] : c \in T}
<1>1. \A u \in U : u \in {0} \cup Days /\ u \in Nat /\ u <= MaxToday
  BY DaysAndCells, DailyBatchAssumption
<1>2. U # {} /\ U \subseteq Nat
  BY <1>1
<1> HIDE DEF U
<1>3. Max(U) \in U
  BY <1>1, <1>2, MaxIsGreatest, DailyBatchAssumption
<1>4. QED
  BY <1>1, <1>3 DEF U

(* One queue behind another.                                               *)
Behind(u, s, t) ==
    /\ \A i \in DOMAIN s : i \in DOMAIN u /\ u[i] = s[i]
    /\ \A k \in DOMAIN u : k \in DOMAIN s \/ \E j \in DOMAIN t : u[k] = t[j]
    /\ \A j \in DOMAIN t : \E k \in DOMAIN u : k \notin DOMAIN s /\ u[k] = t[j]

LEMMA Concatenated ==
  ASSUME NEW S, NEW s \in Seq(S), NEW t \in Seq(S)
  PROVE  s \o t \in Seq(S) /\ Behind(s \o t, s, t)
<1>1. /\ s \o t \in Seq(S) /\ Len(s) \in Nat /\ Len(t) \in Nat
      /\ DOMAIN s = 1..Len(s) /\ DOMAIN t = 1..Len(t)
      /\ Len(s \o t) = Len(s) + Len(t) /\ DOMAIN (s \o t) = 1..(Len(s) + Len(t))
  OBVIOUS
<1>2. \A k \in 1..(Len(s) + Len(t)) :
         (s \o t)[k] = IF k <= Len(s) THEN s[k] ELSE t[k - Len(s)]
  OBVIOUS
<1>3. \A k \in 1..(Len(s) + Len(t)) : k \notin 1..Len(s) => k - Len(s) \in 1..Len(t)
  <2>1. \A m, n \in Nat : \A k \in 1..(m + n) : ~(k \in 1..m) => k - m \in 1..n
    OBVIOUS
  <2>2. QED
    BY <1>1, <2>1
<1>4. \A j \in 1..Len(t) : /\ Len(s) + j \in 1..(Len(s) + Len(t)) /\ Len(s) + j \notin 1..Len(s)
                           /\ (Len(s) + j) - Len(s) = j
  BY <1>1
<1>5. \A j \in DOMAIN t : \E k \in DOMAIN (s \o t) : k \notin DOMAIN s /\ (s \o t)[k] = t[j]
  <2> TAKE j \in DOMAIN t
  <2>1. Len(s) + j \in DOMAIN (s \o t) /\ Len(s) + j \notin DOMAIN s
    BY <1>1, <1>4
  <2>2. (s \o t)[Len(s) + j] = t[j]
    BY <1>1, <1>2, <1>4
  <2>3. QED
    BY <2>1, <2>2
<1>6. \A i \in DOMAIN s : i \in DOMAIN (s \o t) /\ (s \o t)[i] = s[i]
  <2> TAKE i \in DOMAIN s
  <2>1. i \in 1..(Len(s) + Len(t)) /\ i <= Len(s)
    BY <1>1
  <2>2. QED
    BY <1>1, <1>2, <2>1
<1>7. \A k \in DOMAIN (s \o t) : k \in DOMAIN s \/ \E j \in DOMAIN t : (s \o t)[k] = t[j]
  <2> SUFFICES ASSUME NEW k \in 1..(Len(s) + Len(t)), k \notin 1..Len(s)
               PROVE  \E j \in 1..Len(t) : (s \o t)[k] = t[j]
    BY <1>1
  <2>1. k - Len(s) \in 1..Len(t) /\ ~(k <= Len(s))
    BY <1>1, <1>3
  <2>2. QED
    BY <1>2, <2>1
<1>8. QED
  BY <1>1, <1>5, <1>6, <1>7 DEF Behind

-----------------------------------------------------------------------------
(* Types of what an action reads.                                          *)
LEMMA RunTypes ==
  ASSUME DailyTypes
  PROVE  /\ today \in Nat /\ Len(queue) \in Nat /\ DOMAIN queue = 1..Len(queue)
         /\ \A i \in DOMAIN queue : queue[i] \in Runs
         /\ running # None => /\ running \in Attempts /\ running.run \in Runs
                              /\ running.run.fire \in Nat /\ running.run.day \in Nat
                              /\ running.asked \in Nat
                              /\ running.rows \in [ToSet(AIRPORTS) -> Nat]
<1>1. today \in Nat /\ queue \in Seq(Runs) /\ running \in Attempts \cup {None}
  BY DailyBatchAssumption DEF DailyTypes, DailyTypeOK
<1>2. Len(queue) \in Nat /\ DOMAIN queue = 1..Len(queue) /\ \A i \in DOMAIN queue : queue[i] \in Runs
  BY <1>1
<1>3. running # None => running \in Attempts
  BY <1>1
<1>4. QED
  BY <1>1, <1>2, <1>3 DEF Attempts, Runs

(* A day later, everything due is older.                                   *)
LEMMA TomorrowKeeps ==
  ASSUME DailyInv, Tomorrow
  PROVE  DailyInv'
<1>1. /\ today \in Nat /\ today' = today + 1 /\ today' \in 2..MaxToday /\ ticked' = {}
      /\ UNCHANGED <<run_keys, queue, running, feed, table, mart, whole, fired, failed, report>>
  BY DailyBatchAssumption DEF Tomorrow, DailyInv, DailyTypes, DailyTypeOK
<1>2. DailyTypes'
  BY <1>1 DEF DailyInv, DailyTypes, DailyTypeOK, Plausible
<1>3. Calendar'
  <2>1. \A f \in fired : f \in 2..today' /\ f # today'
    BY <1>1 DEF DailyInv, Calendar
  <2>2. \A d \in Days : whole[d] \in 0..today'
    BY <1>1 DEF DailyInv, Calendar
  <2>3. QED
    BY <1>1, <2>1, <2>2 DEF DailyInv, Calendar
<1>4. Scheduled'
  <2>1. \A r : r.fire \in Nat /\ DueRun(r) => DueRun(r)'
    BY <1>1 DEF DueRun
  <2>2. \A i \in DOMAIN queue : queue[i].fire \in Nat
    BY RunTypes DEF DailyInv, Runs
  <2>3. running # None => running.run.fire \in Nat
    BY RunTypes DEF DailyInv
  <2>4. report # None => report.fire \in Nat
    BY DEF DailyInv, DailyTypes
  <2>5. QED
    BY <1>1, <2>1, <2>2, <2>3, <2>4 DEF DailyInv, Scheduled
<1>5. PullsFirst'
  BY <1>1 DEF DailyInv, PullsFirst, NoPullBehind
<1>6. Fetched'
  BY <1>1 DEF DailyInv, Fetched, Pulling
<1>7. Scored' /\ Healed'
  BY <1>1 DEF DailyInv, Scored, Healed, Plausible, Pending
<1>8. QED
  BY <1>2, <1>3, <1>4, <1>5, <1>6, <1>7 DEF DailyInv

(* The feed grows: never on a day it has whole.                            *)
LEMMA AggregateKeeps ==
  ASSUME DailyInv, NEW c \in Cells, Aggregate(c[1], c[2])
  PROVE  DailyInv'
<1> DEFINE d == c[1]  a == c[2]
<1>0. /\ d \in Days /\ a \in ToSet(AIRPORTS) /\ d \in Nat /\ <<d, a>> \in Cells /\ c = <<d, a>>
      /\ Volume[d][a] \in Nat
  BY DaysAndCells
<1>1. /\ UNCHANGED <<today, ticked, run_keys, queue, running, table, mart, fired, failed, report>>
      /\ today \in Nat /\ today >= 2 /\ d < today
  BY DailyBatchAssumption DEF Aggregate, DailyInv, DailyTypes, DailyTypeOK
<1>2. PICK n \in (feed[<<d, a>>] + 1) .. Volume[d][a] : feed' = [feed EXCEPT ![<<d, a>>] = n]
  BY DEF Aggregate
<1>3. /\ feed \in [Cells -> Nat] /\ table \in [Cells -> Nat] /\ whole \in [Days -> Nat]
      /\ \A e \in Cells : feed[e] \in 0..Volume[e[1]][e[2]] /\ table[e] \in 0..feed[e]
  BY DEF DailyInv, DailyTypes, DailyTypeOK
<1>4. n \in Nat /\ feed[<<d, a>>] < n /\ n <= Volume[d][a]
  BY <1>0, <1>2, <1>3
<1>5. feed' \in [Cells -> Nat] /\ \A e \in Cells : feed'[e] = IF e = c THEN n ELSE feed[e]
  BY <1>0, <1>2, <1>3, <1>4
<1>6. \A e \in Cells : feed'[e] \in 0..Volume[e[1]][e[2]] /\ table[e] \in 0..feed'[e] /\ feed[e] <= feed'[e]
  <2> TAKE e \in Cells
  <2>1. feed[e] \in Nat /\ table[e] \in Nat /\ Volume[e[1]][e[2]] \in Nat
    BY <1>3, DaysAndCells
  <2>2. CASE e = c
    BY <1>0, <1>3, <1>4, <1>5, <2>1, <2>2
  <2>3. CASE e # c
    BY <1>3, <1>5, <2>1, <2>3
  <2>4. QED
    BY <2>2, <2>3
<1>7. whole[d] = 0
  BY <1>0, <1>3, <1>4 DEF DailyInv, Calendar
<1>8. /\ whole' \in [Days -> Nat]
      /\ \A e \in Days : e # d => whole'[e] = whole[e]
      /\ whole'[d] \in {0, today}
      /\ whole'[d] # 0 => \A b \in ToSet(AIRPORTS) : feed'[<<d, b>>] = Volume[d][b]
  BY <1>0, <1>1, <1>3 DEF Aggregate
<1>9. \A e \in Days : \A b \in ToSet(AIRPORTS) : e # d => feed'[<<e, b>>] = feed[<<e, b>>]
  BY <1>0, <1>5, DaysAndCells
<1>10. DailyTypes'
  BY <1>1, <1>5, <1>6, <1>8 DEF DailyInv, DailyTypes, DailyTypeOK, Plausible
<1>11. Calendar'
  <2>1. \A e \in Days : /\ whole'[e] \in 0..today
                        /\ whole'[e] # 0 => \A b \in ToSet(AIRPORTS) : feed'[<<e, b>>] = Volume[e][b]
    BY <1>1, <1>8, <1>9 DEF DailyInv, Calendar
  <2>2. QED
    BY <1>1, <2>1 DEF DailyInv, Calendar
<1>12. Scheduled' /\ PullsFirst'
  BY <1>1 DEF DailyInv, Scheduled, DueRun, PullsFirst, NoPullBehind
<1>13. \A e \in Days : e + 3 <= today /\ whole'[e] \in 1..(e + 2) => whole[e] = whole'[e]
  BY <1>0, <1>1, <1>8, DaysAndCells
<1>14. Fetched'
  <2> SUFFICES ASSUME Pulling PROVE Fetched'
    BY <1>1 DEF Fetched, Pulling
  <2> DEFINE its_day == running.run.day
  <2>1. /\ running # None /\ its_day \in Days /\ its_day \in Nat /\ running.run.fire <= today
        /\ running.rows \in [ToSet(AIRPORTS) -> Nat]
    BY RunTypes DEF DailyInv, Scheduled, DueRun, Pulling
  <2>2. \A b \in ToSet(AIRPORTS) : running.rows[b] <= feed'[<<its_day, b>>]
    <3> TAKE b \in ToSet(AIRPORTS)
    <3>1. running.rows[b] <= feed[<<its_day, b>>] /\ <<its_day, b>> \in Cells
      BY <2>1, DaysAndCells DEF DailyInv, Fetched
    <3>2. running.rows[b] \in Nat /\ feed[<<its_day, b>>] \in Nat /\ feed'[<<its_day, b>>] \in Nat
      BY <1>3, <1>5, <2>1, <3>1
    <3>3. QED
      BY <1>6, <3>1, <3>2
  <2>3. running.run.fire = its_day + 3 /\ whole'[its_day] \in 1..(its_day + 2) => whole[its_day] = whole'[its_day]
    BY <1>13, <2>1
  <2>4. QED
    BY <1>1, <2>2, <2>3 DEF DailyInv, Fetched, Pulling
<1>15. Scored'
  BY <1>1 DEF DailyInv, Scored, Plausible
<1>16. Healed'
  <2>1. \A e \in Days : e + 3 \in fired => e + 3 <= today
    BY <1>1 DEF DailyInv, Calendar
  <2>2. QED
    BY <1>1, <1>13, <2>1 DEF DailyInv, Healed, Pending
<1>17. QED
  BY <1>10, <1>11, <1>12, <1>14, <1>15, <1>16 DEF DailyInv

-----------------------------------------------------------------------------
(* The requests of a tick: of today, of a day there is, and the one for    *)
(* any such day unless its run_key was seen.                               *)
LEMMA OneRequest ==
  ASSUME DailyTypes, NEW i \in 1..3
  PROVE  /\ Request(i) \in Seq(Runs)
         /\ \A j \in DOMAIN Request(i) :
               /\ Request(i)[j].job = "ground_truth" /\ Request(i)[j].fire = today
               /\ Request(i)[j].day \in Days
         /\ today - i \in Days /\ <<today, today - i>> \notin run_keys =>
               \E j \in DOMAIN Request(i) : Request(i)[j].day = today - i
<1> DEFINE r == [job |-> "ground_truth", fire |-> today, day |-> today - i]
<1>1. CASE today - i \in Days /\ RunKey(today, today - i) \notin run_keys
  <2>1. r \in Runs /\ r.job = "ground_truth" /\ r.fire = today /\ r.day = today - i
    BY <1>1, RunTypes, DaysAndCells DEF Runs
  <2>2. Request(i) = <<r>>
    BY <1>1 DEF Request
  <2> HIDE DEF r
  <2>3. <<r>> \in Seq(Runs) /\ DOMAIN <<r>> = {1} /\ <<r>>[1] = r
    BY <2>1
  <2>4. QED
    BY <1>1, <2>1, <2>2, <2>3
<1>2. CASE ~(today - i \in Days /\ RunKey(today, today - i) \notin run_keys)
  <2>1. Request(i) = <<>>
    BY <1>2 DEF Request
  <2>2. <<>> \in Seq(Runs) /\ DOMAIN <<>> = {}
    OBVIOUS
  <2>3. QED
    BY <1>2, <2>1, <2>2 DEF RunKey
<1>3. QED
  BY <1>1, <1>2

(* A queue of three parts.                                                 *)
Gathers(u, r, s, t) ==
    /\ \A k \in DOMAIN u : \/ \E j \in DOMAIN r : u[k] = r[j]
                           \/ \E j \in DOMAIN s : u[k] = s[j]
                           \/ \E j \in DOMAIN t : u[k] = t[j]
    /\ \A j \in DOMAIN r : \E k \in DOMAIN u : u[k] = r[j]
    /\ \A j \in DOMAIN s : \E k \in DOMAIN u : u[k] = s[j]
    /\ \A j \in DOMAIN t : \E k \in DOMAIN u : u[k] = t[j]

LEMMA BehindIsGathered ==
  ASSUME NEW u, NEW two, NEW r, NEW s, NEW t, Behind(two, r, s), Behind(u, two, t)
  PROVE  Gathers(u, r, s, t)
<1>1. \A k \in DOMAIN two : \/ \E j \in DOMAIN r : two[k] = r[j]
                            \/ \E j \in DOMAIN s : two[k] = s[j]
  BY DEF Behind
<1>2. \A k \in DOMAIN u : \/ \E j \in DOMAIN two : u[k] = two[j]
                          \/ \E j \in DOMAIN t : u[k] = t[j]
  BY DEF Behind
<1>3. \A j \in DOMAIN two : \E k \in DOMAIN u : u[k] = two[j]
  BY DEF Behind
<1>4. /\ \A j \in DOMAIN r : \E k \in DOMAIN two : two[k] = r[j]
      /\ \A j \in DOMAIN s : \E k \in DOMAIN two : two[k] = s[j]
      /\ \A j \in DOMAIN t : \E k \in DOMAIN u : u[k] = t[j]
  BY DEF Behind
<1>5. \A k \in DOMAIN u : \/ \E j \in DOMAIN r : u[k] = r[j]
                          \/ \E j \in DOMAIN s : u[k] = s[j]
                          \/ \E j \in DOMAIN t : u[k] = t[j]
  <2> SUFFICES ASSUME NEW k \in DOMAIN u, NEW i \in DOMAIN two, u[k] = two[i]
               PROVE  (\E j \in DOMAIN r : u[k] = r[j]) \/ (\E j \in DOMAIN s : u[k] = s[j])
    BY <1>2
  <2>1. CASE \E j \in DOMAIN r : two[i] = r[j]
    BY <2>1
  <2>2. CASE \E j \in DOMAIN s : two[i] = s[j]
    BY <2>2
  <2>3. QED
    BY <1>1, <2>1, <2>2
<1>6. \A j \in DOMAIN r : \E k \in DOMAIN u : u[k] = r[j]
  BY <1>3, <1>4
<1>7. \A j \in DOMAIN s : \E k \in DOMAIN u : u[k] = s[j]
  BY <1>3, <1>4
<1>8. QED
  BY <1>4, <1>5, <1>6, <1>7 DEF Gathers

LEMMA AllRequests ==
  ASSUME DailyTypes
  PROVE  \E kept \in Seq(Runs) :
            /\ kept = Request(1) \o Request(2) \o Request(3)
            /\ \A j \in DOMAIN kept : /\ kept[j].job = "ground_truth" /\ kept[j].fire = today
                                      /\ kept[j].day \in Days
            /\ \A i \in 1..3 : today - i \in Days /\ <<today, today - i>> \notin run_keys =>
                  \E j \in DOMAIN kept : kept[j].day = today - i
<1>1. PICK r, s, t : r = Request(1) /\ s = Request(2) /\ t = Request(3)
  OBVIOUS
<1> DEFINE OfToday(q, i) ==
      /\ q \in Seq(Runs)
      /\ \A j \in DOMAIN q : /\ q[j].job = "ground_truth" /\ q[j].fire = today
                             /\ q[j].day \in Days
      /\ today - i \in Days /\ <<today, today - i>> \notin run_keys =>
            \E j \in DOMAIN q : q[j].day = today - i
<1>2. OfToday(r, 1) /\ OfToday(s, 2) /\ OfToday(t, 3)
  <2>1. \A i \in 1..3 : OfToday(Request(i), i)
    BY OneRequest
  <2> HIDE DEF OfToday
  <2>2. QED
    BY <1>1, <2>1
<1>3. PICK two : two = r \o s
  OBVIOUS
<1>4. PICK kept : kept = two \o t
  OBVIOUS
<1>5. two \in Seq(Runs) /\ Behind(two, r, s)
  BY <1>2, <1>3, Concatenated
<1>6. kept \in Seq(Runs) /\ Behind(kept, two, t)
  BY <1>2, <1>4, <1>5, Concatenated
<1>7. Gathers(kept, r, s, t)
  BY <1>5, <1>6, BehindIsGathered
<1>8. \A j \in DOMAIN kept : /\ kept[j].job = "ground_truth" /\ kept[j].fire = today
                             /\ kept[j].day \in Days
  BY <1>2, <1>7 DEF Gathers
<1>9. \A i \in 1..3 : today - i \in Days /\ <<today, today - i>> \notin run_keys =>
                  \E j \in DOMAIN kept : kept[j].day = today - i
  <2>1. \A i \in 1..3 : i = 1 \/ i = 2 \/ i = 3
    OBVIOUS
  <2> DEFINE Wanted(i) == today - i \in Days /\ <<today, today - i>> \notin run_keys
             There(i)  == \E j \in DOMAIN kept : kept[j].day = today - i
  <2>2. Wanted(1) => There(1)
    BY <1>2, <1>7 DEF Gathers
  <2>3. Wanted(2) => There(2)
    BY <1>2, <1>7 DEF Gathers
  <2>4. Wanted(3) => There(3)
    BY <1>2, <1>7 DEF Gathers
  <2> HIDE DEF Wanted, There
  <2>5. \A i \in 1..3 : Wanted(i) => There(i)
    BY <2>1, <2>2, <2>3, <2>4
  <2>6. QED
    BY <2>5 DEF Wanted, There
<1>10. QED
  BY <1>1, <1>3, <1>4, <1>6, <1>8, <1>9

(* The pulls of a morning go behind whatever is queued, and their quality  *)
(* run has not been asked for yet.                                         *)
LEMMA FireGroundTruthKeeps ==
  ASSUME DailyInv, FireGroundTruth
  PROVE  DailyInv'
<1>0. PICK kept \in Seq(Runs) :
        /\ kept = Request(1) \o Request(2) \o Request(3)
        /\ \A j \in DOMAIN kept : /\ kept[j].job = "ground_truth" /\ kept[j].fire = today
                                  /\ kept[j].day \in Days
        /\ \A i \in 1..3 : today - i \in Days /\ <<today, today - i>> \notin run_keys =>
              \E j \in DOMAIN kept : kept[j].day = today - i
  BY AllRequests DEF DailyInv
<1>2. /\ \A j \in DOMAIN kept : /\ kept[j].job = "ground_truth" /\ kept[j].fire = today
                                /\ kept[j].day \in Days
      /\ \A i \in 1..3 : today - i \in Days /\ <<today, today - i>> \notin run_keys =>
            \E j \in DOMAIN kept : kept[j].day = today - i
  BY <1>0
<1>1. /\ "ground_truth" \notin ticked /\ "quality" \notin ticked
      /\ ticked' = ticked \cup {"ground_truth"}
      /\ run_keys' = run_keys \cup {<<r.fire, r.day>> : r \in ToSet(kept)}
      /\ fired' = fired \cup {today}
      /\ UNCHANGED <<today, running, feed, table, mart, whole, failed, report>>
  BY <1>0 DEF FireGroundTruth, RunKey
<1>3. /\ queue \in Seq(Runs) /\ today \in Nat /\ today >= 2
      /\ \A i \in DOMAIN queue : queue[i] \in Runs /\ queue[i].fire \in Nat
  BY RunTypes DEF DailyInv, DailyTypes, DailyTypeOK, Runs
<1>4. queue' \in Seq(Runs) /\ Behind(queue', queue, kept)
  <2>1. queue' = queue \o kept
    BY <1>0 DEF FireGroundTruth
  <2>2. QED
    BY <1>3, <2>1, Concatenated
<1>5. DailyTypes'
  BY <1>1, <1>4 DEF DailyInv, DailyTypes, DailyTypeOK, Plausible
<1>6. Calendar'
  <2>1. \A f \in fired' : f \in 2..today /\ (f = today => "ground_truth" \in ticked')
    BY <1>1, <1>3 DEF DailyInv, Calendar
  <2>2. \A k \in run_keys' : k[1] \in fired'
    <3>1. \A r \in ToSet(kept) : r.fire = today
      BY <1>2 DEF ToSet
    <3>2. QED
      BY <1>1, <3>1 DEF DailyInv, Calendar
  <2>3. QED
    BY <1>1, <2>1, <2>2 DEF DailyInv, Calendar
<1>7. Scheduled'
  <2>1. \A r : DueRun(r) => DueRun(r)'
    BY <1>1 DEF DueRun
  <2>2. \A j \in DOMAIN kept : DueRun(kept[j])'
    BY <1>1, <1>2, <1>3 DEF DueRun
  <2>3. QED
    BY <1>1, <1>4, <2>1, <2>2 DEF DailyInv, Scheduled, Behind
<1>8. PullsFirst'
  <2>1. \A r : DueRun(r) /\ r.job = "quality" => r.fire # today
    BY <1>1 DEF DueRun
  <2>2. ASSUME NEW f, NEW i, f # today, NoPullBehind(f, i)
        PROVE  NoPullBehind(f, i)'
    <3> SUFFICES ASSUME NEW j \in DOMAIN queue', j > i, queue'[j].job = "ground_truth"
                 PROVE  queue'[j].fire # f
      BY DEF NoPullBehind
    <3>1. CASE j \in DOMAIN queue
      <4>1. queue'[j] = queue[j]
        BY <1>4, <3>1 DEF Behind
      <4>2. QED
        BY <2>2, <3>1, <4>1 DEF NoPullBehind
    <3>2. CASE j \notin DOMAIN queue
      <4>1. PICK k \in DOMAIN kept : queue'[j] = kept[k]
        BY <1>4, <3>2 DEF Behind
      <4>2. QED
        BY <1>2, <2>2, <4>1
    <3>3. QED
      BY <3>1, <3>2
  <2>3. ASSUME NEW i \in DOMAIN queue', queue'[i].job = "quality"
        PROVE  NoPullBehind(queue[i].fire, i)'
    <3>1. i \in DOMAIN queue /\ queue'[i] = queue[i]
      BY <1>2, <1>4, <2>3 DEF Behind
    <3>2. queue[i].fire # today /\ NoPullBehind(queue[i].fire, i)
      BY <2>1, <2>3, <3>1 DEF DailyInv, PullsFirst, Scheduled
    <3>3. QED
      BY <2>2, <3>1, <3>2
  <2>4. report # None => /\ running = None
                         /\ NoPullBehind(report.fire, 0)'
    <3>1. report # None => report.fire # today
      BY <1>1 DEF DailyInv, Scheduled, DueRun
    <3>2. QED
      BY <1>1, <2>2, <3>1 DEF DailyInv, PullsFirst
  <2>5. running # None /\ running.run.job = "quality" => NoPullBehind(running.run.fire, 0)'
    <3>1. running # None /\ running.run.job = "quality" => running.run.fire # today
      BY <2>1 DEF DailyInv, Scheduled
    <3>2. QED
      BY <1>1, <2>2, <3>1 DEF DailyInv, PullsFirst
  <2>6. QED
    BY <1>1, <2>3, <2>4, <2>5 DEF PullsFirst
<1>9. Fetched' /\ Scored'
  BY <1>1 DEF DailyInv, Fetched, Pulling, Scored, Plausible
<1>10. Healed'
  <2> SUFFICES ASSUME NEW d \in Days, d + 3 \in fired', whole[d] \in 1..(d + 2),
                      <<d + 3, d>> \notin failed, ~Pending(d + 3, d)'
               PROVE  \A a \in ToSet(AIRPORTS) : table[<<d, a>>] = Volume[d][a]
    BY <1>1 DEF Healed
  <2>1. ~Pending(d + 3, d)
    BY <1>1, <1>4 DEF Pending, Behind
  <2>2. CASE d + 3 \in fired
    BY <2>1, <2>2 DEF DailyInv, Healed
  <2>3. CASE d + 3 \notin fired
    <3>1. today = d + 3 /\ d \in Nat
      BY <1>1, <2>3, DaysAndCells
    <3>2. today - 3 = d /\ today - 3 \in Days
      BY <3>1
    <3>3. <<today, today - 3>> \notin run_keys
      <4>1. today \notin fired
        BY <1>1 DEF DailyInv, Calendar
      <4>2. QED
        BY <4>1 DEF DailyInv, Calendar
    <3>4. PICK j \in DOMAIN kept : kept[j].day = d
      BY <1>2, <3>2, <3>3
    <3>5. PICK k \in DOMAIN queue' : queue'[k] = kept[j]
      BY <1>4 DEF Behind
    <3>6. QED
      BY <1>2, <3>1, <3>4, <3>5 DEF Pending
  <2>4. QED
    BY <2>2, <2>3
<1>11. QED
  BY <1>5, <1>6, <1>7, <1>8, <1>9, <1>10 DEF DailyInv

(* A build goes last: a quality run has no pull behind it.                 *)
LEMMA FireBuildKeeps ==
  ASSUME DailyInv, NEW job \in {"dbt", "quality"}, FireBuild(job)
  PROVE  DailyInv'
<1>1. PICK r : r = [job |-> job, fire |-> today, day |-> 0]
  OBVIOUS
<1>2. /\ job \notin ticked /\ ticked' = ticked \cup {job} /\ queue' = Append(queue, r)
      /\ UNCHANGED <<today, run_keys, running, feed, table, mart, whole, fired, failed, report>>
  BY <1>1 DEF FireBuild
<1>3. /\ r \in Runs /\ r.fire = today /\ r.job = job /\ r.job # "ground_truth"
      /\ queue \in Seq(Runs) /\ today \in Nat
  <2>1. today \in Nat /\ queue \in Seq(Runs)
    BY RunTypes DEF DailyInv, DailyTypes, DailyTypeOK
  <2>2. QED
    BY <1>1, <2>1 DEF Runs
<1>4. /\ queue' \in Seq(Runs) /\ Len(queue) \in Nat
      /\ DOMAIN queue = 1..Len(queue) /\ DOMAIN queue' = 1..(Len(queue) + 1)
      /\ \A i \in DOMAIN queue : queue'[i] = queue[i]
      /\ queue'[Len(queue) + 1] = r
  BY <1>2, <1>3
<1>5. \A i \in DOMAIN queue' : (i \in DOMAIN queue /\ queue'[i] = queue[i]) \/ queue'[i] = r
  BY <1>4
<1>6. DailyTypes'
  <2>1. ticked' \subseteq {"ground_truth", "dbt", "quality"}
    BY <1>2 DEF DailyInv, DailyTypes, DailyTypeOK
  <2>2. QED
    BY <1>2, <1>4, <2>1 DEF DailyInv, DailyTypes, DailyTypeOK, Plausible
<1>7. Calendar'
  BY <1>2 DEF DailyInv, Calendar
<1>8. Scheduled'
  <2>1. \A q : DueRun(q) => DueRun(q)'
    BY <1>2 DEF DueRun
  <2>2. DueRun(r)'
    BY <1>2, <1>3 DEF DueRun
  <2>3. QED
    BY <1>2, <1>5, <2>1, <2>2 DEF DailyInv, Scheduled
<1>9. PullsFirst'
  <2>1. \A f : \A i \in Nat : NoPullBehind(f, i) => NoPullBehind(f, i)'
    BY <1>3, <1>5 DEF NoPullBehind
  <2>2. NoPullBehind(r.fire, Len(queue) + 1)'
    BY <1>4 DEF NoPullBehind
  <2>3. ASSUME NEW i \in DOMAIN queue', queue'[i].job = "quality"
        PROVE  NoPullBehind(queue[i].fire, i)'
    <3>1. CASE i \in DOMAIN queue /\ queue'[i] = queue[i]
      <4>1. i \in Nat /\ NoPullBehind(queue[i].fire, i)
        BY <1>4, <2>3, <3>1 DEF DailyInv, PullsFirst
      <4>2. QED
        BY <2>1, <3>1, <4>1
    <3>2. CASE i = Len(queue) + 1
      BY <1>4, <3>2 DEF NoPullBehind
    <3>3. QED
      BY <1>4, <3>1, <3>2
  <2>4. QED
    BY <1>2, <2>1, <2>3 DEF DailyInv, PullsFirst
<1>10. Fetched' /\ Scored'
  BY <1>2 DEF DailyInv, Fetched, Pulling, Scored, Plausible
<1>11. \A f, d : Pending(f, d) => Pending(f, d)'
  BY <1>2, <1>4 DEF Pending
<1>12. Healed'
  BY <1>2, <1>11 DEF DailyInv, Healed
<1>13. QED
  BY <1>6, <1>7, <1>8, <1>9, <1>10, <1>12 DEF DailyInv

(* The run at the head of the queue starts, and stays pending.             *)
LEMMA StartKeeps ==
  ASSUME DailyInv, Start
  PROVE  DailyInv'
<1>1. PICK r : r = Head(queue)
  OBVIOUS
<1>2. /\ running = None /\ queue # <<>> /\ queue' = Tail(queue) /\ report' = None
      /\ running' = [run |-> r, asked |-> 0, rows |-> [a \in ToSet(AIRPORTS) |-> 0]]
      /\ UNCHANGED <<today, ticked, run_keys, feed, table, mart, whole, fired, failed>>
  BY <1>1 DEF Start
<1>3. queue \in Seq(Runs)
  BY DEF DailyInv, DailyTypes, DailyTypeOK
<1>4. /\ queue' \in Seq(Runs) /\ Len(queue) \in Nat /\ Len(queue) > 0
      /\ DOMAIN queue = 1..Len(queue) /\ DOMAIN queue' = 1..(Len(queue) - 1)
      /\ \A i \in DOMAIN queue' : queue'[i] = queue[i + 1]
      /\ r = queue[1] /\ r \in Runs
  BY <1>1, <1>2, <1>3
<1>5. /\ \A i \in DOMAIN queue' : i \in Nat /\ i + 1 \in DOMAIN queue
      /\ \A i \in DOMAIN queue : i = 1 \/ i - 1 \in DOMAIN queue'
      /\ 1 \in DOMAIN queue
  BY <1>4
<1>6. running' \in Attempts /\ running' # None /\ running'.run = r /\ running'.asked = 0
  BY <1>2, <1>4, DailyBatchAssumption DEF Attempts
<1>7. DailyTypes'
  BY <1>2, <1>4, <1>6 DEF DailyInv, DailyTypes, DailyTypeOK, Plausible
<1>8. Calendar' /\ Scored'
  BY <1>2 DEF DailyInv, Calendar, Scored
<1>9. Scheduled'
  <2>1. \A q : DueRun(q) => DueRun(q)'
    BY <1>2 DEF DueRun
  <2>2. \A i \in DOMAIN queue : DueRun(queue[i])
    BY DEF DailyInv, Scheduled
  <2>3. QED
    BY <1>2, <1>4, <1>5, <1>6, <2>1, <2>2 DEF Scheduled
<1>10. PullsFirst'
  <2>1. \A f : \A i \in Nat : NoPullBehind(f, i + 1) => NoPullBehind(f, i)'
    BY <1>4, <1>5 DEF NoPullBehind
  <2>2. ASSUME NEW i \in DOMAIN queue', queue'[i].job = "quality"
        PROVE  NoPullBehind(queue[i].fire, i)'
    <3>1. i \in Nat /\ i + 1 \in DOMAIN queue /\ queue'[i] = queue[i + 1]
      BY <1>4, <1>5
    <3>2. NoPullBehind(queue[i + 1].fire, i + 1)
      BY <2>2, <3>1 DEF DailyInv, PullsFirst
    <3>3. QED
      BY <2>1, <3>1, <3>2
  <2>3. r.job = "quality" => NoPullBehind(r.fire, 0)'
    <3>1. r.job = "quality" => NoPullBehind(r.fire, 0 + 1)
      BY <1>4, <1>5 DEF DailyInv, PullsFirst
    <3>2. QED
      BY <2>1, <3>1
  <2>4. QED
    BY <1>2, <1>6, <2>2, <2>3 DEF PullsFirst
<1>11. Fetched'
  <2>1. \A a \in ToSet(AIRPORTS) : running'.rows[a] = 0
    BY <1>2
  <2>2. r.job = "ground_truth" => r.day \in Days
    BY <1>4, <1>5 DEF DailyInv, Scheduled, DueRun
  <2>3. r.job = "ground_truth" => \A a \in ToSet(AIRPORTS) : feed[<<r.day, a>>] \in Nat
    BY <2>2, DaysAndCells DEF DailyInv, DailyTypes
  <2>4. QED
    BY <1>2, <1>6, <2>1, <2>3, DaysAndCells DEF Fetched, Pulling
<1>12. \A f, d : Pending(f, d) => Pending(f, d)'
  <2> SUFFICES ASSUME NEW f, NEW d, Pending(f, d) PROVE Pending(f, d)'
    OBVIOUS
  <2>1. PICK i \in DOMAIN queue : queue[i].job = "ground_truth" /\ queue[i].fire = f /\ queue[i].day = d
    BY <1>2 DEF Pending
  <2>2. CASE i = 1
    BY <1>4, <1>6, <2>1, <2>2 DEF Pending
  <2>3. CASE i - 1 \in DOMAIN queue'
    <3>1. queue'[i - 1] = queue[i]
      BY <1>4, <2>1, <2>3
    <3>2. QED
      BY <2>1, <2>3, <3>1 DEF Pending
  <2>4. QED
    BY <1>5, <2>2, <2>3
<1>13. Healed'
  BY <1>2, <1>12 DEF DailyInv, Healed
<1>14. QED
  BY <1>7, <1>8, <1>9, <1>10, <1>11, <1>13 DEF DailyInv

(* One airport more, with what the feed has of it now.                     *)
LEMMA PullKeeps ==
  ASSUME DailyInv, Pull
  PROVE  DailyInv'
<1> DEFINE r   == running.run
           n   == running.asked
           a   == AIRPORTS[n + 1]
           got == feed[<<r.day, a>>]
<1>1. /\ Pulling /\ running # None /\ r.job = "ground_truth" /\ n < Len(AIRPORTS)
      /\ running' = [running EXCEPT !.asked = n + 1, !.rows[a] = got]
      /\ UNCHANGED <<today, ticked, run_keys, queue, feed, table, mart, whole, fired, failed, report>>
  BY DEF Pull, Pulling
<1>2. /\ running \in Attempts /\ r \in Runs /\ r.day \in Nat /\ n \in Nat /\ r.fire \in Nat
      /\ running.rows \in [ToSet(AIRPORTS) -> Nat] /\ today \in Nat
  BY <1>1, RunTypes DEF DailyInv
<1>3. r.day \in Days /\ DueRun(r)
  BY <1>1 DEF DailyInv, Scheduled, DueRun
<1>4. a \in ToSet(AIRPORTS) /\ got \in Nat
  <2>1. n + 1 \in 1..Len(AIRPORTS)
    BY <1>1, <1>2, DaysAndCells
  <2>2. a \in ToSet(AIRPORTS)
    BY <2>1, DaysAndCells
  <2>3. QED
    BY <1>3, <2>2, DaysAndCells DEF DailyInv, DailyTypes
<1> HIDE DEF got, a
<1>5. /\ running' \in Attempts /\ running'.run = r /\ running'.asked = n + 1
      /\ running'.rows = [running.rows EXCEPT ![a] = got]
  <2>1. PICK rows : rows = [running.rows EXCEPT ![a] = got]
    OBVIOUS
  <2>2. rows \in [ToSet(AIRPORTS) -> Nat]
    BY <1>2, <1>4, <2>1
  <2>3. running' = [run |-> r, asked |-> n + 1, rows |-> rows]
    BY <1>1, <1>2, <2>1 DEF Attempts
  <2>4. QED
    BY <1>2, <2>1, <2>2, <2>3 DEF Attempts
<1>6. /\ running' # None
      /\ \A b \in ToSet(AIRPORTS) : running'.rows[b] = IF b = a THEN got ELSE running.rows[b]
  BY <1>2, <1>4, <1>5, DailyBatchAssumption
<1>7. DailyTypes'
  BY <1>1, <1>5 DEF DailyInv, DailyTypes, DailyTypeOK, Plausible
<1>8. Calendar' /\ Scored'
  BY <1>1 DEF DailyInv, Calendar, Scored, Plausible
<1>9. Scheduled'
  <2>1. \A q : DueRun(q) => DueRun(q)'
    BY <1>1 DEF DueRun
  <2>2. QED
    BY <1>1, <1>3, <1>5, <2>1 DEF DailyInv, Scheduled
<1>10. PullsFirst'
  BY <1>1, <1>5 DEF DailyInv, PullsFirst, NoPullBehind
<1>11. Fetched'
  <2>1. n + 1 \in 0..Len(AIRPORTS)
    BY <1>1, <1>2, DaysAndCells
  <2>2. \A b \in ToSet(AIRPORTS) : running'.rows[b] <= feed[<<r.day, b>>]
    BY <1>1, <1>4, <1>6 DEF DailyInv, Fetched, got
  <2>3. ASSUME r.fire = r.day + 3, whole[r.day] \in 1..(r.day + 2), NEW i \in 1..(n + 1)
        PROVE  running'.rows[AIRPORTS[i]] = Volume[r.day][AIRPORTS[i]]
    <3>1. \A b \in ToSet(AIRPORTS) : feed[<<r.day, b>>] = Volume[r.day][b]
      BY <1>2, <1>3, <2>3 DEF DailyInv, Calendar
    <3>2. CASE i = n + 1
      BY <1>4, <1>6, <3>1, <3>2 DEF a, got
    <3>3. CASE i \in 1..n
      <4>1. i \in 1..Len(AIRPORTS)
        BY <1>1, <1>2, <3>3, DaysAndCells
      <4>2. AIRPORTS[i] \in ToSet(AIRPORTS)
        BY <4>1, DaysAndCells
      <4>3. running.rows[AIRPORTS[i]] = Volume[r.day][AIRPORTS[i]]
        BY <1>1, <2>3, <3>3 DEF DailyInv, Fetched
      <4>4. QED
        BY <1>6, <3>1, <4>2, <4>3 DEF got
    <3>4. i \in 1..n \/ i = n + 1
      BY <1>2, <2>3
    <3>5. QED
      BY <3>2, <3>3, <3>4
  <2>4. QED
    BY <1>1, <1>5, <2>1, <2>2, <2>3 DEF Fetched, Pulling
<1>12. Healed'
  <2>1. \A f, d : Pending(f, d) => Pending(f, d)'
    BY <1>1, <1>5, <1>6 DEF Pending
  <2>2. QED
    BY <1>1, <2>1 DEF DailyInv, Healed
<1>13. QED
  BY <1>7, <1>8, <1>9, <1>10, <1>11, <1>12 DEF DailyInv

(* The upsert only adds, and what the last pull of a whole day brings is   *)
(* all there was.                                                          *)
LEMMA UpsertKeeps ==
  ASSUME DailyInv, Upsert
  PROVE  DailyInv'
<1> DEFINE r == running.run
<1>1. /\ Pulling /\ running # None /\ r.job = "ground_truth" /\ running.asked = Len(AIRPORTS)
      /\ running' = None
      /\ UNCHANGED <<today, ticked, run_keys, queue, feed, mart, whole, fired, failed, report>>
  BY DEF Upsert, Pulling
<1>2. /\ r \in Runs /\ r.day \in Nat /\ r.day \in Days
      /\ running.rows \in [ToSet(AIRPORTS) -> Nat] /\ report = None
  BY <1>1, RunTypes DEF DailyInv, Scheduled, DueRun, PullsFirst
<1>3. table \in [Cells -> Nat] /\ feed \in [Cells -> Nat]
  BY DEF DailyInv, DailyTypes
<1>4. \A c \in Cells : /\ feed[c] <= Volume[c[1]][c[2]] /\ table[c] <= feed[c]
                       /\ feed[c] \in Nat /\ table[c] \in Nat /\ Volume[c[1]][c[2]] \in Nat
  BY <1>3, DaysAndCells DEF DailyInv, DailyTypes, DailyTypeOK
<1>5. \A c \in Cells :
        table'[c] = IF c[1] = r.day THEN Max({table[c], running.rows[c[2]]}) ELSE table[c]
  BY DEF Upsert, Upserted
<1>6. \A c \in Cells : /\ table'[c] \in Nat /\ table[c] <= table'[c] /\ table'[c] <= feed[c]
                       /\ c[1] = r.day => running.rows[c[2]] <= table'[c]
  <2> TAKE c \in Cells
  <2>1. CASE c[1] = r.day
    <3>1. running.rows[c[2]] \in Nat /\ running.rows[c[2]] <= feed[c]
      <4>1. c[2] \in ToSet(AIRPORTS) /\ c = <<r.day, c[2]>>
        BY <2>1, DaysAndCells
      <4>2. QED
        BY <1>1, <1>2, <4>1 DEF DailyInv, Fetched
    <3>2. table'[c] = Max({table[c], running.rows[c[2]]})
      BY <1>5, <2>1
    <3>3. QED
      BY <1>4, <3>1, <3>2, MaxOfTwo
  <2>2. CASE c[1] # r.day
    <3>1. table'[c] = table[c]
      BY <1>5, <2>2
    <3>2. QED
      BY <1>4, <2>2, <3>1
  <2>3. QED
    BY <2>1, <2>2
<1>7. table' \in [Cells -> Nat] /\ \A c \in Cells : table'[c] \in 0..feed[c]
  <2>1. table' = [c \in Cells |-> IF c[1] = r.day THEN Max({table[c], running.rows[c[2]]}) ELSE table[c]]
    BY DEF Upsert, Upserted
  <2>2. QED
    BY <1>4, <1>6, <2>1
<1>8. Plausible \subseteq Plausible'
  <2> SUFFICES ASSUME NEW c \in Cells, table[c] > 0, 2 * table[c] >= Volume[c[1]][c[2]]
               PROVE  table'[c] > 0 /\ 2 * table'[c] >= Volume[c[1]][c[2]]
    BY DEF Plausible
  <2>1. QED
    BY <1>4, <1>6
<1>9. DailyTypes'
  BY <1>1, <1>2, <1>3, <1>7, <1>8 DEF DailyInv, DailyTypes, DailyTypeOK
<1>10. Calendar' /\ Scored'
  BY <1>1, <1>2 DEF DailyInv, Calendar, Scored
<1>11. Scheduled' /\ PullsFirst'
  BY <1>1, <1>2 DEF DailyInv, Scheduled, DueRun, PullsFirst, NoPullBehind
<1>12. Fetched'
  BY <1>1 DEF Fetched, Pulling
<1>13. Healed'
  <2> SUFFICES ASSUME NEW d \in Days, d + 3 \in fired, whole[d] \in 1..(d + 2),
                      <<d + 3, d>> \notin failed, ~Pending(d + 3, d)',
                      NEW a \in ToSet(AIRPORTS)
               PROVE  table'[<<d, a>>] = Volume[d][a]
    BY <1>1 DEF Healed
  <2>1. <<d, a>> \in Cells
    BY DaysAndCells
  <2>2. CASE Pending(d + 3, d)
    <3>1. r.fire = d + 3 /\ r.day = d
      BY <1>1, <2>2 DEF Pending
    <3>2. PICK i \in 1..Len(AIRPORTS) : a = AIRPORTS[i]
      BY DaysAndCells
    <3>3. running.rows[a] = Volume[d][a]
      BY <1>1, <3>1, <3>2 DEF DailyInv, Fetched
    <3>4. QED
      BY <1>4, <1>6, <2>1, <3>1, <3>3
  <2>3. CASE ~Pending(d + 3, d)
    <3>1. table[<<d, a>>] = Volume[d][a]
      BY <2>3 DEF DailyInv, Healed
    <3>2. QED
      BY <1>4, <1>6, <2>1, <3>1
  <2>4. QED
    BY <2>2, <2>3
<1>14. QED
  BY <1>9, <1>10, <1>11, <1>12, <1>13 DEF DailyInv

(* A pull that fails is remembered as failed.                              *)
LEMMA PullFailsKeeps ==
  ASSUME DailyInv, PullFails
  PROVE  DailyInv'
<1>1. /\ Pulling /\ running # None /\ running' = None
      /\ failed' = failed \cup {<<running.run.fire, running.run.day>>}
      /\ UNCHANGED <<today, ticked, run_keys, queue, feed, table, mart, whole, fired, report>>
  BY DEF PullFails, Pulling
<1>2. DailyTypes' /\ Calendar' /\ Scored'
  BY <1>1 DEF DailyInv, DailyTypes, DailyTypeOK, Plausible, Calendar, Scored
<1>3. Scheduled' /\ PullsFirst' /\ Fetched'
  BY <1>1 DEF DailyInv, Scheduled, DueRun, PullsFirst, NoPullBehind, Fetched, Pulling
<1>4. Healed'
  <2>1. \A f, d : Pending(f, d) /\ <<f, d>> \notin failed' => Pending(f, d)'
    BY <1>1 DEF Pending
  <2>2. \A f, d : <<f, d>> \notin failed' => <<f, d>> \notin failed
    BY <1>1
  <2>3. QED
    BY <1>1, <2>1, <2>2 DEF DailyInv, Healed
<1>5. QED
  BY <1>2, <1>3, <1>4 DEF DailyInv

(* A build that ends: with the mart of the table as it is, or as it was.   *)
LEMMA BuildKeeps ==
  ASSUME DailyInv, Build \/ BuildFails
  PROVE  DailyInv'
<1>1. /\ running # None /\ running.run.job # "ground_truth" /\ running' = None
      /\ mart' \in {mart, Plausible} /\ report = None
      /\ UNCHANGED <<today, ticked, run_keys, queue, feed, table, whole, fired, failed, report>>
  BY DEF Build, BuildFails, Rebuild, DailyInv, PullsFirst
<1>2. mart' \subseteq Plausible
  BY <1>1 DEF DailyInv, DailyTypes, DailyTypeOK
<1>3. DailyTypes' /\ Calendar' /\ Scored'
  BY <1>1, <1>2 DEF DailyInv, DailyTypes, DailyTypeOK, Plausible, Calendar, Scored
<1>4. Scheduled' /\ PullsFirst' /\ Fetched'
  BY <1>1 DEF DailyInv, Scheduled, DueRun, PullsFirst, NoPullBehind, Fetched, Pulling
<1>5. Healed'
  BY <1>1 DEF DailyInv, Healed, Pending
<1>6. QED
  BY <1>3, <1>4, <1>5 DEF DailyInv

(* A report that ends: no pull of its morning was behind it.               *)
LEMMA ReportKeeps ==
  ASSUME DailyInv, Report
  PROVE  DailyInv'
<1> DEFINE newest == Max({0} \cup {c[1] : c \in Plausible})
<1>1. /\ running # None /\ running.run.job = "quality" /\ running' = None /\ mart' = Plausible
      /\ UNCHANGED <<today, ticked, run_keys, queue, feed, table, whole, fired, failed>>
      /\ report' = [fire |-> running.run.fire, newest |-> newest]
  BY DEF Report, Rebuild
<1>2. newest \in {0} \cup Days /\ newest \in Nat
  <2>1. newest \in {0} \cup Days
    BY NewestScored DEF Plausible
  <2> HIDE DEF newest
  <2>2. QED
    BY <2>1, DaysAndCells
<1>3. running.run.fire \in Nat /\ running.run \in Runs
  BY <1>1, RunTypes DEF DailyInv
<1>4. Plausible' = Plausible
  BY <1>1 DEF Plausible
<1>5. Scored'
  BY <1>1, <1>4 DEF Scored
<1> HIDE DEF newest
<1>6. DailyTypes'
  BY <1>1, <1>2, <1>3, <1>4 DEF DailyInv, DailyTypes, DailyTypeOK
<1>7. Calendar'
  BY <1>1 DEF DailyInv, Calendar
<1>8. Scheduled'
  <2>1. DueRun(running.run)
    BY <1>1 DEF DailyInv, Scheduled
  <2>2. QED
    BY <1>1, <2>1 DEF DailyInv, Scheduled, DueRun
<1>9. PullsFirst' /\ Fetched'
  BY <1>1 DEF DailyInv, PullsFirst, NoPullBehind, Fetched, Pulling
<1>10. Healed'
  BY <1>1 DEF DailyInv, Healed, Pending
<1>11. QED
  BY <1>5, <1>6, <1>7, <1>8, <1>9, <1>10 DEF DailyInv

-----------------------------------------------------------------------------
LEMMA DailyInitInv ==
  ASSUME DailyInit
  PROVE  DailyInv
<1>1. DailyTypes
  <2>1. today \in 2..MaxToday
    BY DailyBatchAssumption DEF DailyInit
  <2>2. QED
    BY <2>1, DaysAndCells DEF DailyInit, DailyTypes, DailyTypeOK
<1>2. QED
  BY <1>1 DEF DailyInit, DailyInv, Calendar, Scheduled, PullsFirst, Fetched, Scored, Healed, Pulling

LEMMA DailyStep ==
  ASSUME DailyInv, [DailyNext]_dailyVars
  PROVE  DailyInv'
<1>1. CASE \E c \in Cells : Aggregate(c[1], c[2])
  BY <1>1, AggregateKeeps
<1>2. CASE Tomorrow \/ FireGroundTruth \/ FireBuild("dbt") \/ FireBuild("quality")
  BY <1>2, TomorrowKeeps, FireGroundTruthKeeps, FireBuildKeeps
<1>3. CASE Start \/ Pull \/ Upsert \/ PullFails
  BY <1>3, StartKeeps, PullKeeps, UpsertKeeps, PullFailsKeeps
<1>4. CASE Build \/ Report \/ BuildFails
  BY <1>4, BuildKeeps, ReportKeeps
<1>5. CASE UNCHANGED dailyVars
  <2>1. /\ UNCHANGED <<today, ticked, run_keys, queue, running, feed, table, mart>>
        /\ UNCHANGED <<whole, fired, failed, report>>
    BY <1>5 DEF dailyVars
  <2>2. DailyTypes' /\ Calendar' /\ Scored'
    BY <2>1 DEF DailyInv, DailyTypes, DailyTypeOK, Plausible, Calendar, Scored
  <2>3. Scheduled' /\ PullsFirst' /\ Fetched' /\ Healed'
    BY <2>1 DEF DailyInv, Scheduled, DueRun, PullsFirst, NoPullBehind, Fetched, Pulling,
                Healed, Pending
  <2>4. QED
    BY <2>2, <2>3 DEF DailyInv
<1>6. QED
  BY <1>1, <1>2, <1>3, <1>4, <1>5 DEF DailyNext

(* The inductive invariant.                                                *)
LEMMA DailyInvariant == DailySpec => []DailyInv
  BY DailyInitInv, DailyStep, PTL DEF DailySpec

(* daily_ground_truth heals late data: a day the nightly aggregation has   *)
(* finished before the last of its three pulls is whole in the table after *)
(* that pull, unless it failed.                                            *)
THEOREM LateDaysHeal == DailySpec => []Healed
<1>1. DailyInv => Healed
  BY DEF DailyInv
<1>2. QED
  BY <1>1, DailyInvariant, PTL

(* detection_quality_report has seen the pulls of its own morning, and is  *)
(* of the newest day that may have a score.                                *)
THEOREM ReportIsNeverEarly == DailySpec => []ReportSeesThePulls
<1>1. ASSUME DailyInv, report # None, NEW d \in Days, Pending(report.fire, d)
      PROVE  FALSE
  <2>1. running = None /\ NoPullBehind(report.fire, 0)
    BY <1>1 DEF DailyInv, PullsFirst
  <2>2. PICK i \in DOMAIN queue : queue[i].job = "ground_truth" /\ queue[i].fire = report.fire
    BY <1>1, <2>1 DEF Pending
  <2>3. i > 0
    BY <1>1, RunTypes DEF DailyInv
  <2>4. QED
    BY <2>1, <2>2, <2>3 DEF NoPullBehind
<1>2. DailyInv => ReportSeesThePulls
  BY <1>1 DEF DailyInv, Scored, ReportSeesThePulls
<1>3. QED
  BY <1>2, DailyInvariant, PTL

-----------------------------------------------------------------------------
(* The types, and the services side by side.  The streams running are of a *)
(* finite set: their number is a natural one.                              *)
LEMMA ApiTypes == ApiSpec => []ApiTypeOK
<1>1. ApiInit => SamplerInv /\ CountInv /\ dbUp \in BOOLEAN
  <2>1. ApiInit => Running = {}
    BY DEF ApiInit, Running
  <2>2. ApiInit => SamplerInv
    BY CacheInitially DEF ApiInit, SamplerInv, Callers
  <2>3. QED
    BY <2>1, <2>2, FS_EmptySet DEF ApiInit, CountInv, StreamsCounted, Running
<1>2. SamplerInv /\ CountInv /\ dbUp \in BOOLEAN /\ [ApiNext]_apiVars
      => SamplerInv' /\ CountInv' /\ (dbUp \in BOOLEAN)'
  <2>1. ASSUME dbUp \in BOOLEAN, [ApiNext]_apiVars PROVE (dbUp \in BOOLEAN)'
    BY <2>1 DEF ApiNext, Clock, Database, SamplerStarts, SamplerGets, SamplerFails, Query,
                Route, Accept, Begin, Abandon, SendOwn, StreamRaises, Disconnect, apiVars
  <2>2. QED
    BY <2>1, SamplerStep, CountStep
<1>3. SamplerInv /\ CountInv /\ dbUp \in BOOLEAN => ApiTypeOK
  <2> SUFFICES ASSUME SamplerInv, CountInv, dbUp \in BOOLEAN PROVE ApiTypeOK
    OBVIOUS
  <2>1. sse_clients \in Nat
    <3>1. IsFiniteSet(Running) /\ sse_clients = Cardinality(Running)
      BY ApiAssumption, FS_Subset DEF CountInv, StreamsCounted, Running
    <3>2. QED
      BY <3>1, FS_CardinalityType
  <2>2. store # Null => store.at \in 0..now /\ store.value.readAt \in 0..now
    BY DEF SamplerInv, CacheInv, Value
  <2>3. QED
    BY <2>1, <2>2 DEF SamplerInv, CacheInv, CountInv, ApiTypeOK
<1>4. QED
  BY <1>1, <1>2, <1>3, PTL DEF ApiSpec

LEMMA BlobTypes == BlobSpec => []BlobTypeOK
<1>1. BlobInit => BlobTypeOK
  <2> SUFFICES ASSUME BlobInit PROVE BlobTypeOK
    OBVIOUS
  <2>1. 1 \in 1..MaxDays /\ started \in 1..day /\ last_history_day \in 0..day
    BY PublisherAssumption DEF BlobInit
  <2>2. blob.day \in 0..day /\ blob.slices \subseteq HistoryKeys
    BY DEF BlobInit
  <2>3. passed \in BOOLEAN
    BY DEF BlobInit
  <2>4. QED
    BY <2>1, <2>2, <2>3 DEF BlobInit, BlobTypeOK
<1>2. BlobTypeOK /\ [BlobNext]_blobVars => BlobTypeOK'
  <2> SUFFICES ASSUME BlobTypeOK, [BlobNext]_blobVars PROVE BlobTypeOK'
    OBVIOUS
  <2> USE DEF BlobTypeOK
  <2>0. MaxDays \in Nat /\ day \in Nat /\ day >= 1
    BY PublisherAssumption
  <2>1. CASE Time
    <3>1. /\ day' \in 1..MaxDays /\ started' \in 1..day' /\ last_history_day' \in 0..day'
          /\ blob'.day \in 0..day' /\ blob'.slices \subseteq HistoryKeys
          /\ UNCHANGED <<at, attempt>>
      BY <2>0, <2>1 DEF Time
    <3>2. due' \in BOOLEAN
      BY <2>1 DEF Time
    <3>3. passed' \in BOOLEAN
      BY <2>1 DEF Time
    <3>4. QED
      BY <3>1, <3>2, <3>3
  <2>2. CASE StartUp
    BY <2>0, <2>2 DEF StartUp, PublishHistory
  <2>3. CASE History
    BY <2>0, <2>3 DEF History, PublishHistory, DayAfter
  <2>4. CASE Restart \/ PublishLive \/ QueryRaises \/ Wake
    BY <2>4 DEF Restart, PublishLive, QueryRaises, Wake
  <2>5. CASE UNCHANGED blobVars
    BY <2>5 DEF blobVars
  <2>6. QED
    BY <2>1, <2>2, <2>3, <2>4, <2>5 DEF BlobNext
<1>3. QED
  BY <1>1, <1>2, PTL DEF BlobSpec

(* The page: what is a flag, and what is not.                              *)
Flags ==
    /\ sunset \in BOOLEAN /\ api \in BOOLEAN /\ vercel \in BOOLEAN /\ source \in BOOLEAN
    /\ stallTimer \in BOOLEAN /\ pollTimer \in BOOLEAN /\ reconnect \in BOOLEAN
    /\ disposed \in BOOLEAN

Shows ==
    /\ mode \in {"live", "polling", "frozen"} /\ inFlight \in {"none", "poll", "freeze"}
    /\ failures \in 0..2

LEMMA FlagsStep ==
  ASSUME Flags, PageNext
  PROVE  Flags'
<1> USE DEF Flags
<1>1. CASE ApiTurns \/ VercelTurns \/ Snap
  BY <1>1 DEF ApiTurns, VercelTurns, Snap
<1>2. CASE SseFails
  BY <1>2 DEF SseFails, StartPolling
<1>3. CASE Timers
  BY <1>3 DEF Timers, Reconnect, Stall, PollAgain, StartSse, StartPolling
<1>4. CASE Answers
  BY <1>4 DEF Answers, PollAnswers, PollFails, Freeze, FreezeFails, StopPolling
<1>5. CASE Dispose
  BY <1>5 DEF Dispose
<1>6. QED
  BY <1>1, <1>2, <1>3, <1>4, <1>5 DEF PageNext

LEMMA ShowsStep ==
  ASSUME Shows, PageNext
  PROVE  Shows'
<1> USE DEF Shows
<1>0. FailedOnce \in 0..2
  BY DEF FailedOnce
<1>1. CASE ApiTurns \/ VercelTurns \/ Snap \/ Dispose
  BY <1>1 DEF ApiTurns, VercelTurns, Snap, Dispose
<1>2. CASE SseFails
  BY <1>0, <1>2 DEF SseFails, StartPolling
<1>3. CASE Timers
  BY <1>3 DEF Timers, Reconnect, Stall, PollAgain, StartPolling
<1>4. CASE Answers
  BY <1>0, <1>4 DEF Answers, PollAnswers, PollFails, Freeze, FreezeFails, Shown
<1>5. QED
  BY <1>1, <1>2, <1>3, <1>4 DEF PageNext

LEMMA PageTypes == PageSpec => []PageTypeOK
<1>1. PageInit => Flags /\ Shows
  <2>1. PageInit => Flags
    BY DEF PageInit, Mounted, Flags
  <2>2. PageInit => Shows
    BY DEF PageInit, Mounted, Shows
  <2>3. QED
    BY <2>1, <2>2
<1>2. Flags /\ Shows /\ [PageNext]_pageVars => Flags' /\ Shows'
  <2>1. Flags /\ Shows /\ UNCHANGED pageVars => Flags' /\ Shows'
    BY DEF pageVars, Flags, Shows
  <2>2. QED
    BY <2>1, FlagsStep, ShowsStep
<1>3. Flags /\ Shows => PageTypeOK
  BY DEF Flags, Shows, PageTypeOK
<1>4. QED
  BY <1>1, <1>2, <1>3, PTL DEF PageSpec

LEMMA DailyTypesAlways == DailySpec => []DailyTypeOK
<1>1. DailyInv => DailyTypeOK
  BY DEF DailyInv, DailyTypes
<1>2. QED
  BY <1>1, DailyInvariant, PTL

(* What was exported, listed and loaded is a run there was.                *)
LakeTypes ==
    /\ LakeInv /\ configured \in BOOLEAN /\ azure \in BOOLEAN /\ Len(runs) <= MaxRuns
    /\ export \in {0} \cup DOMAIN runs /\ csv \in {0} \cup DOMAIN runs
    /\ gold \in {0} \cup DOMAIN runs
    /\ done \in {"none", "failed", "skipped", "built"}

LEMMA LakeTypesAlways == LakeSpec => []LakeTypeOK
<1>1. LakeInit => LakeTypes
  BY LakehouseAssumption
     DEF LakeInit, LakeTypes, LakeInv, OneBuild, ExportIsNewest, OwnBuild, LoadsItsOwnBuild
<1>2. LakeTypes /\ [LakeNext]_lakeVars => LakeTypes'
  <2> SUFFICES ASSUME LakeTypes, [LakeNext]_lakeVars PROVE LakeTypes'
    OBVIOUS
  <2> USE DEF LakeTypes
  <2>0. Len(runs) \in Nat /\ DOMAIN runs = 1..Len(runs)
    BY DEF LakeInv
  <2>1. ASSUME NEW r \in DOMAIN runs, Export(r) \/ Finish(r) \/ Fail(r) PROVE LakeTypes'
    <3>1. LakeInv'
      BY <2>1, BuildStep
    <3>2. DOMAIN runs' = DOMAIN runs /\ Len(runs') = Len(runs)
      BY <2>1 DEF Export, Finish, Fail, LakeInv
    <3>3. export' \in {0} \cup DOMAIN runs /\ UNCHANGED <<configured, azure, csv, gold, done>>
      BY <2>1 DEF Export, Finish, Fail, jobVars
    <3>4. QED
      BY <3>1, <3>2, <3>3
  <2>2. CASE RunNow
    <3>1. LakeInv'
      BY <2>2, JobStep
    <3>2. Len(runs') = Len(runs) + 1 /\ DOMAIN runs' = 1..(Len(runs) + 1)
      BY <2>0, <2>2 DEF RunNow, LakeInv
    <3>3. Len(runs) < MaxRuns /\ UNCHANGED <<configured, azure, export, csv, gold>>
          /\ done' \in {"none", "failed", "skipped", "built"}
      BY <2>2 DEF RunNow, Fails
    <3>4. QED
      BY <2>0, <3>1, <3>2, <3>3, LakehouseAssumption
  <2>3. CASE \/ Deploy \/ StartJob \/ TriggerFails \/ Poll \/ PollRaises
             \/ ListParts \/ Download \/ UpsertGold
    <3>1. LakeInv'
      BY <2>3, JobStep
    <3>2. UNCHANGED <<runs, export>> /\ csv' \in {csv, export} /\ gold' \in {gold, csv}
          /\ configured' \in BOOLEAN /\ azure' \in BOOLEAN
          /\ done' \in {"none", "failed", "skipped", "built"}
      BY <2>3 DEF Deploy, StartJob, TriggerFails, Poll, PollRaises, ListParts, Download,
                  UpsertGold, Overwritten, Fails, jobVars
    <3>3. QED
      BY <3>1, <3>2
  <2>4. CASE UNCHANGED lakeVars
    BY <2>4 DEF lakeVars, jobVars, LakeInv, OneBuild, Active, ExportIsNewest, OwnBuild,
                LoadsItsOwnBuild
  <2>5. QED
    BY <2>1, <2>2, <2>3, <2>4 DEF LakeNext
<1>3. LakeTypes => LakeTypeOK
  BY DEF LakeTypes, LakeInv, LakeTypeOK, RunStates
<1>4. QED
  BY <1>1, <1>2, <1>3, PTL DEF LakeSpec

LEMMA BackupTypes == BackupSpec => []BackupTypeOK
<1>1. BackupInit => BackupTypeOK
  BY BackupAssumption DEF BackupInit, BackupTypeOK, Nights, Sizes
<1>2. BackupTypeOK /\ [BackupNext]_backupVars => BackupTypeOK'
  <2> SUFFICES ASSUME BackupTypeOK, [BackupNext]_backupVars PROVE BackupTypeOK'
    OBVIOUS
  <2> USE DEF BackupTypeOK, Nights, Sizes
  <2>1. CASE Night
    BY <2>1, BackupAssumption DEF Night
  <2>2. CASE StartBackup \/ PgDump \/ PgDumpBreaks
    BY <2>2, BackupAssumption DEF StartBackup, PgDump, PgDumpBreaks
  <2>3. CASE PgDumpFails \/ Upload
    BY <2>3 DEF PgDumpFails, DumpRaises, Upload, Unlink
  <2>4. CASE UNCHANGED backupVars
    BY <2>4 DEF backupVars
  <2>5. QED
    BY <2>1, <2>2, <2>3, <2>4 DEF BackupNext
<1>3. QED
  BY <1>1, <1>2, PTL DEF BackupSpec

(* The services side by side are each a behaviour of its own module, so    *)
(* that what is proved of one holds of it here as well.                    *)
LEMMA EachServiceIsItself ==
  Spec => ApiSpec /\ BlobSpec /\ PageSpec /\ DailySpec /\ LakeSpec /\ BackupSpec
<1>1. Init => ApiInit /\ BlobInit /\ PageInit /\ DailyInit /\ LakeInit /\ BackupInit
  BY DEF Init
<1>2. [Next]_vars => /\ [ApiNext]_apiVars /\ [BlobNext]_blobVars /\ [PageNext]_pageVars
                     /\ [DailyNext]_dailyVars /\ [LakeNext]_lakeVars /\ [BackupNext]_backupVars
  BY DEF Next, vars, ApiMoves, BlobMoves, PageMoves, DailyMoves, LakeMoves, BackupMoves
<1>3. QED
  BY <1>1, <1>2, PTL
     DEF Spec, ApiSpec, BlobSpec, PageSpec, DailySpec, LakeSpec, BackupSpec

(* Every value the API, the publisher, the page and the batch jobs keep    *)
(* stays what the code means it to be.                                     *)
THEOREM ServicesTypes == Spec => []TypeOK
<1>1. /\ ApiTypeOK /\ BlobTypeOK /\ PageTypeOK /\ DailyTypeOK /\ LakeTypeOK /\ BackupTypeOK
      => TypeOK
  BY DEF TypeOK
<1>2. QED
  BY <1>1, EachServiceIsItself, ApiTypes, BlobTypes, PageTypes, DailyTypesAlways,
     LakeTypesAlways, BackupTypes, PTL

=============================================================================
