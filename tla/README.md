# SkyNYC: specifications, model checks and proofs

TLA+ modules for the program in `src/`: a pipeline that turns ADS-B position
reports over New York into arrivals, go-arounds and holdings, stores them in
Postgres, and serves them. The modules are translated from the code; where a
comment or a doc disagrees with the code, the code is modelled and the
disagreement is a checked violation (see *Findings*).

`tlc -config X.cfg M` checks a run, `tlapm M.tla` checks a proof module. The
list of runs, mutants, mapped source lines, hazards and theorems is
`PROJECT.json`.

## 1. Inventory

Data flow: two producers poll public APIs and publish to Kafka
(`adsb.states.raw`, `wx.observations`, `wx.alerts`); one Spark application runs
three streaming queries over the first topic (bronze archive, live positions,
events); a consumer writes the weather topics to Postgres; the API reads
Postgres, streams snapshots to browsers and publishes fallback blobs; Dagster
runs the daily batch over the same tables.

| Component (`src/`) | State | Operations | Talks to | Hard behaviour | What makes it correct |
|---|---|---|---|---|---|
| Detector engine `streaming/detectors/` | per aircraft: ring of 20 samples, flags (last arrival and go-around per field, the open hold) | `process` on a batch, on a timeout; gap reset; three detectors | called by the events query | batching, late samples, silences against timeouts, dedupe memory that dies with the contact, exceptions | the ring is one contact; every landing and short final is reported, none twice in a contact; a go-around is a balked landing; a hold is flown, recent while open, reported when closed |
| Spark application `streaming/spark_app.py`, `sinks/pg.py` | three checkpoints (offsets, group states, keys and watermark), `live_states`, `flight_events`, the bronze archive | trigger, run, sink, commit; restart; replay runbook | Kafka, Postgres, storage | crash between the sink and the commit, batches run again, backlog in bounded batches, checkpoint deleted or not, late and repeated messages | crashes invisible in the tables; no message skipped; rows only of landings that are in the topic; positions never move backwards; each report archived once, and lost only when late |
| OpenSky producer `producers/opensky_producer.py`, `common/` | token and its refresh time, backoff interval, client queue | poll cycle, 401 retry, 429 and 5xx handling, credit guard, stop | OpenSky, Kafka | token expiry in a cycle, retry once, repeated failure, duplicate delivery, exceptions at several depths | never dies on a bad poll; a token that expired costs one poll at most |
| Weather producer `producers/weather_producer.py` | last observation per station, signature per alert, two deadlines | poll, dedupe, publish | NWS, Kafka | marked as seen before it was delivered; one station's exception skips the rest; restart forgets | every change is published at least once |
| Weather consumer `consumers/weather_to_pg.py` | connection, position, `_running` | poll, upsert, commit, reconnect, shutdown | Kafka, Postgres | crash between upsert and commit, outage, shutdown in an outage, poison messages | at least once and idempotent; commits never ahead of the upsert |
| API `api/main.py`, `cache.py`, `queries_*.py` | latest snapshot, streams per address, TTL caches | sampler tick, SSE stream, cached queries | Postgres, browsers | check and count apart, misses racing, failing tick | a hit is younger than the time to live; what the streams share never goes back; the count of streams is exact |
| Blob publisher `api/blob.py` | day of the last history publication | live and history PUTs | blob store | a raising snapshot ends the loop, failed history retried | the fallback stays fresh |
| Web client hook `web/lib/useLive.ts` | stream, timers, failure count, mode; `SUNSET_DATE` of the build | SSE, stall, reconnect, polling, freeze, unmount | API, blob store | callbacks racing with timers and answers | in a live build something is always armed; no stream and no stall or poll timer after unmount; frozen in the end when the API is gone |
| Web components `web/` | filters in the URL | rendering | the hook | none to model | |
| Dagster `orchestration/` | run queue, run keys, `arrivals_ground_truth`, `gold_airport_day_delay`, dumps | ground truth pull, quality report, backup, Databricks trigger and poll, gold load, dbt | OpenSky, Databricks, Postgres, Azure | data that is late, runs in a queue, a Databricks run that outlives its Dagster job | the window heals late days; the report sees the morning's pulls; a job loads its own build; a dump stays whole |
| dbt marts `dbt/` | none (SQL) | precision and recall, hourly facts | Postgres | matching events with ground truth within windows | no score from a sliver of ground truth |
| Databricks jobs `databricks/` | Delta tables, the CSV export | bronze, silver, gold | storage | the export is deleted before it is rewritten | |
| Deployment, dashboards, scripts, report | configuration | | | | |

## 2. Plan

Most important behaviour first; each step is a group of modules with its runs.

1. **Detector engine** (done): `DetectorCommon`, `Arrival`, `GoAround`,
   `Holding`, `EngineCall`, `DetectorEngine`; proofs in `EngineCallProofs` (one
   iteration), `DetectorEngineProofs` and `DetectorHistoryProofs`.
2. **Events query** (done): `EventsBatch` composes the engine with the sink,
   `EventsQuery` composes batches with checkpoint, crashes and replay, and
   implements the abstract `EventsOnce`; proofs in `EventsQueryProofs`.
3. **Weather** (done): `WeatherProducer`, `WeatherTopic` and `WeatherConsumer`
   composed in `WeatherFlow`; proofs in `WeatherFlowProofs`.
4. **Ingest** (done): `OpenSkyProducer` and, behind the topic of
   `StatesTopic`, `LiveQuery` and `BronzeQuery` on the steps of `MicroBatch`;
   proofs in `IngestProofs`.
5. **Services** (done): `Api`, `BlobPublisher`, `LivePage`, `DailyBatch`,
   `Lakehouse`, `Backup`; proofs in `ServicesProofs`.
6. **Proofs of every safety property a run checks** (done). Left to add:
   `HoldingWasFlown` on late feeds, which needs that a sample more does not make
   a turn smaller.

Possible extensions: two addresses and the rate limiter in `Api`, the credit
guard of the producer, and the precision and recall of the quality mart as an
operator checked against a definition over small tables.

## 3. The detector engine

### Modules

* `DetectorCommon`: a sample, distances, the ring and how a sample enters it.
* `Arrival`, `GoAround`, `Holding`: each detector's `check` and `on_timeout` as
  operators from a ring and a flag to what is found and the flag it leaves.
  The thresholds are those of the code; the windows in seconds are constants.
* `EngineCall`: one iteration of the loop of `process()` (gap reset with its
  timeout events, the sample into the ring, the three detectors), `_timeout_events`,
  and when a detector raises.
* `DetectorEngine`: the state machine. `ApplySample` is one iteration of the
  loop with everything it changes; `Return` ends the call; `Timeout` is
  `process(timed_out=True)`; `RaiseOnSample` a call ended by an exception;
  `NothingToDo` a call that returns early. A batch is not chosen in advance: a
  call is any run of `ApplySample` steps in ts order, so all batchings of a feed
  are behaviours. `heard`, `contact`, `events` and `dropped` are history for the
  properties.

What is abstracted: the earth is a line of whole kilometres (the code only
compares distances with thresholds and with each other); tracks are whole
degrees; the ring is a set, since the code's list is sorted and has one sample
per ts; the event id is type and window start instead of their hash (with the
aircraft, and per aircraft); callsigns, the JSON of the state blob and the event
details other than the confirmation are left out, as is `cum_deg`, which only
feeds the details.

### Runs

A tick of ts is the 30 to 60 s between two reports of a sparse feed. The windows
are scaled, keeping what the detectors of a run depend on: the order of the
code's own values, and that a full ring at the largest spacing outlasts the dedupe
(19 * 90 s > 1200 s). Six or seven ticks hold what can go wrong: an approach, a
landing, the dedupe running out, a silence and a second contact. Every run is of a
feed in order (`LateBy` 0): late samples are the matter of the theorems below.

| Run | Question | Instance |
|---|---|---|
| `approach` | types; ring of one contact; arrivals spaced; no landing or short final missed; go-arounds are balked landings and found once; no parked aircraft arrives | finals, climbs and ground contact at two fields, MaxTs 5, gaps, one timeout |
| `holding` | an open hold is recent, a reported one was flown, a closed one is reported | racetrack legs near and far, reports without a track, 7 ticks, one timeout |
| `hold_twice`, `null_track`, `window_start` | what comments say and the code does not do | see *Findings* |

`holding` and `hold_twice` switch the deadlock check off: a detector that
raised ends the engine (the application dies; `EventsQuery` restarts it).
Elsewhere the engine can always be called again.

`LandingReported` and `ShortFinalReported` say that a landing has an arrival *no
older than the dedupe*, because the code means to suppress a second one.

### Proofs (`EngineCallProofs`, `DetectorEngineProofs`, `DetectorHistoryProofs`)

For every feed, batching, set of fields, and value of the windows and bounds:

* `EngineTypes`: `[](TypeOK /\ Ring)`. The types need that `Newest`, `Oldest`
  and `NearestAirport` choose real elements, hence the lemmas that bounded
  non-empty sets of times have a least and a greatest one.
* `RingIsAlwaysOneContact`: assumes `LateBy <= GapResetS`. The invariant is
  `Contiguous`, relative to the newest sample; appending keeps it because the
  gap test compares with the newest sample and `TrimRing` only forgets from the
  old end. Without the assumption it is false: a sample older than the oldest by
  more than the gap is put into the ring as it is.
* `ArrivalsAlwaysSpaced`: `ArrivalsSpaced` is not inductive; the strengthening
  `SpacedInv` says that each mark covers every arrival of the current contact at
  its field (the mark is at or after it). No assumption on lateness: the code
  compares with the mark, not with the clock.
* `OpenHoldAlwaysRecent`, `ClosedHoldAlwaysReported`: from `HoldInv`, an open
  hold started before its last turn, so that `_close` never finds the zero
  duration for which it reports nothing.

`DetectorHistoryProofs` compares what was found with all that was heard. Each
invariant relates the ring, which forgets, to the history, which does not:

* `ShortFinalAlwaysReported`, for every feed, late or not. `FinalsFound`: the
  contacts before the present one have their arrivals; the step needs that the
  newest sample heard in this contact is the newest of the ring (`HeardInv`),
  and that a mark which suppresses an arrival stands for one (`BackedInv`).
* `LandingAlwaysReported`, feeds in order. `LandingsFound`, by contact; a landing
  is seen when its ground sample is the newest, which `LateBy = 0` makes of every
  sample. With samples two ticks late TLC finds a landing that is missed: the
  airborne sample arrives after the ground contact it precedes.
* `GroundArrivalWasAlwaysAirborne`, if `LateBy <= GapResetS`. `AirborneBefore`
  has a chain of samples, each within the gap of the next, from an airborne one to
  the ground contact; a later sample may fall into the chain but not break it.
  TLC refutes it for samples later than the gap.
* `GoAroundWasAlwaysBalked`, feeds in order. `BalkedInv` keeps for each go-around
  the samples that prove it. With late samples TLC refutes it: a report that
  arrives later may fall among them.
* `GoAroundAlwaysFoundOnce`, feeds in order. `AllRemembered`: the mark is at or
  after every go-around of the contact, and the ring has no descent between that
  towards another field. With late samples TLC refutes it: two descents at
  different fields that arrive after the climb give two go-arounds one event id.
* `HoldingWasAlwaysFlown`, feeds in order. `FlownInv`: the open hold and every
  reported one have the window that opened them. TLC finds no counterexample on
  late feeds: a sample that falls into a turn does not make it smaller. That is
  an induction over the sum of the turn, which the prover cannot do, hence the
  assumption.

`LateBy = 0` is the usual feed: one producer publishes its answers one after the
other, and `process` sorts a batch. A sample comes late when an answer is older
than the one before, or a message is delivered after newer ones and in a later
batch.

Assumptions are the named `ASSUME`s of the modules: thresholds are definitions,
windows natural numbers (the dedupe times positive), `Null` is none of the values
it stands in for.

## 4. The events query

### Modules

* `EventsBatch`: `detect_events` for every aircraft of a batch (messages
  filtered, sorted, applied with `EngineCall`; a timed-out group closed) and the
  upsert's effect on `flight_events`.
* `EventsQuery`: `Publish` is the producer; `Start`, `Plan`, `RunBatch`, `Sink`,
  `Commit` are the application (`Advance`); `Crash` may come between any two of
  them; `DeleteCheckpoint` and `SetReplayFrom` are the two halves of the replay
  runbook. Spark is external: a batch's offsets and timed-out groups are logged
  before it runs and run again after a restart, and offsets and group states
  advance on commit.
* `EventsOnce`: the abstract specification. A batch is detected and written in
  one step; there are no crashes, only checkpoints that begin and are lost. `EventsQuery` implements it
  (`DetectedExactlyOnce`) with the mapping: a batch counts as consumed from its
  first `Sink` on.

What is abstracted: the 90 s timer of Spark's clock (any group with state may be
timed out by any batch, whether it has messages or not; messages win, as in the
code); partitions (aircraft are keyed, and per-aircraft order is what the code
relies on); the topic contains each report once and is in ts order.

### Runs

| Run | Question | Instance |
|---|---|---|
| `events` | is a run with crashes, a deleted checkpoint and a replay an exactly-once run from where each checkpoint begins? is every landing in the table in the topic? is every message consumed in the end? types | two aircraft, 3 messages, batches of up to 2, a crash and a reset |
| `events_replay` | is one landing one row after a replay? (no) | one aircraft, 3 messages |

Three messages and batches of two put the landing of one aircraft into the batch
after its approach, with the other aircraft's report in either; the crash comes
before, between or after the two, and the checkpoint is lost with the batch
planned, run or written. Deadlock checks are off because a topic at its bound
that is fully consumed has nothing left to do.

Fairness: Spark's trigger fires for as long as the application runs and Docker
restarts it (`restart: unless-stopped`, `docker-compose.yml`), which is
`WF(Start \/ Plan \/ Sink \/ Commit)`; a batch that was planned is run unless
the application dies first, which is `WF(BatchRunOrLost)` and is stated of the
phase alone, as `RunBatch` computes a whole batch. Neither the producer, crashes
nor the operator are fair; crashes are bounded, as an application that always
dies makes no progress.

### Proofs (`EventsQueryProofs`)

`CrashesAreInvisible`: `Spec => Once!Spec`, for every topic, batch size and
number of crashes, and of checkpoints deleted: `EventsOnce` lets a fresh
checkpoint begin anywhere with no group states, and nothing else forget.
`RecoveryInv` says that whatever was computed or written is the result of the
planned batch *as it would be computed again now*, and that upserting it again
changes nothing; the second part rests on `UpsertTwice`, the idempotence of
`ON CONFLICT ... DO UPDATE`. The proof uses nothing of what the detectors do but
that they are a function of state, messages and expired groups, which is the
code's requirement that `process` be deterministic.

`EventsTypes` and `LandingsAreInTheTopic` do look into the detectors. `Process`
sorts what has a position (`InTsOrder`) and applies it with a recursive function
(`Turns`). Its value at every length exists and is one outcome (`TurnsExist`,
`TurnsAre`); that it keeps the types and what the landing needs follows from the
same facts about one iteration that the engine's proofs use, taken from 0 to the
length by least counterexample (`NatMin`). `TopicInv`: the ring of a group state
is made of messages the checkpoint is past; the topic is in ts order; and a row of
the table has its samples in the topic, also when an upsert replaced its details
(`RowInTopic`). It was checked with TLC on one aircraft, five messages and batches
of three before it was proved.

`LandingIsInTheTopic` promises no more than the code does. The airborne sample
whose ts is in the row's id is in the topic, and the ground sample behind it; the
latter is at or after the row's `event_ts` *if no checkpoint was deleted*.
`upsert_flight_events` replaces the details of a row and keeps its `event_ts`. A
landing that the dedupe suppressed, and after it a loss of coverage whose window
starts at the same sample, give a row of the loss; a replay that starts too late
to see what suppressed the landing reports it under the same id. The row then has
the details of the landing and the time of the loss. The instance of the run is
too small for this; TLC shows it with one aircraft and five messages.

## 5. The weather flow

### Modules

* `WeatherTopic`: keys, messages and the two topics, which producer and consumer
  share.
* `WeatherProducer`: a pass over the alerts, the observations or both
  (`StartPass`, one `PollKey` per key with the dedupe), requests that fail
  (`PollFails`), answers that raise and skip the rest of the pass
  (`PollRaises`), the client's queue (`Deliver`, `DeliverTwice`,
  `DeliveryFails`), and a restart that forgets (`ProducerCrash`).
* `WeatherConsumer`: the loop of `main()` by its places in the code (`at`):
  `Connect` is `connect_pg` at start-up and in a retry, `Poll` includes the
  counted drop of a garbled message, `Write`, `WriteFails` and `GiveUp` are the
  arms of the inner loop, `Commit` hands the offset to the client and
  `CommitSent` is the client sending it. `Stop` is SIGTERM, at any place.
* `WeatherFlow` composes them; each moves alone.

What is abstracted: a signature stands for the payload, so parsing is not
modelled; an airport has one alert and one request per key; deadlines, backoff
and sleeps only delay; the client keeps the order of its queue (a retry that
overtakes a newer message is a hazard without a property). An observation's row
includes its time in the key and stays; an alert's row is replaced.

### Run

`weather`: an alert and a station, two signatures, two changes of the weather
and two failures in all, of any kind and anywhere. Two failures reach their
pairs: a shutdown in an outage, a crash while catching up after a crash, a
message lost before a restart. Two changes let an old alert be read again over
a newer one.

* `CommitNeverAhead`: a committed message has its row. For an alert the row may
  be of a later message: after a restart old messages are applied again, and
  the table may go back for a while, to no earlier than what is committed.
* `ChangesNotHeartbeats`: a topic repeats itself at most once per failure that
  makes the producer forget or the client send again.
* `TableFollowsSource`: in the end the tables show the weather. Excepted is a
  key whose last message the client gave up: the producer had marked it as seen
  (`weather_producer.py:100`, `:138`) and publishes nothing until the next
  change or restart.

Fairness: `PollKey` and `ConsumerStep` are loops that go on and processes that
Docker restarts; the client works off its queue; Postgres comes back. The
deadline of each topic recurs (`OBS_PERIOD_S`, `ALERTS_PERIOD_S`), but whether
a pass can start depends on the pass before, hence `SF` for `StartPass`. The
client need not send what was handed to `commit()` (`CommitSent` is not fair):
without it the tables still follow, they are only written again after a restart.

### Proofs (`WeatherFlowProofs`)

`CommitNeverAheadOfTables` and `WeatherTypes`: for every set of keys and every
number of failures and changes. `FlowInv` says how far the consumer is through
with each topic (`Done`: the message in hand does not count until it is
written), that offsets to commit stay at or below that (`OffsetsOK`), and that
everything done has its row (`RowsOK`). `CommitNeverAhead` alone is not
inductive: an offset handed over but not sent needs the same promise, and an
alert that is read again would overwrite a newer one that others rely on, which
is harmless only because everything done is at or before the message in hand.
That a key is only in its own topic (`InItsTopic`) is needed for the same step.

`TopicsCarryChanges` (`ChangesNotHeartbeats`). `RepeatsOK` is about all that was
handed to the client, delivered or not: the heartbeats in it, and one more for a
key whose last message is not what the producer remembers, are at most `repeats`.
A lost message or a doubled one then changes the count by one at most, which is
shown by an injection between the repetitions before and after (`OneMore`). It was
checked with TLC with three failures. It needs that `Null`, which stands for
nothing seen yet, is no signature and no key.

## 6. Ingest: the OpenSky producer, the live and the bronze query

### Modules

* `StatesTopic`: a message of `adsb.states.raw` and the topic. `Published` is
  what the queries make of the producer: any message may be next, late, repeated
  or reordered, which covers the producer's retried and re-polled reports.
* `OpenSkyProducer`: `main()` by its places (`pc`): the token
  (`GetHeld`, `Refresh`, `RefreshFails`), the request with its 401
  (`Unauthorized` invalidates and tries once more, `RequestFails`, `Answered`),
  the messages (`Publish`, or `PublishRaises` in the middle of them), `Flush`,
  `BackOff`, `Sleep`; the client's queue (`Deliver`, `DeliverTwice`,
  `DeliveryFails`); `Revoke` is OpenSky no longer accepting the token; `Stop`
  and `ProducerCrash`.
* `MicroBatch`: what the two queries share: start, plan, sink, commit, and a
  failure of either that ends both (`Die`).
* `LiveQuery`: the latest row per aircraft of a batch, then the rows without a
  position dropped, then the guarded upsert of `sinks/pg.py`, in that order.
* `BronzeQuery`: watermark, deduplication within it, and files written once per
  batch.

What is abstracted: all time of the producer. A sleep ends, whatever its length,
and a token may come due at any moment; with it goes what only changes the length
of a sleep: the credit guard, Retry-After and the poll interval. An answer
without a time (`api_ts` 0) is left out: Spark's watermark starts there and the
archive never gets such a row.

### Run

`ingest`: the producer and the queries meet in the topic only, so one of three
moves, the producer, the live query or the bronze query, the last two behind a
topic that anything fills. Two aircraft, three `api_ts`, two `poll_ts` (their
orders may disagree), three messages in batches of up to two, two faults: a
report, a newer and an older one, over a batch that is run again. Deadlock is
not checked: a bounded topic that is consumed has nothing left to do, nor has a
producer that was stopped.

* `OneRevocationOnePoll`: however often tokens are revoked, not more polls end
  with a 401, as the retry is with a fresh token.
* `Polls`: the producer publishes an answer and comes to the flush behind it,
  again and again, or is stopped. Fairness is `WF` of the steps of the loop
  (`MainStep`), which does nothing else and is restarted by Docker; failures are
  bounded, as a source that always fails is never polled. When the vectors of the
  bound are used up the answers are empty.
* `HiddenOnlyByPositionless`: a position that was consumed is in `live_states`,
  or a newer one is. The exception is stated in the property: the code chooses
  the latest row first, so a newer row without a position hides it.
* `NeverBackwards`: no row goes back in `api_ts` or leaves the table.
* `BronzeOnce`, `BronzeLosesOnlyLate`: the archive has a report once, and
  misses only what came later than the watermark allows. Three messages are too
  few for a duplicate whose key the watermark has passed; that such a one is
  refused as late rests on the theorem `BronzeArchivesOnce`.

### Proofs (`IngestProofs`)

For every set of aircraft, bound of the times, length of the topic, batch size,
delay and number of failures. `Null` is assumed to be neither a message nor an
integer, the limit of a batch to be positive and the delay not negative.

* `RevocationsCostOnePoll` (`OneRevocationOnePoll`). A second attempt begins
  without a token, so one it finds refused was revoked since, and that revocation
  is not yet paid: `unauthorized < revoked` there (`TokenInv`).
* `PositionsNeverBackwards` (`NeverBackwards`). Per aircraft, `UpsertedRow`: the
  batch makes of a row what `Upserted` makes of it for one message, and that
  never lowers `api_ts`.
* `HiddenOnlyBehindPositionless` (`HiddenOnlyByPositionless`). The property
  alone is not inductive: a batch whose rows are in the table and that is not
  committed must already satisfy it (`ShownInv`). The step needs that a batch
  with an aircraft has a latest row of it (`LatestExists`).
* `BronzeArchivesOnce` (`BronzeOnce`). `BronzeInv`: complete files are those the
  planned batch would be given now, as they depend on checkpointed state alone
  (`SameBatch`); and what earlier batches archived is `Settled`, remembered or
  behind the watermark, which expiry keeps so (`CommitSettles`).
* `BronzeKeepsTheRest` (`BronzeLosesOnlyLate`). `LossInv` adds that a remembered
  key is archived and that the watermark stands where a consumed message moved it.
* `IngestTypes` (`TypeOK`), for the three processes together. The producer's
  types need that a publication is of an answer (`AnswersAreMessages`), the
  topic's that it only grows.

Facts about sets of naturals shared by the proof modules are in `NatSetProofs`.

## 7. Services

One run, `services`, in which one of six parts moves at a time: they share no
state that a property depends on. Deadlock is not checked: each stops at a
bound of its own.

* `Api` (`api/cache.py`, `api/main.py`): a call of `live_snapshot` is the three
  steps of `wrapped()`: look (`CallHits`, `CallMisses`), query outside the lock,
  store. Callers are the sampler, a route, and streams that have no shared
  snapshot yet. A stream is accepted, counted when its generator begins and
  uncounted in its `finally`. The instance has a route and two streams of one
  address, a limit of one, the time to live as long as the sampler's interval
  (2), and three ticks: a call may outlast the time to live. With it
  `HitsAreRecent` (whoever stores last, a hit was read less than the time to live
  ago), `LatestNeverBackwards` (the cache may go back, what the streams share
  does not, because the sampler sleeps an interval *after* each tick), and
  `StreamsCounted`. That streams accepted together exceed the limit is a
  behaviour of the model and contradicts no document.
* `BlobPublisher` (`api/blob.py`): passes of the loop over days of two parts,
  before and after `HISTORY_HOUR_UTC`. `HistoryIsRetried`: a failed publication
  is made good by the next pass. Three days: the start, a failure, a success.
* `LivePage` (`web/lib/useLive.ts`, in TypeScript): the callbacks of stream,
  timers and requests in every order, in both builds there can be. `sunset` says
  which: with `SUNSET_DATE` null the hook starts the stream; with a date, as in
  `api.ts:15` at this commit, it asks for the capture once and starts nothing
  else. `NeverDead`: in a live build something is armed or in flight that will
  call back, unless the page shows the capture or was left. `LeftForGood`: a
  page that was left has no stream and neither a stall nor a poll timer, ever
  again. Two things may outlive it and are not excluded: the reconnect timer,
  which the clean-up does not clear and which finds the page disposed, and a
  poll in flight, which on failing asks for the capture once more. `Freezes`:
  the capture is shown in the end, in a live build when the API is gone for good
  and the capture is there in the end, in an archive when it is there from the
  first. An archive whose one request fails is the finding `page_archive`.
  Fairness: an armed timer fires (`Reconnect`, `Stall`, `PollAgain`) and a
  request ends, as every request has a time-out.
* `DailyBatch` (`definitions.py`, `dagster.yaml`): the schedules fill a queue
  that runs one job at a time; the aggregation of OpenSky makes a day whole
  whenever it likes. `Healed`: a day that was whole before its third and last
  pull is whole in the table after it, unless that pull failed. Four dates are
  the life of one window; the second day moves the queue on.
  `ReportSeesThePulls`: the report is of the newest day with a plausible ground
  truth, with no pull of its morning to come, also when a day leaves runs to the
  next. The detector is taken to have found every arrival. The two schedules of
  a morning, 09:15 and 09:45, are taken to be evaluated in this order: a daemon
  that was down for both and evaluates them in the other order is left out.
* `Lakehouse` (`definitions.py`, `gold_marts.py`, `main.tf`): the trigger with
  lost answers, failed polls and time-outs, a Databricks run that goes on
  without its Dagster job, and the load. `LoadsItsOwnBuild`: a job that succeeded
  loaded a build it started. Excepted are jobs that lacked credentials, which
  the code means to succeed: without those of Databricks the load takes the
  export there is, without those of the storage it loads nothing
  (`definitions.py:258`, `:328`). A deployment sets and forgets either. Three Databricks runs: one given up, one skipped
  because of it, one that succeeds.
* `Backup` (`definitions.py`): the nightly dump, with nights run again.
  `BackupStaysWhole`: a dump that broke replaces none. A process killed in the
  middle leaves its temporary file; the model has no such death.

### Proofs (`ServicesProofs`)

For every value of the constants. A behaviour of `MCServices` is, in the
variables of each part, one of that part (the lemma `EachServiceIsItself`), so that
what is proved of `ApiSpec` and the others holds of the run.

* `ServicesTypes` (`TypeOK`), for the six parts together.
* `HitsAlwaysRecent`, `LatestAlwaysForward`: `CacheInv`, what a call brings was
  read after the start that it is stamped with; `SamplerInv`, a value shared at
  a wake-up is older by an interval than the next call's start. The assumption
  `Ttl <= SSE_INTERVAL_S` is that of the code's constants (5 s and 10 s).
* `StreamsAlwaysCounted` (`CountInv`): by cardinalities, hence a finite set of
  streams.
* `HistoryAlwaysRetried` (`HistoryInv`): a day that is counted as done after the
  day of the start has its blob.
* `PageNeverDead`, `PageLeftForGood` (`PageInv`): in a live build a request is in
  flight only while the poll timer runs, so that its failure still leaves
  something armed; an archive never opens a stream, arms a timer or polls.
* `LateDaysHeal`, `ReportIsNeverEarly`: `DailyInv` has the calendar (what fired,
  fired by today), the queue in the order of the schedules (`PullsFirst`: behind a
  quality run no pull of its morning), and what the pull at work has fetched so far
  (`Fetched`), which `Healed` needs between two airports.
* `JobAlwaysLoadsItsOwnBuild`: `OneBuild`, behind an active build only skipped
  ones were asked for, so that no older build finishes after a newer one
  (`ExportIsNewest`), and the part that was listed is not older than the run that
  was waited for (`OwnBuild`).
* `BackupAlwaysWhole` (`BackupInv`): what is uploaded is a whole dump.

`None` is assumed to be no run at work, and bounds to be at least the first day
and night.

## 8. Findings

| Run | The code | What it says |
|---|---|---|
| `hold_twice` | `holding.py:93` opens a hold again from turns already reported | "emit once, with duration" |
| `null_track` | `holding.py:87` subtracts a null track and raises | nullable fields are "treated as a missing measurement" |
| `window_start` | `arrival.py:61` takes the window start from an earlier approach, so that two landings share an id | "first candidacy sample of the approach" |
| `events_replay` | a replay that starts inside an approach gives the same landing another id | "replays and crash-recovery cannot duplicate rows" |
| `publisher_dies` | `blob.py:118` has no `try` around the query of `publish_live`: one database error ends `publisher_loop` | "live.json — every LIVE_INTERVAL_S" |
| `page_archive` | `useLive.ts:102` with `SUNSET_DATE` set calls `freeze()` once and arms nothing: one failed request leaves the page empty, although the blob store comes back | "keep last state; polling keeps trying" (`useLive.ts:96`) |

`publisher_dies` checks `LivePublishedForEver` under `BlobLoopSpec`, where the
loop takes its next step as long as it has one. `page_archive` checks
`PollingKeepsTrying` under `PageLiveSpec`, the fairness of `services` for the page
alone: the request fails, the blob store comes back, and nothing is left to move.

Known, without a run: `engine.py:106-107` says that emission is identical at any
batch granularity, but `engine.py:154` drops within one call an event with the id
of an earlier one, which two calls return both (two landings that share a
`window_start`, as in the run of that name); `arrival.py:7` promises one arrival per field in 20
minutes, but a reset after a coverage loss forgets the marks, which is why
`ArrivalsSpaced` is about one contact; `spark_app.py:17-18` says that deleting
the checkpoint alone silently does nothing, but a fresh query without
`EVENTS_REPLAY_FROM` starts at the earliest message; `cache.py:3-4` says that a
thundering herd collapses to one round-trip, but misses are not collapsed, only
hits; a page shows `LIVE` by the `freshness_s` of its last snapshot, so a snapshot
that the sampler keeps through a database outage (`main.py:177`, "stale-and-labeled
beats dead") stays `LIVE`; `detection_quality_report` formats a recall with
`%.4f` that is null when the detector watched less than 20 hours.

## 9. What is only model-checked, and what is not modelled

Every safety property and action property of the passing runs is proved.
Model-checked only are `EveryMessageConsumed`, `TableFollowsSource`, `Polls` and
`Freezes`, as liveness under fairness is beyond the prover, and the violations,
which are counterexamples on small instances. `LandingReported`,
`GoAroundWasBalked`, `GoAroundFoundOnce` and `HoldingWasFlown` are proved for
feeds in order, as above. Proved beyond the runs: samples up to `GapResetS` late,
which the runs of the engine do not have.

Not modelled: rendering and the status bar, dashboards, deployment, one-off
scripts, the text of SQL queries without state (`queries_*.py`, most of dbt),
`wx_parsing.py` (a signature stands for its result), the transformations of the
Databricks jobs, the cache of the history bundle in `api.ts`, and third-party
services beyond how the code uses them. Hazards found there are in
`PROJECT.json` with a note.
