---------------------------- MODULE BlobPublisher ----------------------------
(***************************************************************************)
(* The fallback publisher, src/api/blob.py: publisher_loop with a token.   *)
(*                                                                         *)
(* A day has two parts, before and from HISTORY_HOUR_UTC on; a pass an     *)
(* hour means at least one in either.                                      *)
(***************************************************************************)
EXTENDS Naturals

CONSTANTS
    HistoryKeys,
    MaxDays             \* bound: how long the publisher is watched

ASSUME PublisherAssumption == MaxDays \in Nat \ {0}

VARIABLES
    at,                 \* where publisher_loop is; "dead" when it raised
    day, due,           \* now: the day, and whether its HISTORY_HOUR_UTC has passed
    passed,             \* a pass began in this part of the day
    started,            \* the day this process started
    last_history_day,
    blob,               \* history.json: the day it was made, and the slices it has
    \* History:
    attempt             \* publish_history in this pass: "none", "ok", "failed"

blobVars == <<at, day, due, passed, started, last_history_day, blob, attempt>>

BlobInit ==
    /\ at = "start" /\ day = 1 /\ due \in BOOLEAN /\ passed = FALSE
    /\ started = 1 /\ last_history_day = 0 /\ blob = [day |-> 0, slices |-> {}] /\ attempt = "none"

Time ==
    /\ at = "sleep" /\ passed /\ passed' = FALSE
    /\ due' = ~due
    /\ day' = IF due THEN day + 1 ELSE day
    /\ day' <= MaxDays
    /\ UNCHANGED <<at, started, last_history_day, blob, attempt>>

(* publish_history: the slices whose query did not fail; the put may fail. *)
PublishHistory ==
    \/ \E slices \in SUBSET HistoryKeys :
          blob' = [day |-> day, slices |-> slices] /\ attempt' = "ok"
    \/ attempt' = "failed" /\ UNCHANGED blob

(* Canned history from the start; nobody looks at the result.              *)
StartUp ==
    /\ at = "start" /\ at' = "live"
    /\ PublishHistory
    /\ last_history_day' = day /\ started' = day
    /\ UNCHANGED <<day, due, passed>>

(* publish_live: a failing put is passed over, a failing query is not.     *)
PublishLive ==
    /\ at = "live" /\ at' = "history"
    /\ passed' = TRUE
    /\ UNCHANGED <<day, due, started, last_history_day, blob, attempt>>

QueryRaises ==
    /\ at = "live" /\ at' = "dead"
    /\ UNCHANGED <<day, due, passed, started, last_history_day, blob, attempt>>

-----------------------------------------------------------------------------
(* A bug form, for the mutation runs.                                      *)
AdvanceAlways(outcome) == day
-----------------------------------------------------------------------------

(* Only a history that was put is done for the day.                        *)
DayAfter(outcome) == IF outcome = "ok" THEN day ELSE last_history_day

History ==
    /\ at = "history" /\ at' = "sleep"
    /\ IF due /\ day > last_history_day
       THEN PublishHistory /\ last_history_day' = DayAfter(attempt')
       ELSE attempt' = "none" /\ UNCHANGED <<last_history_day, blob>>
    /\ UNCHANGED <<day, due, passed, started>>

Wake ==
    /\ at = "sleep" /\ at' = "live"
    /\ UNCHANGED <<day, due, passed, started, last_history_day, blob, attempt>>

(* The API is deployed anew.                                               *)
Restart ==
    /\ at # "start" /\ at' = "start"
    /\ UNCHANGED <<day, due, passed, started, last_history_day, blob, attempt>>

BlobNext == Time \/ Restart \/ StartUp \/ PublishLive \/ QueryRaises \/ History \/ Wake

BlobSpec == BlobInit /\ [][BlobNext]_blobVars

-----------------------------------------------------------------------------
BlobTypeOK ==
    /\ at \in {"start", "live", "history", "sleep", "dead"}
    /\ day \in 1..MaxDays /\ started \in 1..day /\ last_history_day \in 0..day
    /\ due \in BOOLEAN /\ passed \in BOOLEAN /\ attempt \in {"none", "ok", "failed"}
    /\ blob.day \in 0..day /\ blob.slices \subseteq HistoryKeys

(* After every pass of the later part of a day history.json is of that     *)
(* day, unless this very pass tried and failed: a failure is made good by  *)
(* the next pass, and not the next day.  The day of the start is excepted: *)
(* the history it publishes is not tried again.                            *)
HistoryIsRetried ==
    at = "sleep" /\ passed /\ due /\ day > started => blob.day = day \/ attempt = "failed"

(* What the header promises (blob.py: "live.json - every LIVE_INTERVAL_S") *)
(* and one failing query ends.                                             *)
LivePublishedForEver == []<>(at = "history")

=============================================================================
