------------------------------- MODULE LivePage -------------------------------
(***************************************************************************)
(* The heartbeat of the web page, src/web/lib/useLive.ts, in a build of    *)
(* the live pipeline and in one of its archive: api.ts has SUNSET_DATE     *)
(* null or set, and at this commit it is set.                              *)
(*                                                                         *)
(* A blob store that does not answer stands also for a build without       *)
(* BLOB_BASE, where freeze() returns at once.                              *)
(*                                                                         *)
(* A timer that is armed may fire at any time.  What the lengths rule out  *)
(* is a second poll while one is in flight (4 s, and 8 s for the blob,     *)
(* against POLL_MS), and that guard is stated.                             *)
(***************************************************************************)
EXTENDS Naturals

VARIABLES
    sunset,         \* SUNSET_DATE is set: a constant of the build, which no step changes
    api, vercel,    \* whether the API and the blob store answer
    source,         \* the EventSource is open
    stallTimer, pollTimer, reconnect,   \* armed
    inFlight,       \* "none", or the request in flight: "poll", "freeze"
    failures,       \* failures.current, 2 standing for all from 2 on
    mode,           \* the mode shown
    disposed

pageVars == <<sunset, api, vercel, source, stallTimer, pollTimer, reconnect, inFlight, failures,
              mode, disposed>>

(* The hook's variables when its effect begins.                            *)
Mounted ==
    pollTimer = FALSE /\ reconnect = FALSE /\ failures = 0 /\ mode = "live" /\ disposed = FALSE

(* The effect: freeze() in an archive, startSse() in a live build.         *)
PageInit ==
    /\ api \in BOOLEAN /\ vercel \in BOOLEAN
    /\ Mounted
    /\ \/ sunset = TRUE /\ inFlight = "freeze" /\ source = FALSE /\ stallTimer = FALSE
       \/ sunset = FALSE /\ inFlight = "none" /\ source = TRUE /\ stallTimer = TRUE

-----------------------------------------------------------------------------
(* Bug forms, for the mutation runs.                                       *)
NeverCounts == 1
OpenUnasked == source' = TRUE /\ stallTimer' = TRUE
StopsTooSoon ==
    /\ inFlight = "freeze" /\ inFlight' = "none" /\ ~vercel
    /\ pollTimer' = FALSE
    /\ UNCHANGED <<sunset, api, vercel, source, stallTimer, reconnect, failures, mode, disposed>>
-----------------------------------------------------------------------------

(* failures.current += 1                                                   *)
FailedOnce == IF failures < 2 THEN failures + 1 ELSE 2

(* The API and the blob store fail and come back.                          *)
ApiTurns    == api' = ~api /\ UNCHANGED <<sunset, vercel, source, stallTimer, pollTimer, reconnect,
                                           inFlight, failures, mode, disposed>>
VercelTurns == vercel' = ~vercel /\ UNCHANGED <<sunset, api, source, stallTimer, pollTimer, reconnect,
                                                inFlight, failures, mode, disposed>>

(* startSse                                                                *)
StartSse ==
    IF disposed THEN UNCHANGED <<source, stallTimer>> ELSE source' = TRUE /\ stallTimer' = TRUE

(* startPolling: the first poll at once, then one every POLL_MS.           *)
StartPolling ==
    IF disposed \/ pollTimer
    THEN UNCHANGED <<pollTimer, inFlight>>
    ELSE pollTimer' = TRUE /\ inFlight' = "poll"

(* A snapshot arrives on the stream.                                       *)
Snap ==
    /\ source /\ api
    /\ failures' = 0 /\ stallTimer' = TRUE /\ mode' = "live"
    /\ UNCHANGED <<sunset, api, vercel, source, pollTimer, reconnect, inFlight, disposed>>

(* onerror: the first failure reconnects, the second polls.                *)
SseFails ==
    /\ source /\ source' = FALSE
    /\ failures' = FailedOnce
    /\ IF failures' = 2
       THEN /\ StartPolling /\ UNCHANGED reconnect
            /\ stallTimer' = (stallTimer /\ (disposed \/ pollTimer))
       ELSE reconnect' = TRUE /\ UNCHANGED <<pollTimer, inFlight, stallTimer>>
    /\ UNCHANGED <<sunset, api, vercel, mode, disposed>>

Reconnect ==
    /\ reconnect /\ reconnect' = FALSE
    /\ StartSse
    /\ UNCHANGED <<sunset, api, vercel, pollTimer, inFlight, failures, mode, disposed>>

(* No snapshot for SSE_STALL_MS.                                           *)
Stall ==
    /\ stallTimer /\ stallTimer' = FALSE
    /\ source' = FALSE
    /\ StartPolling
    /\ UNCHANGED <<sunset, api, vercel, reconnect, failures, mode, disposed>>

PollAgain ==
    /\ pollTimer /\ inFlight = "none" /\ inFlight' = "poll"
    /\ UNCHANGED <<sunset, api, vercel, source, stallTimer, pollTimer, reconnect, failures, mode, disposed>>

Shown(new) == mode' = IF disposed THEN mode ELSE new

PollAnswers ==
    /\ inFlight = "poll" /\ inFlight' = "none" /\ api
    /\ failures' = 0 /\ Shown("polling")
    /\ UNCHANGED <<sunset, api, vercel, source, stallTimer, pollTimer, reconnect, disposed>>

PollFails ==
    /\ inFlight = "poll" /\ ~api
    /\ failures' = FailedOnce
    /\ inFlight' = IF failures' = 2 THEN "freeze" ELSE "none"
    /\ UNCHANGED <<sunset, api, vercel, source, stallTimer, pollTimer, reconnect, mode, disposed>>

(* freeze(): the capture ends the polling.                                 *)
StopPolling == pollTimer' = FALSE

Freeze ==
    /\ inFlight = "freeze" /\ inFlight' = "none" /\ vercel
    /\ StopPolling /\ Shown("frozen")
    /\ UNCHANGED <<sunset, api, vercel, source, stallTimer, reconnect, failures, disposed>>

FreezeFails ==
    /\ inFlight = "freeze" /\ inFlight' = "none" /\ ~vercel
    /\ UNCHANGED <<sunset, api, vercel, source, stallTimer, pollTimer, reconnect, failures, mode, disposed>>

(* The page is left.                                                       *)
Dispose ==
    /\ ~disposed /\ disposed' = TRUE
    /\ source' = FALSE /\ pollTimer' = FALSE /\ stallTimer' = FALSE
    /\ UNCHANGED <<sunset, api, vercel, reconnect, inFlight, failures, mode>>

Timers == Reconnect \/ Stall \/ PollAgain
Answers == PollAnswers \/ PollFails \/ Freeze \/ FreezeFails

PageNext == ApiTurns \/ VercelTurns \/ Snap \/ SseFails \/ Timers \/ Answers \/ Dispose

PageSpec == PageInit /\ [][PageNext]_pageVars

-----------------------------------------------------------------------------
PageTypeOK ==
    /\ mode \in {"live", "polling", "frozen"} /\ inFlight \in {"none", "poll", "freeze"}
    /\ failures \in 0..2
    /\ \A b \in {sunset, api, vercel, source, stallTimer, pollTimer, reconnect, disposed} : b \in BOOLEAN

(* A page of a live build that is not frozen will hear from somebody:      *)
(* through every race of the stall timer, an error, a reconnect and an     *)
(* answer in flight.                                                       *)
NeverDead ==
    \/ sunset \/ disposed \/ mode = "frozen"
    \/ (source /\ stallTimer) \/ reconnect \/ pollTimer \/ inFlight # "none"

(* A page that was left has no stream and arms neither the stall nor the   *)
(* poll timer again, whatever reconnect or answer was still to come.  (The *)
(* reconnect itself is not cleared; it finds the page disposed.  A poll    *)
(* in flight that fails may still ask for the capture.)                    *)
LeftForGood == disposed => ~source /\ ~stallTimer /\ ~pollTimer

(* A live build shows the capture in the end when the API is gone for good *)
(* and the capture is there; an archive when the capture is there from the *)
(* first.                                                                  *)
FreezesInTheEnd ==
    /\ <>[](~sunset /\ ~api /\ vercel /\ ~disposed) => <>[](mode = "frozen")
    /\ [](sunset /\ vercel /\ ~disposed) => <>[](mode = "frozen")

-----------------------------------------------------------------------------
(* What a comment promises and the code does not do.                       *)

(* freeze(), on a failure: "keep last state; polling keeps trying".  With  *)
(* the API gone, a capture that was missing and is back is shown.          *)
PollingKeepsTrying == <>[](~api /\ vercel /\ ~disposed) => <>(mode = "frozen")

=============================================================================
