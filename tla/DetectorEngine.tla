--------------------------- MODULE DetectorEngine ---------------------------
(***************************************************************************)
(* The detector engine of src/streaming/detectors/engine.py, for one       *)
(* aircraft: a ring of its recent samples, the detectors' flags, and       *)
(* process(), which Spark calls with a batch of messages or with           *)
(* timed_out.                                                              *)
(*                                                                         *)
(* One iteration of process()'s loop is one step.  A call is a run of      *)
(* ApplySample steps ended by Return, so a batch is not chosen up front:   *)
(* every batch of every size is some run of steps.  The sort by ts is the  *)
(* guard that a call's samples come in ts order; later calls may bring     *)
(* samples up to LateBy older than the newest one ever delivered.          *)
(*                                                                         *)
(* state None is the empty ring with empty flags.  Messages without a      *)
(* position are dropped by from_message and change nothing.                *)
(***************************************************************************)
EXTENDS EngineCall

CONSTANTS
    LateBy,         \* bound: how much older than the newest a sample may come
    MaxTs,          \* bound: the last ts of the feed
    MaxLosses       \* bound: no Timeout once contact was lost so often

ASSUME EngineAssumption ==
    LateBy \in Nat /\ MaxTs \in Nat /\ MaxLosses \in Nat

VARIABLES
    samples,    \* state["samples"]
    flags,      \* state["flags"]
    call,       \* process(): "idle", "busy" in its loop, "raised" out of it
    applied,    \* the ts of the call's last sample
    emitted,    \* the event ids of this call
    newestTs,   \* the newest ts delivered to the engine so far
    \* History, read by the properties only:
    contact,    \* the number of times contact was lost
    heard,      \* every sample that entered the ring, with its contact
    events,     \* every event returned, with the contact it is about
    dropped     \* every event found again within one call and dropped there

engineVars  == <<samples, flags, call, applied, emitted, newestTs>>
historyVars == <<contact, heard, events, dropped>>
vars        == <<engineVars, historyVars>>

About(c, found) == {[contact |-> c, event |-> e] : e \in found}

-----------------------------------------------------------------------------
Init ==
    /\ samples = {} /\ flags = NoFlags
    /\ call = "idle" /\ applied = 0 /\ emitted = {} /\ newestTs = 0
    /\ contact = 0 /\ heard = {} /\ events = {} /\ dropped = {}

(* The messages of the feed that have a position.                          *)
Incoming == {FromMessage(t, p) : t \in 0..MaxTs, p \in Profiles}

(* A sample the feed may hand the running call, or start a call with.      *)
Deliverable(s) ==
    /\ call # "raised"
    /\ s.ts >= applied
    /\ s.ts + LateBy >= newestTs

(* Return the events whose ids this call has not returned yet.             *)
Emit(found) ==
    LET fresh == {f \in found : EventId(f.event) \notin emitted}
    IN  /\ events' = events \cup fresh
        /\ dropped' = dropped \cup (found \ fresh)
        /\ emitted' = emitted \cup {EventId(f.event) : f \in found}

(* One iteration of process()'s loop.                                      *)
ApplySample(s) ==
    /\ Deliverable(s)
    /\ ~Raises(samples, flags, s)
    /\ call' = "busy"
    /\ applied' = s.ts
    /\ newestTs' = IF s.ts > newestTs THEN s.ts ELSE newestTs
    /\ contact' = IF GapBefore(samples, s) THEN contact + 1 ELSE contact
    /\ heard' = IF contact' = contact /\ s.ts \in TsOf(samples) THEN heard
                ELSE heard \cup {[contact |-> contact', sample |-> s]}
    /\ \E turn \in {Iterate(samples, flags, s)} :
          /\ samples' = turn.samples
          /\ flags' = turn.flags
          /\ Emit(About(contact, turn.lost) \cup About(contact', turn.found))

(* A detector raises: the call ends without a result.                      *)
RaiseOnSample(s) ==
    /\ Deliverable(s)
    /\ Raises(samples, flags, s)
    /\ call' = "raised"
    /\ UNCHANGED <<samples, flags, applied, emitted, newestTs, historyVars>>

Return ==
    /\ call = "busy"
    /\ call' = "idle" /\ applied' = 0 /\ emitted' = {}
    /\ UNCHANGED <<samples, flags, newestTs, historyVars>>

(* process(timed_out=True) on a live state: Spark saw no message for       *)
(* STATE_TIMEOUT_MS of its own clock.                                      *)
Timeout ==
    /\ call = "idle" /\ samples # {} /\ contact < MaxLosses
    /\ samples' = {} /\ flags' = NoFlags
    /\ contact' = contact + 1
    /\ events' = events \cup About(contact, TimeoutEvents(samples, flags))
    /\ UNCHANGED <<call, applied, emitted, newestTs, heard, dropped>>

(* process() with no state to time out, or with no positioned message.     *)
NothingToDo == call = "idle" /\ UNCHANGED vars

Next ==
    \/ \E s \in Incoming : ApplySample(s) \/ RaiseOnSample(s)
    \/ Return
    \/ Timeout
    \/ NothingToDo

Spec == Init /\ [][Next]_vars

-----------------------------------------------------------------------------
(* Types: the ring holds samples, the flags hold what the detectors store, *)
(* events have the columns of flight_events the detectors decide.          *)
TypeOK ==
    /\ samples \subseteq Sample /\ IsFiniteSet(samples)
    /\ flags \in Flags
    /\ call \in {"idle", "busy", "raised"}
    /\ applied \in Nat /\ newestTs \in Nat
    /\ emitted \subseteq {"arrival", "go_around", "holding"} \X Nat
    /\ contact \in Nat
    /\ heard \subseteq [contact : Nat, sample : Sample]
    /\ events \subseteq [contact : Nat, event : Event]
    /\ dropped \subseteq [contact : Nat, event : Event]

(* The ring is one unbroken contact: at most RING_SIZE samples, one per    *)
(* ts, and from every sample but the newest another one within GAP_RESET_S *)
(* (the ring never "bridges hours of silence and fakes continuity").       *)
RingIsOneContact ==
    /\ Cardinality(samples) <= RingSize
    /\ \A r, s \in samples : r.ts = s.ts => r = s
    /\ \A s \in samples :
          \/ s.ts = Newest(samples).ts
          \/ \E r \in samples : s.ts < r.ts /\ r.ts <= s.ts + GapResetS

(* What the detectors found, returned by its call or dropped there as a    *)
(* repeat of an event id.                                                  *)
Found     == events \cup dropped
Arrivals  == {e \in Found : e.event.event_type = "arrival"}
GoArounds == {e \in Found : e.event.event_type = "go_around"}
Holdings  == {e \in Found : e.event.event_type = "holding"}

(* The samples of one contact between two times.                           *)
HeardIn(c, from, to) ==
    {h.sample : h \in {g \in heard : g.contact = c /\ g.sample.ts \in from..to}}

(* No silence longer than GAP_RESET_S between two times, whatever contact  *)
(* the engine counted the samples to.                                      *)
Unbroken(from, to) ==
    LET ts == {t \in {h.sample.ts : h \in heard} : t \in from..to}
    IN  \A t \in ts \ {to} : \E u \in ts : t < u /\ u <= t + GapResetS

(* A landing reported on ground contact is that of an aircraft that was    *)
(* heard airborne and then without a silence until it was heard on the     *)
(* ground: one that appears parked after a silence never "arrives".        *)
GroundArrivalWasAirborne ==
    \A a \in Arrivals : a.event.confirmation = "on_ground" =>
        \E h \in heard :
            /\ ~h.sample.onGround /\ h.sample.ts < a.event.event_ts
            /\ Unbroken(h.sample.ts, a.event.event_ts)

(* Within one contact an aircraft arrives at a field at most once in       *)
(* DEDUPE_S, through every mix of ground contact, touch-and-go, coverage   *)
(* loss and replayed samples.                                              *)
ArrivalsSpaced ==
    \A a, b \in Arrivals :
        /\ a.contact = b.contact /\ a # b
        /\ a.event.airport = b.event.airport
        => \/ a.event.event_ts + ArrivalDedupeS <= b.event.event_ts
           \/ b.event.event_ts + ArrivalDedupeS <= a.event.event_ts

ArrivedBy(airport, ts) ==
    \E a \in Arrivals : /\ a.event.airport = airport
                        /\ a.event.event_ts <= ts
                        /\ ts < a.event.event_ts + ArrivalDedupeS

(* No landing is missed: an aircraft heard airborne and next heard on the  *)
(* ground by a field, in one contact, has an arrival there no older than   *)
(* DEDUPE_S, whatever other fields it arrived at before.                   *)
LandingReported ==
    \A g, h \in heard :
        /\ g.contact = h.contact /\ g.sample.ts < h.sample.ts
        /\ ~g.sample.onGround /\ h.sample.onGround
        /\ HeardIn(g.contact, g.sample.ts + 1, h.sample.ts - 1) = {}
        /\ AirportDist(h.sample.pos) < ConfirmGroundDistKm
        => ArrivedBy(NearestAirport(h.sample.pos), h.sample.ts)

(* No short final is missed: a contact that ended low and close to a field *)
(* has an arrival there, whether the state timeout or the event-time gap   *)
(* reset ended it.                                                         *)
ShortFinalReported ==
    \A h \in heard :
        /\ h.contact < contact
        /\ \A g \in heard : g.contact = h.contact => g.sample.ts <= h.sample.ts
        /\ LostOnFinal({h.sample})
        => ArrivedBy(NearestAirport(h.sample.pos), h.sample.ts)

(* A go-around is a balked landing: within one contact, a descent of at    *)
(* least two samples low and near a field, the last of them nearest the    *)
(* one reported, then the climb it is dated by, up to at least GAIN_MIN_M  *)
(* above some point of it, and never the ground in between.                *)
GoAroundWasBalked ==
    \A g \in GoArounds :
        \E first, last, top \in {h.sample : h \in heard} :
            LET leg == HeardIn(g.contact, first.ts, top.ts) IN
            /\ {first, last, top} \subseteq leg
            /\ first.ts < last.ts
            /\ last.ts < g.event.event_ts /\ g.event.event_ts < top.ts
            /\ Descending(first) /\ Descending(last)
            /\ NearestAirport(last.pos) = g.event.airport
            /\ \A s \in leg : ~s.onGround
            /\ \A s \in leg : s.ts >= g.event.event_ts => Climbing(s)
            /\ top.alt # Null
            /\ \E s \in leg : s.alt # Null /\ top.alt - s.alt >= GainMinM

(* The climb that keeps matching sample after sample is one go-around: it  *)
(* is found once, so a call never finds a second one to drop, and within   *)
(* one contact a field has one in GoAroundDedupeS.                         *)
GoAroundFoundOnce ==
    /\ GoArounds \cap dropped = {}
    /\ \A a, b \in GoArounds :
          /\ a.contact = b.contact /\ a # b
          /\ a.event.airport = b.event.airport
          => \/ a.event.event_ts + GoAroundDedupeS <= b.event.event_ts
             \/ b.event.event_ts + GoAroundDedupeS <= a.event.event_ts

(* A hold never vanishes unreported: the step that closes it, be it a      *)
(* sample, a gap reset or a timeout, reports a holding from its start.     *)
ClosedHoldIsReported ==
    [][ flags.hold # Null /\ flags'.hold = Null =>
          \E h \in Holdings' : h.event.window_start = flags.hold.start ]_vars

(* An open hold turned less than CLOSE_AFTER_S before the newest sample,   *)
(* so it can neither linger nor be extended after the turning stopped.     *)
OpenHoldIsRecent ==
    flags.hold # Null =>
        /\ flags.hold.start < flags.hold.lastTurn
        /\ flags.hold.lastTurn <= Newest(samples).ts
        /\ Newest(samples).ts < flags.hold.lastTurn + CloseAfterS

(* A holding is flown: its contact has, no later than CLOSE_AFTER_S from   *)
(* its end, in-band samples that turn at least CUM_TRACK_DEG and that      *)
(* start where the hold starts, less than NET_DISPLACEMENT_MAX_KM away.    *)
HoldingWasFlown ==
    \A h \in Holdings :
        \E to \in h.event.window_start..MaxTs :
            LET turn == {s \in HeardIn(h.contact, h.event.window_start, to) : InBand(s)} IN
            /\ to - h.event.window_start <= AccrueWindowS
            /\ to <= h.event.window_start + h.event.duration_s
            /\ Cardinality(turn) >= MinWindow
            /\ Oldest(turn).ts = h.event.window_start
            /\ CumTurn(turn) >= CumTrackDeg
            /\ HaversineKm(Oldest(turn).pos, Newest(turn).pos) < NetDisplacementMaxKm

-----------------------------------------------------------------------------
(* What the code's comments promise and the code does not do.              *)

(* holding.py, "emit once, with duration": no two reports of one hold.     *)
HoldingEmittedOnce ==
    \A a, b \in Holdings \cap events :
        a.contact = b.contact /\ a.event.window_start = b.event.window_start => a = b

(* common.py, nullable fields are "treated as a missing measurement": no   *)
(* sample of the feed makes a detector raise.                              *)
NullsNeverRaise == call # "raised"

(* arrival.py, window_start is the "first candidacy sample of the          *)
(* approach": the approach of this landing, not of one before it.          *)
WindowStartsThisApproach ==
    \A a \in Arrivals \cap events :
        ~\E s \in HeardIn(a.contact, a.event.window_start, a.event.event_ts - 1) : s.onGround

=============================================================================
