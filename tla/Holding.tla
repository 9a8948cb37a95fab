------------------------------- MODULE Holding -------------------------------
(***************************************************************************)
(* The holding detector, src/streaming/detectors/holding.py: open a hold   *)
(* on a full turn flown inside the altitude and speed band without         *)
(* displacement, extend it while the turning persists, and report it once  *)
(* on closing.                                                             *)
(*                                                                         *)
(* flags["holding"] is Null or the record [start, lastTurn] of an open     *)
(* hold; cum_deg only feeds the event's details and is left out.  Tracks   *)
(* are whole degrees.                                                      *)
(***************************************************************************)
EXTENDS DetectorCommon, FiniteSetsExt

CONSTANTS
    AccrueWindowS,      \* ACCRUE_WINDOW_S
    CloseAfterS         \* CLOSE_AFTER_S

ASSUME HoldingAssumption ==
    AccrueWindowS \in Nat \ {0} /\ CloseAfterS \in Nat \ {0}
ASSUME NoHoldAssumption == Null \notin [start : Nat, lastTurn : Nat]

AltMinM == 1700
AltMaxM == 5000
VelMinMs == 90
VelMaxMs == 160
CumTrackDeg == 340
NetDisplacementMaxKm == 15
MinWindow == 4
CategoryExclude == {2, 8, 9, 10, 11, 12, 14}

InBand(s) ==
    /\ ~s.onGround
    /\ s.alt # Null /\ s.vel # Null /\ s.track # Null
    /\ s.category \notin CategoryExclude
    /\ s.alt \in AltMinM..AltMaxM
    /\ s.vel \in VelMinMs..VelMaxMs

(* The unwrapped turn accumulated along the samples of S, in ts order.     *)
CumTurn(S) ==
    LET before(s) == {r \in S : r.ts < s.ts}
        turn(s)   == TrackDeltaDeg(Newest(before(s)).track, s.track)
        abs(d)    == IF d < 0 THEN -d ELSE d
    IN  MapThenSumSet(LAMBDA s : abs(turn(s)), {s \in S : before(s) # {}})

(* _recent_turn_rate >= TURN_RATE_MIN_DEG_S, with the division multiplied  *)
(* out: fewer than two samples or no time between them is a rate of zero.  *)
StillTurning(ring) ==
    LET now    == Newest(ring).ts
        recent == {s \in ring : s.track # Null /\ now - s.ts <= CloseAfterS}
    IN  /\ Cardinality(recent) >= 2
        /\ CumTurn(recent) * AccrueWindowS
             >= CumTrackDeg * (Newest(recent).ts - Oldest(recent).ts)

HoldingAt(airport, start, duration) ==
    [event_type |-> "holding", confirmation |-> Null, airport |-> airport,
     event_ts |-> start, window_start |-> start, duration_s |-> duration]

-----------------------------------------------------------------------------
(* Bug forms, for the mutation runs.                                       *)
ClosedAfterWindow(ring, hold) == Newest(ring).ts - hold.lastTurn >= AccrueWindowS
HoldOpenedDisplaced(ring) ==
    LET window == {s \in ring : Newest(ring).ts - s.ts <= AccrueWindowS /\ InBand(s)}
    IN  IF Cardinality(window) >= MinWindow /\ CumTurn(window) >= CumTrackDeg
        THEN [start |-> Oldest(window).ts, lastTurn |-> Newest(ring).ts]
        ELSE Null
-----------------------------------------------------------------------------

(* _close: nothing is reported for a hold that lasted no time at all.      *)
CloseHold(ring, hold) ==
    LET inside   == {s \in ring : s.ts \in hold.start..hold.lastTurn}
        mid      == IF inside = {} THEN ring ELSE inside
        half     == Cardinality(mid) \div 2
        center   == Newest({s \in mid : Cardinality({r \in mid : r.ts < s.ts}) <= half})
        duration == hold.lastTurn - hold.start
    IN  IF duration > 0
        THEN {HoldingAt(NearestAirport(center.pos), hold.start, duration)}
        ELSE {}

(* The hold that opens on this ring, or Null.                              *)
HoldOpened(ring) ==
    LET window == {s \in ring : Newest(ring).ts - s.ts <= AccrueWindowS /\ InBand(s)}
    IN  IF /\ Cardinality(window) >= MinWindow
           /\ CumTurn(window) >= CumTrackDeg
           /\ HaversineKm(Oldest(window).pos, Newest(window).pos) < NetDisplacementMaxKm
        THEN [start |-> Oldest(window).ts, lastTurn |-> Newest(ring).ts]
        ELSE Null

Extends(ring) == StillTurning(ring) /\ InBand(Newest(ring))

ClosedBy(ring, hold) == Newest(ring).ts - hold.lastTurn >= CloseAfterS

(* Extending a hold adds the turn of the last two samples, whose tracks    *)
(* are subtracted unguarded: a null one raises TypeError.                  *)
HoldingRaises(ring, hold) ==
    /\ hold # Null
    /\ Cardinality(ring) >= 2 /\ \E s \in LastN(ring, 2) : s.track = Null
    /\ Extends(ring)

(* check; the caller has ruled HoldingRaises out.                          *)
HoldingCheck(ring, hold) ==
    CASE hold = Null ->
            [found |-> {}, hold |-> HoldOpened(ring)]
      [] hold # Null /\ Extends(ring) ->
            [found |-> {}, hold |-> [hold EXCEPT !.lastTurn = Newest(ring).ts]]
      [] hold # Null /\ ~Extends(ring) /\ ClosedBy(ring, hold) ->
            [found |-> CloseHold(ring, hold), hold |-> Null]
      [] hold # Null /\ ~Extends(ring) /\ ~ClosedBy(ring, hold) ->
            [found |-> {}, hold |-> hold]

(* on_timeout *)
HoldingOnTimeout(ring, hold) == IF hold = Null THEN {} ELSE CloseHold(ring, hold)

=============================================================================
