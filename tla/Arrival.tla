------------------------------- MODULE Arrival -------------------------------
(***************************************************************************)
(* The arrival detector, src/streaming/detectors/arrival.py: a landing is  *)
(* confirmed by ground contact near a field, or by losing contact low and  *)
(* close to one.                                                           *)
(*                                                                         *)
(* flags["last_arrival"] is the function marks from Airports to the ts of  *)
(* the last arrival there, or Null.  A detector returns the record of what *)
(* it found (at most one event) and of the marks it leaves.                *)
(***************************************************************************)
EXTENDS DetectorCommon

CONSTANT ArrivalDedupeS     \* DEDUPE_S

ASSUME ArrivalAssumption == ArrivalDedupeS \in Nat \ {0}

CandidateDistKm     == 7
CandidateAltM       == 1000
ConfirmGroundDistKm == 4
LossAltM            == 450
LossDistKm          == 5

NoArrivals == [a \in Airports |-> Null]

IsCandidate(s) ==
    /\ ~s.onGround
    /\ s.alt # Null /\ s.alt < CandidateAltM
    /\ s.vrate # Null => s.vrate < 0
    /\ AirportDist(s.pos) < CandidateDistKm

ArrivalAt(airport, confirmation, ts, start) ==
    [event_type |-> "arrival", confirmation |-> confirmation, airport |-> airport,
     event_ts |-> ts, window_start |-> start, duration_s |-> Null]

-----------------------------------------------------------------------------
(* Bug forms, for the mutation runs.                                       *)
WindowStartOrNone(ring, fallback) ==
    IF \E s \in ring : IsCandidate(s)
    THEN Oldest({s \in ring : IsCandidate(s)}).ts
    ELSE Null
DedupedAnywhere(marks, airport, ts) ==
    \E a \in Airports : marks[a] # Null /\ ts - marks[a] < ArrivalDedupeS
DedupedLax(marks, airport, ts) ==
    marks[airport] # Null /\ ts - marks[airport] < ArrivalDedupeS - 1
-----------------------------------------------------------------------------

(* The first candidate of the ring, else the sample the caller falls back  *)
(* to.                                                                     *)
WindowStart(ring, fallback) ==
    IF \E s \in ring : IsCandidate(s)
    THEN Oldest({s \in ring : IsCandidate(s)}).ts
    ELSE fallback.ts

Deduped(marks, airport, ts) ==
    marks[airport] # Null /\ ts - marks[airport] < ArrivalDedupeS

(* On the ground now, seen airborne earlier in the ring.                   *)
TouchedDown(ring) ==
    /\ Cardinality(ring) >= 2
    /\ Newest(ring).onGround
    /\ \E s \in ring \ {Newest(ring)} : ~s.onGround

(* The last known sample is airborne, low and close to a field.            *)
LostOnFinal(ring) ==
    LET last == Newest(ring)
    IN  /\ ring # {}
        /\ ~last.onGround
        /\ last.alt # Null /\ last.alt < LossAltM
        /\ AirportDist(last.pos) < LossDistKm

(* What both paths do once the geometry holds: dedupe, mark, report.       *)
Confirm(ring, marks, confirmation, fallback) ==
    LET last    == Newest(ring)
        airport == NearestAirport(last.pos)
    IN  IF Deduped(marks, airport, last.ts)
        THEN [found |-> {}, marks |-> marks]
        ELSE [found |-> {ArrivalAt(airport, confirmation, last.ts, WindowStart(ring, fallback))},
              marks |-> [marks EXCEPT ![airport] = last.ts]]

(* Bug form: on the ground is enough.                                      *)
ArrivalCheckParked(ring, marks) ==
    IF Newest(ring).onGround /\ AirportDist(Newest(ring).pos) < ConfirmGroundDistKm
    THEN Confirm(ring, marks, "on_ground", Newest(ring))
    ELSE [found |-> {}, marks |-> marks]

(* check *)
ArrivalCheck(ring, marks) ==
    IF TouchedDown(ring) /\ AirportDist(Newest(ring).pos) < ConfirmGroundDistKm
    THEN Confirm(ring, marks, "on_ground", Newest({s \in ring : ~s.onGround}))
    ELSE [found |-> {}, marks |-> marks]

(* on_timeout; the marks it leaves die with the state or the gap reset.    *)
ArrivalOnTimeout(ring, marks) ==
    IF LostOnFinal(ring)
    THEN Confirm(ring, marks, "coverage_loss", Newest(ring)).found
    ELSE {}

=============================================================================
