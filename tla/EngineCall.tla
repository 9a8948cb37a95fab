----------------------------- MODULE EngineCall -----------------------------
(***************************************************************************)
(* What one call of process() in src/streaming/detectors/engine.py does    *)
(* with the state it is given: one iteration of its loop, and the whole    *)
(* call on a batch of samples.                                             *)
(*                                                                         *)
(* A state is a ring and flags; None is the empty ring with empty flags.   *)
(***************************************************************************)
EXTENDS Arrival, GoAround, Holding

CONSTANT GapResetS      \* GAP_RESET_S

ASSUME GapAssumption == GapResetS \in Nat \ {0}
ASSUME ConfirmationAssumption == Null \notin {"on_ground", "coverage_loss"}

Hold == [start : Nat, lastTurn : Nat] \cup {Null}
Flags == [arrival : [Airports -> Nat \cup {Null}],
          goAround : [Airports -> Nat \cup {Null}],
          hold : Hold]
NoFlags == [arrival |-> NoArrivals, goAround |-> NoGoArounds, hold |-> Null]

Event == [event_type : {"arrival", "go_around", "holding"},
          confirmation : {"on_ground", "coverage_loss", Null},
          airport : Airports, event_ts : Nat, window_start : Nat,
          duration_s : Nat \cup {Null}]

(* sha1 of the aircraft, the type and the window start.                    *)
EventId(e) == <<e.event_type, e.window_start>>

-----------------------------------------------------------------------------
(* Bug forms, for the mutation runs.                                       *)
GapBeforeLax(ring, s) == ring # {} /\ s.ts - Newest(ring).ts > GapResetS + 1
TimeoutNoArrival(ring, fl) == HoldingOnTimeout(ring, fl.hold)
TimeoutNoHolding(ring, fl) == ArrivalOnTimeout(ring, fl.arrival)
-----------------------------------------------------------------------------

(* A silence longer than GAP_RESET_S before s.                             *)
GapBefore(ring, s) == ring # {} /\ s.ts - Newest(ring).ts > GapResetS

(* _timeout_events *)
TimeoutEvents(ring, fl) ==
    ArrivalOnTimeout(ring, fl.arrival) \cup HoldingOnTimeout(ring, fl.hold)

(* The ring and the flags the detectors see once s is in.                  *)
RingAfter(ring, s)       == RingWith(IF GapBefore(ring, s) THEN {} ELSE ring, s)
FlagsBefore(ring, fl, s) == IF GapBefore(ring, s) THEN NoFlags ELSE fl

(* A detector raises, and process() with it.                               *)
Raises(ring, fl, s) == HoldingRaises(RingAfter(ring, s), FlagsBefore(ring, fl, s).hold)

(* One iteration of the loop, with what it found about the contact that a  *)
(* gap ended and about the one s belongs to.                               *)
Iterate(ring, fl, s) ==
    LET now    == RingAfter(ring, s)
        before == FlagsBefore(ring, fl, s)
        arr    == ArrivalCheck(now, before.arrival)
        hold   == HoldingCheck(now, before.hold)
        ga     == GoAroundCheck(now, before.goAround)
    IN  [samples |-> now,
         flags   |-> [arrival |-> arr.marks, goAround |-> ga.marks, hold |-> hold.hold],
         lost    |-> IF GapBefore(ring, s) THEN TimeoutEvents(ring, fl) ELSE {},
         found   |-> arr.found \cup hold.found \cup ga.found]

=============================================================================
