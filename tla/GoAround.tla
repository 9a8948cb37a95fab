------------------------------- MODULE GoAround -------------------------------
(***************************************************************************)
(* The go-around detector, src/streaming/detectors/goaround.py: a descent  *)
(* low and near a field, then a climb of at least two samples ending at    *)
(* the newest one, a real gain of altitude, and no ground contact.         *)
(***************************************************************************)
EXTENDS DetectorCommon

CONSTANTS
    GoAroundDedupeS,    \* DEDUPE_S
    Lookback            \* the 6 of before[-6:]

ASSUME GoAroundAssumption == GoAroundDedupeS \in Nat \ {0} /\ Lookback \in Nat

NearDistKm        == 12
LowAltM           == 800
DescentVrateMs    == -2
DescentMinSamples == 2
ClimbVrateMs      == 3
ClimbMinSamples   == 2
GainMinM          == 200

NoGoArounds == [a \in Airports |-> Null]

NearLow(s) ==
    /\ ~s.onGround
    /\ s.alt # Null /\ s.alt < LowAltM
    /\ AirportDist(s.pos) < NearDistKm

Climbing(s)   == ~s.onGround /\ s.vrate # Null /\ s.vrate > ClimbVrateMs
Descending(s) == s.vrate # Null /\ s.vrate < DescentVrateMs /\ NearLow(s)

GoAroundAt(airport, ts) ==
    [event_type |-> "go_around", confirmation |-> Null, airport |-> airport,
     event_ts |-> ts, window_start |-> ts, duration_s |-> Null]

-----------------------------------------------------------------------------
(* Bug forms, for the mutation runs.                                       *)
BalkedWithGround(climb, before, descent) ==
    /\ Cardinality(climb) >= ClimbMinSamples
    /\ Cardinality(descent) >= DescentMinSamples
RecentGoAroundNever(marks, airport, ts) == FALSE
-----------------------------------------------------------------------------

(* The climb run: the samples after which the ring only climbs.            *)
ClimbRun(ring) == {s \in ring : \A r \in ring : r.ts >= s.ts => Climbing(r)}

Balked(climb, before, descent) ==
    /\ Cardinality(climb) >= ClimbMinSamples
    /\ ~\E s \in before : s.onGround
    /\ Cardinality(descent) >= DescentMinSamples

Gained(climb, descent) ==
    LET top == Newest(climb)
    IN  /\ top.alt # Null
        /\ \E s \in descent \cup climb : s.alt # Null /\ top.alt - s.alt >= GainMinM

RecentGoAround(marks, airport, ts) ==
    marks[airport] # Null /\ ts - marks[airport] < GoAroundDedupeS

(* check *)
GoAroundCheck(ring, marks) ==
    LET climb   == ClimbRun(ring)
        before  == LastN(ring \ climb, Lookback)
        descent == {s \in before : Descending(s)}
        airport == NearestAirport(Newest(descent).pos)
        start   == Oldest(climb).ts
    IN  IF /\ Balked(climb, before, descent)
           /\ Gained(climb, descent)
           /\ ~RecentGoAround(marks, airport, start)
        THEN [found |-> {GoAroundAt(airport, start)},
              marks |-> [marks EXCEPT ![airport] = start]]
        ELSE [found |-> {}, marks |-> marks]

=============================================================================
