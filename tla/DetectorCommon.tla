--------------------------- MODULE DetectorCommon ---------------------------
(***************************************************************************)
(* What the three detectors share: the Sample, the distance and turn       *)
(* primitives, and the ring of recent samples they all scan                *)
(* (src/streaming/detectors/common.py and the ring of engine.py).          *)
(*                                                                         *)
(* The earth is a line: positions are whole kilometres along it and the    *)
(* great-circle distance is the distance on the line.  Every distance the  *)
(* code takes is only ever compared with a threshold or with another one.  *)
(*                                                                         *)
(* The ring is the SET of its samples.  The code keeps a list that is      *)
(* sorted by ts after every append and never holds two samples of one ts,  *)
(* so the set and the list determine each other: samples[-1] is            *)
(* Newest(ring), samples[:-1] is ring \ {Newest(ring)}, and so on.         *)
(***************************************************************************)
EXTENDS Integers, FiniteSets

CONSTANTS
    Airports,       \* the fields of AIRPORTS
    AirportPos,     \* their reference points, on the line
    Profiles,       \* the position reports an aircraft may send, without ts
    Null,           \* a missing measurement: None, or NaN, which _null makes None
    RingSize        \* RING_SIZE

Measurement == Int \cup {Null}

Profile == [pos : Int, alt : Measurement, vel : Measurement,
            track : Measurement, vrate : Measurement, onGround : BOOLEAN,
            category : Measurement]

Sample == [ts : Nat, pos : Int, alt : Measurement, vel : Measurement,
           track : Measurement, vrate : Measurement, onGround : BOOLEAN,
           category : Measurement]

ASSUME AirportsAssumption == Airports # {} /\ AirportPos \in [Airports -> Int]
ASSUME NullAssumption     == Null \notin Int
ASSUME ProfilesAssumption == Profiles \subseteq Profile
ASSUME RingSizeAssumption == RingSize \in Nat /\ RingSize >= 2

(* from_message: the envelope's api_ts next to the report it carries.      *)
FromMessage(t, p) ==
    [ts |-> t, pos |-> p.pos, alt |-> p.alt, vel |-> p.vel, track |-> p.track,
     vrate |-> p.vrate, onGround |-> p.onGround, category |-> p.category]

HaversineKm(p, q) == IF p <= q THEN q - p ELSE p - q

NearestAirport(pos) ==
    CHOOSE a \in Airports :
        \A b \in Airports : HaversineKm(pos, AirportPos[a]) <= HaversineKm(pos, AirportPos[b])

AirportDist(pos) == HaversineKm(pos, AirportPos[NearestAirport(pos)])

(* The signed shortest turn from course a to course b, in (-180, 180].     *)
TrackDeltaDeg(a, b) ==
    LET d == ((b - a + 180) % 360) - 180
    IN  IF d = -180 THEN 180 ELSE d

TsOf(S) == {s.ts : s \in S}

Newest(ring) == CHOOSE s \in ring : \A r \in ring : r.ts <= s.ts
Oldest(ring) == CHOOSE s \in ring : \A r \in ring : s.ts <= r.ts

(* The last (at most) n samples of a ring or of a part of one: S[-n:].     *)
LastN(S, n) == {s \in S : Cardinality({r \in S : r.ts > s.ts}) < n}

(* samples[-RING_SIZE:] after one append: at most the oldest one goes.     *)
TrimRing(ring) ==
    IF Cardinality(ring) > RingSize THEN ring \ {Oldest(ring)} ELSE ring

(* A second sample of a ts already in the ring is not appended.            *)
RingWith(ring, s) ==
    IF s.ts \in TsOf(ring) THEN ring ELSE TrimRing(ring \cup {s})

=============================================================================
