-------------------------- MODULE MCDetectorEngine --------------------------
(***************************************************************************)
(* Small instances of the detector engine.  A tick of ts stands for the    *)
(* 30 to 60 s between two reports of a sparse feed; the time constants are *)
(* scaled to it and keep the order the code's own have:                    *)
(* GapResetS < CloseAfterS < AccrueWindowS < DedupeS, and a full ring of   *)
(* samples GapResetS apart outlasts DedupeS (19 * 90 s > 1200 s).          *)
(***************************************************************************)
EXTENDS DetectorEngine

TwoFields   == {"JFK", "LGA"}
FieldPos    == [a \in TwoFields |-> IF a = "JFK" THEN 0 ELSE 18]

Report(pos, alt, vel, track, vrate, onGround) ==
    [pos |-> pos, alt |-> alt, vel |-> vel, track |-> track, vrate |-> vrate,
     onGround |-> onGround, category |-> 0]

Final(pos)   == Report(pos, 300, 70, 0, -3, FALSE)
Ground(pos)  == Report(pos, 0, 10, 0, 0, TRUE)
Climb(pos, alt) == Report(pos, alt, 80, 0, 5, FALSE)
Cruise       == Report(9, 3000, 120, 0, 0, FALSE)
Turning(pos, track) == Report(pos, 2500, 120, track, 0, FALSE)

(* Descents, climbs and the ground: landings, touch-and-goes, balked       *)
(* landings and losses at two fields.                                      *)
Approaches == {Final(1), Climb(2, 600), Ground(0), Ground(18)}

(* The same without the climbs.                                            *)
Landings == {Final(1), Ground(0), Ground(18)}

(* Racetrack legs, whose ends are near each other or over 15 km apart, and *)
(* a report out of the band because its track is missing.                  *)
Racetrack == {Turning(0, 0), Turning(18, 180), Turning(0, Null)}

=============================================================================
