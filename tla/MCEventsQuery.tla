--------------------------- MODULE MCEventsQuery ---------------------------
(***************************************************************************)
(* Small instances of the events query: one field, one or two aircraft,    *)
(* short topics, and the reports that make an arrival.                     *)
(***************************************************************************)
EXTENDS EventsQuery

OneField  == {"JFK"}
FieldPos  == [a \in OneField |-> 0]
OneAircraft  == {"a1"}
TwoAircraft  == {"a1", "a2"}

Report(pos, alt, vrate, onGround) ==
    [pos |-> pos, alt |-> alt, vel |-> 70, track |-> 0, vrate |-> vrate,
     onGround |-> onGround, category |-> 0]

Landing == {Report(1, 300, -3, FALSE), Report(0, 0, 0, TRUE)}

=============================================================================
