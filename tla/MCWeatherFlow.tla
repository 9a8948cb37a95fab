---------------------------- MODULE MCWeatherFlow ----------------------------
(***************************************************************************)
(* A small instance of the weather flow: an alert and a station.           *)
(***************************************************************************)
EXTENDS WeatherFlow, TLC

OneStation    == {"KJFK"}
OneAlert      == {"wind"}
OneInTurn     == (ALERTS_TOPIC :> <<"wind">>) @@ (OBS_TOPIC :> <<"KJFK">>)
TwoSignatures == {"s1", "s2"}

=============================================================================
