---------------------------- MODULE MCWeatherJobs ----------------------------
(* An instance of WeatherJobs for TLC. *)
EXTENDS WeatherJobs

CONSTANTS t1, t2
TwoTrips == {t1, t2}
=============================================================================
