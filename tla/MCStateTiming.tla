--------------------------- MODULE MCStateTiming ---------------------------
(* Schedules of States for checking StateTiming. *)
EXTENDS StateTiming

WarmupAndMeasured == <<"warmup", "measured">>
=============================================================================
