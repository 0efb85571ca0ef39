------------------------------ MODULE MCAlarms ------------------------------
(***************************************************************************)
(* What runs on the system clock for TLC: three alarms; a second of six    *)
(* microseconds and a word of 32; two functions, one called from two       *)
(* places, over a heap that runs out.                                      *)
(***************************************************************************)
EXTENDS SystemClock

CONSTANTS a1, a2, a3

MCTime == [sec : {0, 2}, usec : {0, 5}]
MCArc == {<<"f", "a">>, <<"f", "b">>, <<"g", "a">>}
=============================================================================
