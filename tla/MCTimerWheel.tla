----------------------------- MODULE MCTimerWheel -----------------------------
(* A first wheel of two slots and two of four: ticks up to the first that   *)
(* brings the third wheel round, delays that file timers in each wheel, on  *)
(* and next to the boundaries between them.                                 *)
EXTENDS TimerWheel
===============================================================================
