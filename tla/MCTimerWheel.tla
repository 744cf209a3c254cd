---------------------------- MODULE MCTimerWheel ----------------------------
(* TimerWheel with a wheel of a few seconds.                                *)
EXTENDS TimerWheel
=============================================================================
