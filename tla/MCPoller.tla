------------------------------ MODULE MCPoller ------------------------------
(* Poller with channels that take each other's descriptors over, and with an *)
(* event list that is full at the first ready channel.                       *)
EXTENDS Poller
=============================================================================
