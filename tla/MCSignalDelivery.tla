-------------------------- MODULE MCSignalDelivery --------------------------
(* SignalDelivery for TLC: the pairs are model values.                     *)
EXTENDS SignalDelivery
CONSTANTS p1, p2
=============================================================================
