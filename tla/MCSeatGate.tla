----------------------------- MODULE MCSeatGate -----------------------------
(* A small instance of SeatGate for TLC: three agents and bounds one to three, *)
(* so that two agents can be parked behind one, and a retune can free two      *)
(* seats at once.                                                              *)
EXTENDS SeatGate

=============================================================================
