--------------------------- MODULE MCBookingDesk ---------------------------
(* Symmetry of the instances of BookingDesk for TLC.                       *)
EXTENDS BookingDesk, TLC

(* Agents are interchangeable, and requests are.                           *)
DeskSymmetry == Permutations(Agents) \cup Permutations(Requests)
=============================================================================
