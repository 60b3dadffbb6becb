----------------------------- MODULE MCDelivery -----------------------------
(* Small instances of Delivery for TLC. *)
EXTENDS Delivery

NoEvents == {}

(* Two rows: the first cannot be processed, the second is parked. *)
TwoEvents == 1 .. 2
FirstEvent == {1}
SecondEvent == {2}
=============================================================================
