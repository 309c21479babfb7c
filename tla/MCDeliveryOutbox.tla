------------------------- MODULE MCDeliveryOutbox -------------------------
(* Model values and small instances of DeliveryOutbox for TLC. *)
EXTENDS DeliveryOutbox, TLC

CONSTANTS d1, d2, w1, w2, a1

Symmetric == Permutations(Workers) \cup Permutations(Deliveries)

MCExpiries == {Never, 2}

=============================================================================
