------------------------------ MODULE MCOutbox ------------------------------
(* Two publishers and two events; as many tokens as can be in use at once, *)
(* and one that is fresh.                                                  *)
EXTENDS OutboxDelivery, TLC

MCSymmetry == Permutations(Event) \cup Permutations(Worker)
=============================================================================
