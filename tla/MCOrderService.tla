--------------------------- MODULE MCOrderService ---------------------------
(* Instances of OrderService for TLC. *)
EXTENDS OrderServiceProps

Symmetry == Permutations(OrderIds) \union Permutations(Workers)
=============================================================================
