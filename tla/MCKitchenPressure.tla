------------------------- MODULE MCKitchenPressure --------------------------
(* Instances of KitchenPressure for TLC: an order id two tables share. *)
EXTENDS KitchenPressure

CONSTANTS t1, t2, x, y

SharedId == {<<t1, x>>, <<t2, x>>, <<t1, y>>}
=============================================================================
