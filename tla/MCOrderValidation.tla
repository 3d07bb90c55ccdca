------------------------- MODULE MCOrderValidation -------------------------
(* An instance of the order validator for TLC.                             *)
EXTENDS OrderValidation

(* The band around a catalog price of 4.00, its edges and their neighbours. *)
EdgeQuotes == {None, 0, 359, 360, 400, 440, 441}

(* Nothing, half a unit, one unit and a round order.                        *)
EdgeQuantities == {None, 0, 50, 100, 1000}
=============================================================================
