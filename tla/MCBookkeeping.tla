--------------------------- MODULE MCBookkeeping ---------------------------
(* The small instance of Delivery with the history of Bookkeeping.           *)
EXTENDS MCDelivery, Bookkeeping
=============================================================================
