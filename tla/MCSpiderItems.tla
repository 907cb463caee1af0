--------------------------- MODULE MCSpiderItems ---------------------------
(* Values for TLC. *)
EXTENDS SpiderItems, TLC

CONSTANTS i1, i2, a1, a2

\* Two items of one seller: their jobs meet in the seller cache.
OneSeller == [i \in Items |-> "seller"]
=============================================================================
