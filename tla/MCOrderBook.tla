------------------------------ MODULE MCOrderBook ------------------------------
(***************************************************************************)
(* OrderBook on a small instance.  Zero is a price and a quantity a caller *)
(* may send.  The ids are interchangeable.                                 *)
(***************************************************************************)
EXTENDS OrderBookRefinement, TLC

Symmetry == Permutations(OrderIds)
===============================================================================
