--------------------------- MODULE MCCommandHandler ---------------------------
(***************************************************************************)
(* CommandHandler for TLC: two asks at one price, a bid that can sweep     *)
(* both, and a cancel, each sent under any command id.  The same order     *)
(* sent under two ids is a duplicate order id, the same id used again      *)
(* after its order has left the book is accepted.  One id looks like the   *)
(* key of k1's first trade.                                                *)
(***************************************************************************)
EXTENDS CommandHandler

CONSTANTS o1, o2, o3, k1, k2

MCCommandIds == {k1, k2, <<k1, 1>>}

Order(id, side, quantity) ==
    [order_id |-> id, side |-> side, price |-> 1, quantity |-> quantity]

MCCommands ==
    {PlaceOrder(Order(o1, "Ask", 1)), PlaceOrder(Order(o2, "Ask", 1)),
     PlaceOrder(Order(o3, "Bid", 2)), CancelOrder(o1)}
===============================================================================
