-------------------------------- MODULE Orders --------------------------------
(***************************************************************************)
(* The vocabulary of the matching engine: sides, limit orders, trades, and *)
(* the two comparisons on prices every other module is built from.         *)
(* Source: crates/matching_engine/src/lib.rs.                              *)
(*                                                                         *)
(* user_id and ts_nanos are left out: the engine stores them and copies    *)
(* ts_nanos into trades but reads neither (time priority is the order of   *)
(* arrival in a level's deque, not ts_nanos).                              *)
(***************************************************************************)
EXTENDS Naturals

CONSTANTS
    OrderIds,     \* the order ids a caller may use (u64 in the code)
    Prices,       \* the limit prices a caller may send, 0 included if present
    Quantities    \* the quantities a caller may send, 0 included if present

ASSUME OrdersAssumption ==
    /\ Prices \subseteq Nat
    /\ Quantities \subseteq Nat

Sides == {"Bid", "Ask"}

Opposite(side) == IF side = "Bid" THEN "Ask" ELSE "Bid"

(* An order as it is submitted, and as it is held or matched: its quantity *)
(* is then what is left of the submitted one.                              *)
Submitted  == [order_id: OrderIds, side: Sides, price: Prices, quantity: Quantities]
LimitOrder == [order_id: OrderIds, side: Sides, price: Prices, quantity: Nat]

Trade == [maker_order_id: OrderIds, taker_order_id: OrderIds,
          price: Prices, quantity: Nat]

(* p has strict priority over q among the resting orders of a side: the    *)
(* highest bid and the lowest ask come first.                              *)
Better(side, p, q) == IF side = "Bid" THEN p > q ELSE p < q

(* A resting order at price p is good enough for the incoming order.       *)
CrossesStrictly(order, p) == Better(Opposite(order.side), p, order.price)  \* mutant

Crosses(order, p) == ~ Better(order.side, p, order.price)

Smaller(m, n) == IF m <= n THEN m ELSE n

TradeOf(maker, taker, price, fill) ==
    [maker_order_id |-> maker.order_id, taker_order_id |-> taker.order_id,
     price |-> price, quantity |-> fill]

(* The checks at the head of place_limit, in the code's order; resting is  *)
(* the key set of order_locator.                                           *)
PlaceError(order, resting) ==
    CASE order.quantity = 0         -> "InvalidQuantity"
      [] order.quantity # 0 /\ order.price = 0 -> "InvalidPrice"
      [] order.quantity # 0 /\ order.price # 0 /\ order.order_id \in resting
                                    -> "DuplicateOrderId"
      [] OTHER                      -> "None"

Errors == {"InvalidQuantity", "InvalidPrice", "DuplicateOrderId", "OrderNotFound"}

(* What the engine returns: Ok(MatchOutcome), Ok(()) of cancel, or Err.    *)
Accepted(remaining, trades) ==
    [result |-> "Accepted", remaining_quantity |-> remaining, trades |-> trades]
Canceled    == [result |-> "Canceled"]
Failed(err) == [result |-> err]
===============================================================================
