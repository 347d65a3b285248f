-------------------------- MODULE OrderBookRefinement --------------------------
(***************************************************************************)
(* OrderBook implements PriceTimePriority.  A call takes its abstract step *)
(* when it passes the checks of place_limit: from then on the abstract     *)
(* book is the one the running call will leave, and every iteration of     *)
(* the loops is a stutter.                                                 *)
(***************************************************************************)
EXTENDS OrderBook, Matching

(* The n-th best of a set of prices: n - 1 of them are better.             *)
NthBest(side, prices, n) ==
    CHOOSE p \in prices : Cardinality({q \in prices : Better(side, q, p)}) = n - 1

(* The levels of a side one after the other, best price first.             *)
Flatten(side, map) ==
    FlattenSeq([n \in 1 .. Cardinality(DOMAIN map) |-> map[NthBest(side, DOMAIN map, n)]])

Queues == [side \in Sides |-> Flatten(side, levels[side])]

(* What is left of a running call is a call with the rest of the order.    *)
CompletedBook ==
    IF Idle \/ incoming.quantity = 0 THEN Queues ELSE BookAfterPlace(incoming, Queues)

CompletedReply ==
    IF Idle THEN reply
    ELSE LET rest == PlaceOutcome(incoming, Queues)
         IN  [rest EXCEPT !.trades = trades \o @]

PTP == INSTANCE PriceTimePriority WITH book <- CompletedBook, reply <- CompletedReply

(* Every call matches, rests, refuses or cancels exactly as strict         *)
(* price-time priority says: best price first, earliest first within a     *)
(* price, at the maker's price, all that crosses and nothing else, and the *)
(* trades and the remainder it returns are those that happened.            *)
ImplementsPriceTimePriority == PTP!Spec
===============================================================================
