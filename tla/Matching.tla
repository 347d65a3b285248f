------------------------------- MODULE Matching -------------------------------
(***************************************************************************)
(* Price-time priority as a closed form: what one call of place_limit or   *)
(* cancel does to the book, with no loop.  A side of the book is a single  *)
(* queue in priority order (best price first, earliest first within a      *)
(* price): the concatenation of the price levels of the code's BTreeMap.   *)
(* OrderBook translates the loops; OrderBookRefinement shows that they     *)
(* compute exactly this.                                                   *)
(***************************************************************************)
EXTENDS Orders, Ascending, SequencesExt

EmptyBook == [side \in Sides |-> << >>]

RestingIds(book) == UNION {{book[s][i].order_id : i \in DOMAIN book[s]} : s \in Sides}

(* The lots queued before position i: what an incoming order has to        *)
(* consume before the maker at i gets anything.                            *)
QuantityAhead(queue) ==
    LET ahead[i \in 1 .. Len(queue) + 1] ==
            IF i = 1 THEN 0 ELSE ahead[i - 1] + queue[i - 1].quantity
    IN  ahead

(* What each maker of the queue trades with the order: as many lots as it  *)
(* has, of those the makers before it leave, if its price crosses.         *)
Fills(order, queue) ==
    LET ahead == QuantityAhead(queue)
    IN  [i \in DOMAIN queue |->
            IF Crosses(order, queue[i].price) /\ ahead[i] < order.quantity
            THEN Smaller(queue[i].quantity, order.quantity - ahead[i])
            ELSE 0]

(* The makers are a prefix of the queue: the n-th trade is with the n-th.  *)
TradesWith(order, queue) ==
    LET fills == Fills(order, queue)
    IN  [i \in {j \in DOMAIN queue : fills[j] > 0} |->
            TradeOf(queue[i], order, queue[i].price, fills[i])]

Remaining(order, queue) ==
    LET crossing == {i \in DOMAIN queue : Crosses(order, queue[i].price)}
    IN  order.quantity
          - Smaller(order.quantity, QuantityAhead(queue)[Cardinality(crossing) + 1])

AfterFills(order, queue) ==
    LET fills == Fills(order, queue)
    IN  At([i \in DOMAIN queue |-> [queue[i] EXCEPT !.quantity = @ - fills[i]]],
           {i \in DOMAIN queue : fills[i] < queue[i].quantity})

(* Behind every order of a better or the same price.                       *)
Enqueue(order, queue) ==
    LET ahead == {i \in DOMAIN queue : ~ Better(order.side, order.price, queue[i].price)}
    IN  InsertAt(queue, Cardinality(ahead) + 1, order)

(* The book and the outcome once an order that passed the checks has been  *)
(* matched and its remainder, if any, rests.                               *)
BookAfterPlace(order, book) ==
    LET makers == book[Opposite(order.side)]
        left   == Remaining(order, makers)
    IN  [s \in Sides |->
            IF s = Opposite(order.side) THEN AfterFills(order, makers)
            ELSE IF left > 0 THEN Enqueue([order EXCEPT !.quantity = left], book[s])
            ELSE book[s]]

PlaceOutcome(order, book) ==
    LET makers == book[Opposite(order.side)]
    IN  Accepted(Remaining(order, makers), TradesWith(order, makers))

BookAfterCancel(id, book) ==
    [s \in Sides |-> At(book[s], {i \in DOMAIN book[s] : book[s][i].order_id # id})]
===============================================================================
