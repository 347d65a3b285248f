------------------------------- MODULE OrderBook -------------------------------
(***************************************************************************)
(* The matching engine's OrderBook, one step per iteration of its loops.   *)
(* Source: crates/matching_engine/src/lib.rs.                              *)
(*                                                                         *)
(* A call to place_limit is PlaceLimit, then one FillMaker or ReduceMaker  *)
(* for each maker match_with_level pops, then Filled or Rest when          *)
(* place_limit returns.  match_with_level takes the best level out of the  *)
(* map and puts it back if anything is left of it; nothing reads the map   *)
(* in between, so the level stays in `levels` here, and going on with the  *)
(* same level is choosing the best level again.  `&mut self` excludes any  *)
(* other call until the return.                                            *)
(***************************************************************************)
EXTENDS Orders, Sequences, SequencesExt

CONSTANT NoOrder          \* no call of place_limit is running

ASSUME OrderBookAssumption == NoOrder \notin LimitOrder

VARIABLES
    levels,          \* bids and asks: per side, price -> deque of orders
    order_locator,   \* order id -> <<side, price>>
    incoming,        \* the order place_limit is matching, or NoOrder
    trades,          \* the trades of the running call
    reply            \* what the last call returned

vars == <<levels, order_locator, incoming, trades, reply>>

EmptyLevels == [side \in Sides |-> << >>]

Init ==
    /\ levels = EmptyLevels
    /\ order_locator = << >>
    /\ incoming = NoOrder
    /\ trades = << >>
    /\ reply = Failed("None")

Idle == incoming = NoOrder

-------------------------------------------------------------------------------
(* BTreeMap and HashMap updates.                                           *)

Without(map, key) == [k \in DOMAIN map \ {key} |-> map[k]]

With(map, key, value) ==
    [k \in DOMAIN map \cup {key} |-> IF k = key THEN value ELSE map[k]]

(* The side's map once the level at a price has become `queue`: a level    *)
(* that is empty is not put back.                                          *)
SetLevelKeepsEmpty(map, price, queue) == With(map, price, queue)    \* mutant

SetLevel(map, price, queue) ==
    IF queue = << >> THEN Without(map, price) ELSE With(map, price, queue)

(* best_bid_price and best_ask_price: the greatest bid, the least ask.     *)
IsBest(side, price) ==
    /\ price \in DOMAIN levels[side]
    /\ \A p \in DOMAIN levels[side] : ~ Better(side, p, price)

(* book.entry(price).or_default()                                          *)
LevelAt(side, price) ==
    IF price \in DOMAIN levels[side] THEN levels[side][price] ELSE << >>

Resting == DOMAIN order_locator

ForgetNothing(id) == order_locator                                  \* mutant

Forget(id) == Without(order_locator, id)

-------------------------------------------------------------------------------
(* place_limit up to its loop: the call is refused, or matching starts.    *)
PlaceLimit(order) ==
    LET error == PlaceError(order, Resting)
    IN  /\ Idle
        /\ IF error = "None"
           THEN /\ incoming' = order
                /\ UNCHANGED reply
           ELSE /\ reply' = Failed(error)
                /\ UNCHANGED incoming
        /\ UNCHANGED <<levels, order_locator, trades>>

(* The two ways out of the loop while lots are left: the other side has no *)
(* level, or its best price does not cross.                                *)
Breaks ==
    \A p \in DOMAIN levels[Opposite(incoming.side)] :
        IsBest(Opposite(incoming.side), p) => ~ Crosses(incoming, p)

(* The loop goes on: price is the best of the other side and crosses.      *)
Matchable(price) ==
    /\ ~ Idle
    /\ incoming.quantity > 0
    /\ IsBest(Opposite(incoming.side), price)
    /\ Crosses(incoming, price)

Match(price, maker, fill) ==
    /\ incoming' = [incoming EXCEPT !.quantity = @ - fill]
    /\ trades' = Append(trades, TradeOf(maker, incoming, price, fill))
    /\ UNCHANGED reply

ExhaustsButEqual(maker) == maker.quantity < incoming.quantity       \* mutant

Exhausts(maker) == maker.quantity <= incoming.quantity

(* The popped maker is exhausted and leaves the book.                      *)
FillMaker(price) ==
    LET other == Opposite(incoming.side)
        queue == levels[other][price]
        maker == Head(queue)
    IN  /\ Matchable(price)
        /\ Exhausts(maker)
        /\ Match(price, maker, maker.quantity)
        /\ levels' = [levels EXCEPT ![other] = SetLevel(@, price, Tail(queue))]
        /\ order_locator' = Forget(maker.order_id)

PushMakerBack(queue, left) ==                                       \* mutant
    Append(Tail(queue), [Head(queue) EXCEPT !.quantity = left])

PushMakerFront(queue, left) == [queue EXCEPT ![1].quantity = left]

(* The popped maker has lots left and goes back to the front.              *)
ReduceMaker(price) ==
    LET other == Opposite(incoming.side)
        queue == levels[other][price]
        maker == Head(queue)
        left  == maker.quantity - incoming.quantity
    IN  /\ Matchable(price)
        /\ ~ Exhausts(maker)
        /\ Match(price, maker, incoming.quantity)
        /\ levels' = [levels EXCEPT
                         ![other] = SetLevel(@, price, PushMakerFront(queue, left))]
        /\ UNCHANGED order_locator

Return(outcome) ==
    /\ reply' = outcome
    /\ incoming' = NoOrder
    /\ trades' = << >>

(* Nothing is left of the incoming order.                                  *)
Filled ==
    /\ ~ Idle
    /\ incoming.quantity = 0
    /\ Return(Accepted(0, trades))
    /\ UNCHANGED <<levels, order_locator>>

(* What is left rests: add_resting_order.                                  *)
Rest ==
    LET side  == incoming.side
        price == incoming.price
    IN  /\ ~ Idle
        /\ incoming.quantity > 0
        /\ Breaks
        /\ levels' = [levels EXCEPT
                         ![side] = SetLevel(@, price, Append(LevelAt(side, price), incoming))]
        /\ order_locator' = With(order_locator, incoming.order_id, <<side, price>>)
        /\ Return(Accepted(incoming.quantity, trades))

(* The position cancel finds by scanning the level from its front.         *)
IsFirst(pos, queue, id) ==
    /\ queue[pos].order_id = id
    /\ \A i \in 1 .. (pos - 1) : queue[i].order_id # id

AfterRemoval(queue, id) ==
    IF \E pos \in DOMAIN queue : IsFirst(pos, queue, id)
    THEN RemoveAt(queue, CHOOSE pos \in DOMAIN queue : IsFirst(pos, queue, id))
    ELSE queue

(* cancel.  The locator entry is gone even if its level is not there.      *)
Cancel(id) ==
    LET side  == order_locator[id][1]
        price == order_locator[id][2]
    IN  /\ Idle
        /\ IF id \notin Resting
           THEN /\ reply' = Failed("OrderNotFound")
                /\ UNCHANGED <<levels, order_locator>>
           ELSE /\ order_locator' = Forget(id)
                /\ IF price \in DOMAIN levels[side]
                   THEN /\ levels' = [levels EXCEPT
                              ![side] = SetLevel(@, price, AfterRemoval(@[price], id))]
                        /\ reply' = Canceled
                   ELSE /\ reply' = Failed("OrderNotFound")
                        /\ UNCHANGED levels
        /\ UNCHANGED <<incoming, trades>>

Loop ==
    \/ \E price \in Prices : FillMaker(price) \/ ReduceMaker(price)
    \/ Filled
    \/ Rest

Next ==
    \/ \E order \in Submitted : PlaceLimit(order)
    \/ \E id \in OrderIds : Cancel(id)
    \/ Loop

Spec == Init /\ [][Next]_vars

-------------------------------------------------------------------------------
(* Properties.                                                             *)

RestingOrders == {o \in LimitOrder : o.quantity > 0 /\ o.price > 0}

IsMap(map, keys, values) ==
    /\ DOMAIN map \subseteq keys
    /\ map \in [DOMAIN map -> values]

Replies ==
    {Failed(error) : error \in Errors \cup {"None"}} \cup {Canceled}
        \cup [result: {"Accepted"}, remaining_quantity: Nat, trades: Seq(Trade)]

BookTypeOK ==
    /\ levels = [side \in Sides |-> levels[side]]
    /\ \A side \in Sides : IsMap(levels[side], Prices, Seq(RestingOrders))
    /\ IsMap(order_locator, OrderIds, Sides \X Prices)

(* Types.  What rests has lots left.                                       *)
TypeOK ==
    /\ BookTypeOK
    /\ incoming \in LimitOrder \cup {NoOrder}
    /\ ~ Idle => incoming.price > 0
    /\ trades \in Seq(Trade)
    /\ reply \in Replies

(* Every key of bids and asks holds an order, and only orders of that side *)
(* and price: best_bid_price and best_ask_price read the keys alone, so a  *)
(* level left empty by match_with_level or cancel would be a false best.   *)
LevelsSound ==
    \A side \in Sides : \A price \in DOMAIN levels[side] :
        LET queue == levels[side][price]
        IN  /\ queue # << >>
            /\ \A i \in DOMAIN queue : queue[i].side = side /\ queue[i].price = price

(* order_locator and the two maps of levels, three structures updated one  *)
(* after the other by place_limit, match_with_level and cancel, always     *)
(* describe the same orders: each resting order is located, ...            *)
EveryOrderLocated ==
    \A side \in Sides : \A price \in DOMAIN levels[side] :
        \A i \in DOMAIN levels[side][price] :
            LET id == levels[side][price][i].order_id
            IN  id \in DOMAIN order_locator /\ order_locator[id] = <<side, price>>

(* ... rests once (in a level; EveryOrderLocated makes the level unique),  *)
EveryOrderOnce ==
    \A side \in Sides : \A price \in DOMAIN levels[side] :
        \A i, j \in DOMAIN levels[side][price] :
            levels[side][price][i].order_id = levels[side][price][j].order_id => i = j

(* ... and every located id rests where the locator says, so cancel never  *)
(* takes its branch for a missing level.                                   *)
EveryLocatedRests ==
    \A id \in DOMAIN order_locator :
        LET side == order_locator[id][1]  price == order_locator[id][2]
        IN  /\ price \in DOMAIN levels[side]
            /\ \E i \in DOMAIN levels[side][price] : levels[side][price][i].order_id = id

LocatorExact == EveryOrderLocated /\ EveryOrderOnce /\ EveryLocatedRests

(* The book is never crossed, not even in the middle of a call: every bid  *)
(* is below every ask.  place_limit compares with one best price at a time *)
(* and rests the remainder without looking at the book again.              *)
NeverCrossed ==
    \A bid \in DOMAIN levels["Bid"], ask \in DOMAIN levels["Ask"] : bid < ask

(* place_limit returns, although its loop has no counter: each round that  *)
(* is not the last takes lots off the order, never nothing.  A maker       *)
(* without lots, or a level taken out and not matched, would be a round    *)
(* without end.  (That a round is always possible is the check for         *)
(* deadlock: nothing but the loop can step while a call runs.)             *)
RoundsTakeLots ==
    [][~ Idle /\ incoming' # NoOrder => incoming'.quantity < incoming.quantity]_vars
===============================================================================
