-------------------------------- MODULE Gateway --------------------------------
(***************************************************************************)
(* The two APIs in front of the handler: which requests they let through,  *)
(* with which numbers, and what they make of the handler's replies.        *)
(* Source: crates/api/src/grpc/service.rs, graphql/mutation.rs and         *)
(* graphql/types.rs.                                                       *)
(*                                                                         *)
(* The engine and gRPC count in u64, GraphQL in i64, and the GraphQL layer *)
(* casts with `as`.  Both types have 2 * Half numbers, instead of 2^64.    *)
(* A request that is refused for its arguments is answered at once and     *)
(* changes nothing; the others lock the handler and call it.  What is sent *)
(* on the broadcast channel is EventStreams'.                              *)
(***************************************************************************)
EXTENDS CommandHandler, Integers

CONSTANTS
    Half,             \* half of the numbers of u64 and of i64: 2^63 in the code
    GrpcNumbers,      \* prices and quantities of gRPC requests
    GraphqlNumbers,   \* prices and quantities of GraphQL requests
    Empty,            \* the empty command id
    NotU64            \* a GraphQL ID that does not parse as u64

U64 == 0 .. 2 * Half - 1
I64 == - Half .. Half - 1

ASSUME GatewayAssumption ==
    /\ Half \in Nat \ {0}
    /\ U64 \subseteq Prices /\ U64 \subseteq Quantities
    /\ \A order \in Submitted : PlaceOrder(order) \in Commands
    /\ \A order_id \in OrderIds : CancelOrder(order_id) \in Commands
    /\ GrpcNumbers \subseteq U64 /\ GraphqlNumbers \subseteq I64
    /\ Empty \notin CommandIds /\ NotU64 \notin OrderIds

VARIABLES
    asker,   \* the API of the last call of handle
    via      \* history: the APIs each command id was sent through

gatewayVars == <<asker, via>>
allVars     == <<vars, gatewayVars>>

GatewayInit ==
    /\ Init
    /\ asker = None
    /\ via = [k \in CommandIds |-> {}]

-------------------------------------------------------------------------------
(* `as u64` and `as i64`.                                                  *)

AsU64(i) == i % (2 * Half)

AsI64(n) == IF n \in I64 THEN n ELSE n - 2 * Half

-------------------------------------------------------------------------------
(* Requests.                                                               *)

GrpcSides == {"SIDE_UNSPECIFIED", "SIDE_BID", "SIDE_ASK"}

GrpcOrders == [command_id: CommandIds \cup {Empty}, order_id: OrderIds, side: GrpcSides,
               price: GrpcNumbers, quantity: GrpcNumbers]

GraphqlOrders == [command_id: CommandIds \cup {Empty}, order_id: OrderIds \cup {NotU64},
                  side: Sides, price: GraphqlNumbers, quantity: GraphqlNumbers]

ParseSide(raw) == IF raw = "SIDE_BID" THEN "Bid" ELSE "Ask"

(* What place_order of gRPC refuses before it locks the handler.           *)
GrpcRefusesNoQuantity(r) ==                                         \* mutant
    r.command_id = Empty \/ r.price = 0 \/ r.side = "SIDE_UNSPECIFIED"

GrpcRefuses(r) ==
    \/ r.command_id = Empty
    \/ r.price = 0
    \/ r.quantity = 0
    \/ r.side = "SIDE_UNSPECIFIED"

(* What placeOrder of GraphQL refuses before it locks the handler. (An      *)
(* unparsable user_id is refused like an unparsable order_id; user ids are *)
(* not modelled, the engine never reads them.)                             *)
GraphqlRefusesZeroOnly(r) ==                                        \* mutant
    r.command_id = Empty \/ r.price = 0 \/ r.quantity = 0 \/ r.order_id = NotU64

GraphqlRefuses(r) ==
    \/ r.command_id = Empty
    \/ r.price <= 0
    \/ r.quantity <= 0
    \/ r.order_id = NotU64

GrpcOrder(r) ==
    [order_id |-> r.order_id, side |-> ParseSide(r.side), price |-> r.price,
     quantity |-> r.quantity]

GraphqlOrder(r) ==
    [order_id |-> r.order_id, side |-> r.side, price |-> AsU64(r.price),
     quantity |-> AsU64(r.quantity)]

(* handler.lock().await.handle(command).await                              *)
Forward(api, k, command) ==
    /\ Spend("calls")
    /\ Call(k, command)
    /\ asker' = api
    /\ via' = [via EXCEPT ![k] = @ \cup {api}]

GrpcPlaceOrder(r) ==
    IF GrpcRefuses(r) THEN UNCHANGED allVars
    ELSE Forward("grpc", r.command_id, PlaceOrder(GrpcOrder(r)))

GraphqlPlaceOrder(r) ==
    IF GraphqlRefuses(r) THEN UNCHANGED allVars
    ELSE Forward("graphql", r.command_id, PlaceOrder(GraphqlOrder(r)))

GrpcCancelOrder(k, order_id) ==
    IF k = Empty THEN UNCHANGED allVars
    ELSE Forward("grpc", k, CancelOrder(order_id))

(* The id is parsed with the handler locked; the error lets go of it.      *)
GraphqlCancelOrder(k, id) ==
    IF k = Empty \/ id = NotU64 THEN UNCHANGED allVars
    ELSE Forward("graphql", k, CancelOrder(id))

(* Requests are taken while the handler is free: a refused one changes     *)
(* nothing, the others wait for it.                                        *)
Request ==
    /\ active = None /\ budget.calls > 0
    /\ \/ \E r \in GrpcOrders : GrpcPlaceOrder(r)
       \/ \E r \in GraphqlOrders : GraphqlPlaceOrder(r)
       \/ \E k \in CommandIds \cup {Empty} :
             \/ \E id \in OrderIds : GrpcCancelOrder(k, id)
             \/ \E id \in OrderIds \cup {NotU64} : GraphqlCancelOrder(k, id)

GatewayNext ==
    \/ Request
    \/ (AppendEvent \/ EventCommitted \/ Drop \/ Fail \/ OrphanEnds) /\ UNCHANGED gatewayVars

GatewaySpec == GatewayInit /\ [][GatewayNext]_allVars

-------------------------------------------------------------------------------
(* Responses.                                                              *)

(* GqlFill, and a TradeExecuted of GqlEventRecord.                         *)
GraphqlTrade(trade) ==
    [trade EXCEPT !.price = AsI64(@), !.quantity = AsI64(@)]

ShownTrade(api, trade) == IF api = "graphql" THEN GraphqlTrade(trade) ELSE trade

(* The fills are the records that are trades.                              *)
FillsOf(api, records) ==
    LET traded == At(records, {n \in DOMAIN records : records[n].type = "TradeExecuted"})
    IN  [n \in DOMAIN traded |-> ShownTrade(api, traded[n].trade)]

PlaceOrderResponse(api, r) ==
    [fills |-> FillsOf(api, r.trades),
     remaining_qty |-> IF api = "graphql" THEN AsI64(r.remaining_quantity)
                       ELSE r.remaining_quantity,
     inserted |-> r.inserted]

-------------------------------------------------------------------------------
(* Properties.                                                             *)

(* Types: whatever the APIs accept, the engine gets u64s; a command id     *)
(* stands for a command if it was sent through one of them.                *)
GatewayTypeOK ==
    /\ TypeOK
    /\ \A k \in CommandIds : submitted[k] # None /\ submitted[k].type = "PlaceOrder" =>
           submitted[k].order.price \in U64 /\ submitted[k].order.quantity \in U64
    /\ asker \in {"grpc", "graphql", None}
    /\ \A k \in CommandIds : via[k] = {} <=> submitted[k] = None

(* The engine's own checks of price and quantity never decide: by then the *)
(* command id is logged as accepted, and a corrected request under the     *)
(* same id would be taken for a retry.  Wrong arguments cost no id.        *)
ArgumentsCostNoId ==
    \A k \in CommandIds : \A n \in DOMAIN runs[k] :
        runs[k][n].error \notin {"InvalidPrice", "InvalidQuantity"}

OrdersOf(id) ==
    {k \in CommandIds : /\ submitted[k] # None
                        /\ submitted[k].type = "PlaceOrder"
                        /\ submitted[k].order.order_id = id}

ByGraphql(id) == \A k \in OrdersOf(id) : "graphql" \in via[k]

Buys(id) == \A k \in OrdersOf(id) : submitted[k].order.side = "Bid"

(* The GraphQL events and fills show the trade that happened, as far as a  *)
(* GraphQL client had a part in it: the lots if either order came by       *)
(* GraphQL, the price if the maker did, or if a taker that buys did.  (An  *)
(* order of gRPC may have a price or a quantity above i64::MAX; a GraphQL  *)
(* client that sells into such a bid is shown a negative price.)           *)
ShownAsTraded ==
    \A i \in DOMAIN log : ~ IsFirstEvent(log[i]) =>
        LET trade == log[i].event.trade
            maker == trade.maker_order_id
            taker == trade.taker_order_id
        IN  /\ ByGraphql(maker) \/ ByGraphql(taker) =>
                   GraphqlTrade(trade).quantity = trade.quantity
            /\ ByGraphql(maker) \/ (ByGraphql(taker) /\ Buys(taker)) =>
                   GraphqlTrade(trade).price = trade.price

(* The answer to an order that was placed now, in the numbers of the API   *)
(* it came through: fills and remainder are the order's quantity, and no   *)
(* fill is worse than the order's limit, but for the negative price above. *)
AnswersAddUp ==
    IsOk(reply) /\ reply.result = "OrderPlaced" /\ reply.inserted =>
        LET order  == submitted[reply.command_id].order
            answer == PlaceOrderResponse(asker, reply)
        IN  /\ Quantity(answer.fills) + answer.remaining_qty = order.quantity
            /\ asker = "grpc" \/ order.side = "Bid" =>
                   \A n \in DOMAIN answer.fills : Crosses(order, answer.fills[n].price)
===============================================================================
