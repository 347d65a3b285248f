--------------------------- MODULE PriceTimePriority --------------------------
(***************************************************************************)
(* What the order book promises to its caller: each call is one atomic     *)
(* step that matches in strict price-time priority.  This is the abstract  *)
(* specification OrderBook implements.                                     *)
(***************************************************************************)
EXTENDS Matching

VARIABLES
    book,     \* one queue of resting orders per side, in priority order
    reply     \* what the last call returned

vars == <<book, reply>>

Init ==
    /\ book = EmptyBook
    /\ reply = Failed("None")

PlaceLimit(order) ==
    LET error == PlaceError(order, RestingIds(book))
    IN  IF error = "None"
        THEN /\ book' = BookAfterPlace(order, book)
             /\ reply' = PlaceOutcome(order, book)
        ELSE /\ reply' = Failed(error)
             /\ UNCHANGED book

Cancel(id) ==
    IF id \in RestingIds(book)
    THEN /\ book' = BookAfterCancel(id, book)
         /\ reply' = Canceled
    ELSE /\ reply' = Failed("OrderNotFound")
         /\ UNCHANGED book

Next ==
    \/ \E order \in Submitted : PlaceLimit(order)
    \/ \E id \in OrderIds : Cancel(id)

Spec == Init /\ [][Next]_vars
===============================================================================
