------------------------------- MODULE MCGateway -------------------------------
(***************************************************************************)
(* Gateway for TLC, three bits wide: u64 is 0 .. 7 and i64 is -4 .. 3.     *)
(***************************************************************************)
EXTENDS Gateway, TLC

MCCommands == {PlaceOrder(order) : order \in Submitted} \cup {CancelOrder(id) : id \in OrderIds}

MCU64 == 0 .. 7

MCGraphqlNumbers == {-1, 0, 1, 3}

Symmetry == Permutations(CommandIds) \cup Permutations(OrderIds)
===============================================================================
