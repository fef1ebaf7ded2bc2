-------------------------- MODULE MCGatewayRefunds --------------------------
(***************************************************************************)
(* Instances of GatewayRefunds: payments of 2, refunded by 1 or 2.         *)
(***************************************************************************)
EXTENDS GatewayRefunds, TLC

MCQuote        == [total |-> 4, advance |-> 0, collects |-> TRUE]
MCSourceAmount == [src \in Sources |-> 2]
Symmetric      == Permutations(Keys) \cup Permutations(Sessions)
=============================================================================
