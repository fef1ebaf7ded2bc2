-------------------------- MODULE MCClientPayments --------------------------
(***************************************************************************)
(* An instance of ClientPayments.  The quote asks for an advance of 1      *)
(* and a total of 2, the smallest with an advance and a balance to tell    *)
(* apart.                                                                  *)
(***************************************************************************)
EXTENDS ClientPayments, TLC

CONSTANTS s1, s2, s3

MCQuote == [total |-> 2, advance |-> 1, collects |-> TRUE]

(* One creating request at a time, beside two deliveries: one webhook, and *)
(* either a webhook or a checkout callback.                                *)
GatewayServes == (s1 :> {"order"}) @@ (s2 :> {"webhook"}) @@ (s3 :> {"webhook", "verify"})

(* The office does not act: the actions of Next that these sessions take.  *)
GatewayNext ==
  \/ \E s \in Sessions :
       \/ CreateOrder(s) \/ Insert(s) \/ Abort(s)
       \/ \E p \in PayIds : ReceiveCaptured(s, p) \/ ReceiveCheckout(s, p)
       \/ ReconcileWebhook(s) \/ ReconcileCheckout(s)
  \/ \E p \in PayIds, r \in Rows : Checkout(p, r)
  \/ \E p \in PayIds : Capture(p)
  \/ MoveRequirement

GatewaySpec == Init /\ [][GatewayNext]_vars /\ Fairness
=============================================================================
