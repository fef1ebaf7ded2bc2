----------------------------- MODULE LedgerRules -----------------------------
(***************************************************************************)
(* The pure rules of services/payment_ledger_service.py.  Amounts are      *)
(* whole rupees.  A ledger is a set S of rows of a table `rows`; a row is  *)
(* a record with (at least) the fields purpose, status and amount, and the *)
(* refund rules also read parent.  A quote is a record                     *)
(*   [total |-> .., advance |-> .., collects |-> BOOLEAN],                 *)
(* collects being FALSE for the model client_pays_worker_directly.         *)
(***************************************************************************)
EXTENDS Integers, FiniteSetsExt

PaymentStatuses == {"pending", "paid", "failed", "refunded"}
PaymentPurposes == {"advance", "balance", "adjustment", "refund"}

ValidQuote(quote) ==
  /\ quote.total \in Nat \ {0}
  /\ quote.advance \in 0 .. quote.total

NonNegative(n) == IF n > 0 THEN n ELSE 0

SumOf(rows, S) == MapThenSumSet(LAMBDA r : rows[r].amount, S)

IsRefund(payment) == payment.purpose = "refund"
Settled(payment)  == payment.status \in {"paid", "refunded"}

(* A settled charge counts as collected; a charge whose own status became  *)
(* "refunded" (the legacy form) counts on both sides.                      *)
GrossPaid(rows, S) == SumOf(rows, {r \in S : ~IsRefund(rows[r]) /\ Settled(rows[r])})

RefundedAmount(rows, S) ==
  SumOf(rows, {r \in S : \/ IsRefund(rows[r]) /\ Settled(rows[r])
                         \/ ~IsRefund(rows[r]) /\ rows[r].status = "refunded"})

TotalPaid(rows, S) == NonNegative(GrossPaid(rows, S) - RefundedAmount(rows, S))

Outstanding(quote, paid) == NonNegative(quote.total - paid)
Overpaid(quote, paid)    == NonNegative(paid - quote.total)
AdvanceDue(quote, paid)  == NonNegative(quote.advance - paid)

(* Seeded fault: the balance is the whole quote.                           *)
PaymentIntentsOfWholeQuote(quote, reqStatus, paid) ==
  {i \in {[purpose |-> "advance", amount |-> AdvanceDue(quote, paid)],
          [purpose |-> "balance", amount |-> quote.total]} :
     /\ quote.collects
     /\ Outstanding(quote, paid) > 0
     /\ reqStatus \in {"approved", "workers_assigned", "in_progress", "completed"}
     /\ \/ i.purpose = "advance" /\ AdvanceDue(quote, paid) > 0 /\ reqStatus = "approved"
        \/ /\ i.purpose = "balance"
           /\ AdvanceDue(quote, paid) = 0
           /\ ~(quote.advance > 0 /\ reqStatus = "approved")}

(* The intent the server derives for a client who asks to pay, as a set:   *)
(* empty when the service refuses, else its only element.                  *)
PaymentIntents(quote, reqStatus, paid) ==
  {i \in {[purpose |-> "advance", amount |-> AdvanceDue(quote, paid)],
          [purpose |-> "balance", amount |-> Outstanding(quote, paid)]} :
     /\ quote.collects
     /\ Outstanding(quote, paid) > 0
     /\ reqStatus \in {"approved", "workers_assigned", "in_progress", "completed"}
     /\ \/ /\ i.purpose = "advance"
           /\ AdvanceDue(quote, paid) > 0
           /\ reqStatus = "approved"
        \/ /\ i.purpose = "balance"
           /\ AdvanceDue(quote, paid) = 0
           /\ ~(quote.advance > 0 /\ reqStatus = "approved")}

StatesAccepting(purpose) ==
  CASE purpose = "advance" -> {"approved"}
    [] purpose \in {"balance", "adjustment"} ->
         {"approved", "workers_assigned", "in_progress", "completed"}
    [] purpose = "refund" ->
         {"approved", "workers_assigned", "in_progress", "completed", "cancelled"}

(* validate_manual_payment: a refund is held against what is paid, any     *)
(* other purpose against what is outstanding.                              *)
ManualPaymentAllowed(quote, reqStatus, paid, purpose, amount) ==
  /\ amount > 0
  /\ reqStatus \in StatesAccepting(purpose)
  /\ IF purpose = "refund" THEN amount <= paid
                           ELSE amount <= Outstanding(quote, paid)

PendingRefunds(rows, S) ==
  SumOf(rows, {r \in S : IsRefund(rows[r]) /\ rows[r].status = "pending"})

(* What refunds have taken or reserved of one captured payment.            *)
ReservedOn(rows, S, source) ==
  SumOf(rows, {r \in S : /\ IsRefund(rows[r])
                         /\ rows[r].parent = source
                         /\ rows[r].status \in {"pending", "paid", "refunded"}})

(* validate_gateway_refund, the source row being passed as the caller read *)
(* it.  captured: the source is a gateway payment with a payment id.       *)
GatewayRefundAllowed(quote, reqStatus, rows, S, source, captured, amount) ==
  /\ ~IsRefund(rows[source])
  /\ captured
  /\ rows[source].status = "paid"
  /\ ManualPaymentAllowed(quote, reqStatus, TotalPaid(rows, S), "refund", amount)
  /\ amount <= TotalPaid(rows, S) - PendingRefunds(rows, S)
  /\ amount <= rows[source].amount - ReservedOn(rows, S, source)
=============================================================================
