--------------------------- MODULE ClientPayments ---------------------------
(***************************************************************************)
(* The client-payment side of the ledger for one requirement and its       *)
(* approved quote: api/client_payments.py (create-order,                   *)
(* submit-reference, verify), the payment.captured branch of               *)
(* api/payment_webhooks.py, the manual and status endpoints of             *)
(* api/admin_finance.py and services/payment_reconciliation_service.py.    *)
(*                                                                         *)
(* A request is two steps, the unlocked read on which it decides and the   *)
(* commit of what it decided: under READ COMMITTED any other request may   *)
(* commit in between.  The reconciliation service locks the order row, but *)
(* the ORM session already holds that row from the first read and a        *)
(* SELECT ... FOR UPDATE does not reload it, so the service decides on the *)
(* first read (val) as well; only its query by payment id and the columns  *)
(* it does not write come from the database.                               *)
(*                                                                         *)
(* A gateway order is identified with the row that records it.             *)
(***************************************************************************)
EXTENDS LedgerRules

CONSTANTS
  Rows,          \* slots of the client_payments table
  PayIds,        \* gateway payment ids
  Refs,          \* bank transfer references a client may submit
  Sessions,      \* requests in flight
  Serves,        \* Serves[s]: the endpoints session s may run
  Quote,         \* the requirement's latest quote
  ManualAmounts, \* amounts an admin may record by hand
  ManualPurposes,\* purposes an admin may record by hand
  MaxAmount,     \* the largest value the INTEGER column amount holds
  SingleCapture, \* TRUE: the gateway captures at most one payment per order
  NoRow, NoPay, NoRef, NoPayment

Endpoints == {"order", "reference", "manual", "status", "webhook", "verify"}

ASSUME QuoteAssumption  == ValidQuote(Quote) /\ Quote.collects \in BOOLEAN
ASSUME InputAssumption  == /\ MaxAmount \in Nat
                           /\ ManualAmounts \subseteq 0 .. MaxAmount
                           /\ ManualPurposes \subseteq PaymentPurposes
                           /\ Serves \in [Sessions -> SUBSET Endpoints]
                           /\ SingleCapture \in BOOLEAN
ASSUME FiniteTable      == IsFiniteSet(Rows)
ASSUME NothingAssumption == /\ NoRow \notin Rows
                            /\ NoPay \notin PayIds
                            /\ NoRef \notin Refs

(* models/client_payment.py, the columns the endpoints read.  Every        *)
(* payment_mode other than "gateway" and the client's own transfer is      *)
(* "manual".                                                               *)
Payment == [purpose : PaymentPurposes,
            mode    : {"gateway", "reference", "manual"},
            status  : PaymentStatuses,
            amount  : 0 .. MaxAmount,
            payId   : PayIds \cup {NoPay},
            ref     : Refs \cup {NoRef}]

ASSUME AbsentAssumption == NoPayment \notin Payment

VARIABLES
  rows,       \* the client_payments table
  reqStatus,  \* Requirement.status
  payOrder,   \* gateway: the order each payment was made on
  captured,   \* gateway: the payments captured
  sess        \* requests in flight

vars == <<rows, reqStatus, payOrder, captured, sess>>

Idle == [pc |-> "idle", row |-> NoRow, pay |-> NoPay,
         val |-> NoPayment, to |-> "pending"]

SessionState == [pc  : {"idle", "insert", "status", "webhook", "verify"},
                 row : Rows \cup {NoRow},
                 pay : PayIds \cup {NoPay},
                 val : Payment \cup {NoPayment},
                 to  : PaymentStatuses]

TypeOK ==
  /\ rows \in [Rows -> Payment \cup {NoPayment}]
  /\ reqStatus \in {"approved", "workers_assigned", "in_progress", "completed", "cancelled"}
  /\ payOrder \in [PayIds -> Rows \cup {NoRow}]
  /\ captured \in SUBSET PayIds
  /\ sess \in [Sessions -> SessionState]

Init ==
  /\ rows = [r \in Rows |-> NoPayment]
  /\ reqStatus = "approved"
  /\ payOrder = [p \in PayIds |-> NoRow]
  /\ captured = {}
  /\ sess = [s \in Sessions |-> Idle]

Ledger == {r \in Rows : rows[r] # NoPayment}
Paid   == TotalPaid(rows, Ledger)

May(s, endpoint) == sess[s].pc = "idle" /\ endpoint \in Serves[s]

(* Seeded fault: only the client's own transfers are looked at.            *)
AlreadyPendingTransfer(i) ==
  \E r \in Ledger : /\ rows[r].status = "pending"
                    /\ rows[r].mode = "reference"
                    /\ rows[r].amount = i.amount
                    /\ rows[r].purpose = i.purpose

(* Any pending row of the derived amount and purpose stops a new one: the  *)
(* gateway's own is returned to the client, another is a 409.              *)
AlreadyPending(i) ==
  \E r \in Ledger : /\ rows[r].status = "pending"
                    /\ rows[r].amount = i.amount
                    /\ rows[r].purpose = i.purpose

(* The server's amount; a value the column cannot hold fails the request.  *)
Intents == {i \in PaymentIntents(Quote, reqStatus, Paid) : i.amount \in 0 .. MaxAmount}

Prepare(s, payment) ==
  sess' = [sess EXCEPT ![s] = [Idle EXCEPT !.pc = "insert", !.val = payment]]

-----------------------------------------------------------------------------
(* Client: POST /create-order.  Reads, derives the intent, creates the     *)
(* gateway order; the row is inserted by Insert.                           *)
CreateOrder(s) ==
  /\ May(s, "order")
  /\ \E i \in Intents :
       /\ ~AlreadyPending(i)
       /\ Prepare(s, [purpose |-> i.purpose, mode |-> "gateway", status |-> "pending",
                      amount |-> i.amount, payId |-> NoPay, ref |-> NoRef])
  /\ UNCHANGED <<rows, reqStatus, payOrder, captured>>

(* Client: POST /submit-reference for a transfer made outside the app.     *)
SubmitReference(s, ref) ==
  /\ May(s, "reference")
  /\ \A r \in Ledger : ~(rows[r].ref = ref /\ rows[r].mode = "reference")
  /\ \E i \in Intents :
       /\ ~AlreadyPending(i)
       /\ Prepare(s, [purpose |-> i.purpose, mode |-> "reference", status |-> "pending",
                      amount |-> i.amount, payId |-> NoPay, ref |-> ref])
  /\ UNCHANGED <<rows, reqStatus, payOrder, captured>>

(* Admin: POST /client-payments/manual, recorded in any payment status.    *)
RecordManual(s, purpose, amount, status) ==
  /\ May(s, "manual")
  /\ ManualPaymentAllowed(Quote, reqStatus, Paid, purpose, amount)
  /\ Prepare(s, [purpose |-> purpose, mode |-> "manual", status |-> status,
                 amount |-> amount, payId |-> NoPay, ref |-> NoRef])
  /\ UNCHANGED <<rows, reqStatus, payOrder, captured>>

Insert(s) ==
  /\ sess[s].pc = "insert"
  /\ \E r \in Rows \ Ledger : rows' = [rows EXCEPT ![r] = sess[s].val]
  /\ sess' = [sess EXCEPT ![s] = Idle]
  /\ UNCHANGED <<reqStatus, payOrder, captured>>

(* Seeded fault: a move to "paid" is not validated.                        *)
ReadForStatusUnvalidated(s, r, to) ==
  /\ May(s, "status")
  /\ r \in Ledger
  /\ ~(IsRefund(rows[r]) /\ rows[r].mode = "gateway")
  /\ rows[r].status # to
  /\ sess' = [sess EXCEPT ![s] = [Idle EXCEPT !.pc = "status", !.row = r, !.to = to]]
  /\ UNCHANGED <<rows, reqStatus, payOrder, captured>>

(* Admin: PATCH /client-payments/{id}/status.  Only a move to "paid" is    *)
(* validated, against the other rows of the requirement.                   *)
ReadForStatus(s, r, to) ==
  /\ May(s, "status")
  /\ r \in Ledger
  /\ ~(IsRefund(rows[r]) /\ rows[r].mode = "gateway")
  /\ rows[r].status # to
  /\ to = "paid" => ManualPaymentAllowed(Quote, reqStatus, TotalPaid(rows, Ledger \ {r}),
                                         rows[r].purpose, rows[r].amount)
  /\ sess' = [sess EXCEPT ![s] = [Idle EXCEPT !.pc = "status", !.row = r, !.to = to]]
  /\ UNCHANGED <<rows, reqStatus, payOrder, captured>>

WriteStatus(s) ==
  /\ sess[s].pc = "status"
  /\ rows' = [rows EXCEPT ![sess[s].row].status = sess[s].to]
  /\ sess' = [sess EXCEPT ![s] = Idle]
  /\ UNCHANGED <<reqStatus, payOrder, captured>>

-----------------------------------------------------------------------------
(* Gateway: the client pays on an order it was given; the gateway captures *)
(* the payment, possibly much later.                                       *)
Checkout(p, r) ==
  /\ payOrder[p] = NoRow
  /\ r \in Ledger
  /\ rows[r].mode = "gateway"
  /\ payOrder' = [payOrder EXCEPT ![p] = r]
  /\ UNCHANGED <<rows, reqStatus, captured, sess>>

Capture(p) ==
  /\ payOrder[p] # NoRow
  /\ p \notin captured
  /\ SingleCapture => \A q \in captured : payOrder[q] # payOrder[p]
  /\ captured' = captured \cup {p}
  /\ UNCHANGED <<rows, reqStatus, payOrder, sess>>

Load(s, pc, r, p) ==
  sess' = [sess EXCEPT ![s] = [Idle EXCEPT !.pc = pc, !.row = r, !.pay = p, !.val = rows[r]]]

(* Seeded fault: an authorised payment is taken for a captured one.        *)
ReceiveAuthorised(s, p) ==
  /\ May(s, "webhook")
  /\ payOrder[p] # NoRow
  /\ rows[payOrder[p]].status # "paid"
  /\ Load(s, "webhook", payOrder[p], p)
  /\ UNCHANGED <<rows, reqStatus, payOrder, captured>>

(* payment.captured webhook, delivered any number of times and to several  *)
(* processes.  A row read as paid is acknowledged without a change.        *)
ReceiveCaptured(s, p) ==
  /\ May(s, "webhook")
  /\ p \in captured
  /\ rows[payOrder[p]].status # "paid"
  /\ Load(s, "webhook", payOrder[p], p)
  /\ UNCHANGED <<rows, reqStatus, payOrder, captured>>

(* Client: POST /verify with the signature the gateway gave for the pair   *)
(* (order, payment), captured or not.                                      *)
ReceiveCheckout(s, p) ==
  /\ May(s, "verify")
  /\ payOrder[p] # NoRow
  /\ ~(rows[payOrder[p]].status = "paid" /\ rows[payOrder[p]].payId = p)
  /\ Load(s, "verify", payOrder[p], p)
  /\ UNCHANGED <<rows, reqStatus, payOrder, captured>>

(* Seeded faults: the row's own payment id is not compared; an unbound row *)
(* is taken for one bound to another payment.                              *)
ConflictsElsewhereOnly(r, p, seen) == \E q \in Ledger \ {r} : rows[q].payId = p

ConflictsUnlessBound(r, p, seen) ==
  \/ \E q \in Ledger \ {r} : rows[q].payId = p
  \/ seen.payId # p

(* reconcile_captured_gateway_payment for the order row r, seen as `seen`. *)
(* The query by payment id is fresh; the conflicts it or the row's own     *)
(* payment id raise, and a status that cannot be captured, leave the       *)
(* ledger alone.                                                           *)
Conflicts(r, p, seen) ==
  \/ \E q \in Ledger \ {r} : rows[q].payId = p
  \/ seen.payId \notin {NoPay, p}

AlreadySettled(seen) == seen.payId # NoPay /\ Settled(seen)

MarkPaid(r, p, seen) ==
  rows' = [rows EXCEPT ![r].payId = IF seen.payId = p THEN @ ELSE p,
                       ![r].status = "paid"]

Reconcile(r, p, seen) ==
  IF Conflicts(r, p, seen) \/ AlreadySettled(seen) \/ seen.status \notin {"pending", "failed"}
  THEN UNCHANGED rows
  ELSE MarkPaid(r, p, seen)

ReconcileWebhook(s) ==
  /\ sess[s].pc = "webhook"
  /\ Reconcile(sess[s].row, sess[s].pay, sess[s].val)
  /\ sess' = [sess EXCEPT ![s] = Idle]
  /\ UNCHANGED <<reqStatus, payOrder, captured>>

(* Seeded fault: the client's word is taken for a row without payment id.  *)
ReconcileCheckoutUnfetched(s) ==
  /\ sess[s].pc = "verify"
  /\ Reconcile(sess[s].row, sess[s].pay, sess[s].val)
  /\ sess' = [sess EXCEPT ![s] = Idle]
  /\ UNCHANGED <<reqStatus, payOrder, captured>>

(* A row first read without a payment id makes the endpoint fetch the      *)
(* payment from the gateway, which must report it captured; a row read     *)
(* with one is reconciled on the caller's word.                            *)
ReconcileCheckout(s) ==
  /\ sess[s].pc = "verify"
  /\ sess[s].val.payId = NoPay => sess[s].pay \in captured
  /\ Reconcile(sess[s].row, sess[s].pay, sess[s].val)
  /\ sess' = [sess EXCEPT ![s] = Idle]
  /\ UNCHANGED <<reqStatus, payOrder, captured>>

-----------------------------------------------------------------------------
(* A request dies before its commit: the process is killed, the gateway    *)
(* call fails or times out, the payment is not captured yet.               *)
Abort(s) ==
  /\ sess[s].pc # "idle"
  /\ sess' = [sess EXCEPT ![s] = Idle]
  /\ UNCHANGED <<rows, reqStatus, payOrder, captured>>

(* core/statuses.py: the moves of a requirement with an approved quote.    *)
RequirementMoves ==
  {<<"approved", "workers_assigned">>, <<"approved", "cancelled">>,
   <<"workers_assigned", "in_progress">>, <<"workers_assigned", "approved">>,
   <<"workers_assigned", "cancelled">>,
   <<"in_progress", "completed">>, <<"in_progress", "cancelled">>}

MoveRequirement ==
  /\ \E m \in RequirementMoves : m[1] = reqStatus /\ reqStatus' = m[2]
  /\ UNCHANGED <<rows, payOrder, captured, sess>>

Next ==
  \/ \E s \in Sessions :
       \/ CreateOrder(s)
       \/ \E ref \in Refs : SubmitReference(s, ref)
       \/ \E purpose \in ManualPurposes, amount \in ManualAmounts, status \in PaymentStatuses :
            RecordManual(s, purpose, amount, status)
       \/ Insert(s)
       \/ \E r \in Rows, to \in PaymentStatuses : ReadForStatus(s, r, to)
       \/ WriteStatus(s)
       \/ \E p \in PayIds : ReceiveCaptured(s, p)
       \/ \E p \in PayIds : ReceiveCheckout(s, p)
       \/ ReconcileWebhook(s)
       \/ ReconcileCheckout(s)
       \/ Abort(s)
  \/ \E p \in PayIds, r \in Rows : Checkout(p, r)
  \/ \E p \in PayIds : Capture(p)
  \/ MoveRequirement

Spec == Init /\ [][Next]_vars

(* The gateway redelivers payment.captured until it is acknowledged, and   *)
(* not every delivery dies before its commit.  Nobody else need ever act.  *)
Fairness ==
  /\ \A p \in PayIds : SF_vars(\E s \in Sessions : ReceiveCaptured(s, p))
  /\ \A s \in Sessions : SF_vars(ReconcileWebhook(s))

-----------------------------------------------------------------------------
(* A row carries a gateway payment id only if the gateway captured that    *)
(* payment on this row's order: /verify may not trust the client for it    *)
(* (client_payments.py:512-546), whatever it read before.                  *)
CreditMatchesCapture ==
  \A r \in Ledger : rows[r].payId # NoPay =>
    /\ payOrder[rows[r].payId] = r
    /\ rows[r].payId \in captured

(* The payment id a row was credited with is never exchanged for another   *)
(* one, whichever of webhook, checkout callback and admin come first or    *)
(* act on a stale read (payment_reconciliation_service.py:108-114).        *)
PaymentIdKept ==
  [][\A r \in Ledger : rows[r].payId # NoPay => rows'[r].payId = rows[r].payId]_vars

(* "New overpayments are rejected": what is paid never exceeds the quote.  *)
PaidWithinQuote == Overpaid(Quote, Paid) = 0

(* "a matching pending intent is reused": the client never has two pending *)
(* rows for the same amount and purpose (client_payments.py:128-163).      *)
PendingIntentsDistinct ==
  \A r, q \in Ledger :
    (/\ r # q
     /\ rows[r].mode # "manual" /\ rows[q].mode # "manual"
     /\ rows[r].status = "pending" /\ rows[q].status = "pending")
    => <<rows[r].purpose, rows[r].amount>> # <<rows[q].purpose, rows[q].amount>>

(* The capture path implements SettleOnce: a row's payment id is its       *)
(* charge's credit.                                                        *)
CreditOf == [r \in Rows |-> IF rows[r] = NoPayment THEN NoPay ELSE rows[r].payId]

Abstract == INSTANCE SettleOnce
              WITH Charges <- Rows, NoCharge <- NoRow, madeFor <- payOrder, credit <- CreditOf

SettlesOnce == Abstract!Spec

(* A captured payment is eventually recorded as paid, however its webhook  *)
(* deliveries race with each other and with the checkout callback.         *)
CaptureIsRecorded ==
  \A p \in PayIds : p \in captured ~> (p \in captured /\ rows[payOrder[p]].status = "paid")
=============================================================================
