------------------------ MODULE ClientPaymentsProofs ------------------------
(***************************************************************************)
(* Proofs about ClientPayments, for every number of rows, gateway          *)
(* payments, requests and amounts, and about the choice MCPaymentDesk      *)
(* makes between two mixes of requests.                                    *)
(***************************************************************************)
EXTENDS MCPaymentDesk, LedgerRulesProofs, TLAPS

(* Every request writes from a snapshot.  What makes that harmless for the *)
(* payment ids is that the snapshot itself never lies about the gateway:   *)
(* a payment id seen on a row was captured on it, and stays so.            *)
RequestOK(s) ==
  /\ sess[s].pc = "insert" => sess[s].val \in Payment /\ sess[s].val.payId = NoPay
  /\ sess[s].pc = "status" => sess[s].row \in Ledger
  /\ sess[s].pc \in {"webhook", "verify"} =>
       /\ sess[s].row \in Ledger
       /\ sess[s].pay \in PayIds
       /\ payOrder[sess[s].pay] = sess[s].row
       /\ sess[s].val \in Payment
       /\ sess[s].val.payId # NoPay => /\ payOrder[sess[s].val.payId] = sess[s].row
                                       /\ sess[s].val.payId \in captured
  /\ sess[s].pc = "webhook" => sess[s].pay \in captured

RequestsOK == \A s \in Sessions : RequestOK(s)

GatewayOK ==
  /\ \A p \in PayIds : payOrder[p] # NoRow => payOrder[p] \in Ledger
  /\ \A p \in captured : payOrder[p] # NoRow
  /\ SingleCapture => \A p, q \in captured : payOrder[p] = payOrder[q] => p = q

IInv == TypeOK /\ GatewayOK /\ RequestsOK /\ CreditMatchesCapture

USE QuoteAssumption, InputAssumption, NothingAssumption, AbsentAssumption, FiniteTable

LEMMA InitIInv == Init => IInv
  BY DEF Init, IInv, TypeOK, GatewayOK, RequestsOK, RequestOK, CreditMatchesCapture,
         Ledger, Idle, SessionState, PaymentStatuses

(* A session goes back to idle: nothing is asked of it any more.           *)
LEMMA IdleIsOK ==
  ASSUME TypeOK, NEW s \in Sessions, sess' = [sess EXCEPT ![s] = Idle]
  PROVE  /\ sess' \in [Sessions -> SessionState]
         /\ sess'[s].pc = "idle"
         /\ \A t \in Sessions \ {s} : sess'[t] = sess[t]
  BY DEF TypeOK, Idle, SessionState, PaymentStatuses

(* The endpoints that prepare a row to insert.                             *)
LEMMA PrepareStep ==
  ASSUME IInv, NEW s \in Sessions, NEW payment \in Payment, payment.payId = NoPay,
         Prepare(s, payment), UNCHANGED <<rows, reqStatus, payOrder, captured>>
  PROVE  IInv'
<1>1. /\ sess' \in [Sessions -> SessionState]
      /\ sess'[s].pc = "insert" /\ sess'[s].val = payment
      /\ \A t \in Sessions \ {s} : sess'[t] = sess[t]
  BY DEF IInv, TypeOK, Prepare, Idle, SessionState, PaymentStatuses
<1>2. TypeOK' /\ GatewayOK' /\ CreditMatchesCapture'
  BY <1>1 DEF IInv, TypeOK, GatewayOK, CreditMatchesCapture, Ledger
<1>3. RequestsOK'
  BY <1>1 DEF IInv, RequestsOK, RequestOK, Ledger
<1> QED BY <1>2, <1>3 DEF IInv

LEMMA CreateStep ==
  ASSUME IInv, NEW s \in Sessions
  PROVE  /\ CreateOrder(s) => IInv'
         /\ \A ref \in Refs : SubmitReference(s, ref) => IInv'
         /\ \A purpose \in ManualPurposes, amount \in ManualAmounts, status \in PaymentStatuses :
              RecordManual(s, purpose, amount, status) => IInv'
<1>1. ASSUME NEW i \in Intents
      PROVE  i.purpose \in PaymentPurposes /\ i.amount \in 0 .. MaxAmount
  BY DEF Intents, PaymentIntents, PaymentPurposes
<1>2. ASSUME CreateOrder(s) PROVE IInv'
  <2>1. PICK i \in Intents :
          Prepare(s, [purpose |-> i.purpose, mode |-> "gateway", status |-> "pending",
                      amount |-> i.amount, payId |-> NoPay, ref |-> NoRef])
    BY <1>2 DEF CreateOrder
  <2> DEFINE payment == [purpose |-> i.purpose, mode |-> "gateway", status |-> "pending",
                         amount |-> i.amount, payId |-> NoPay, ref |-> NoRef]
  <2>2. payment \in Payment /\ payment.payId = NoPay
    BY <1>1 DEF Payment, PaymentStatuses
  <2> QED BY <1>2, <2>1, <2>2, PrepareStep DEF CreateOrder
<1>3. ASSUME NEW ref \in Refs, SubmitReference(s, ref) PROVE IInv'
  <2>1. PICK i \in Intents :
          Prepare(s, [purpose |-> i.purpose, mode |-> "reference", status |-> "pending",
                      amount |-> i.amount, payId |-> NoPay, ref |-> ref])
    BY <1>3 DEF SubmitReference
  <2> DEFINE payment == [purpose |-> i.purpose, mode |-> "reference", status |-> "pending",
                         amount |-> i.amount, payId |-> NoPay, ref |-> ref]
  <2>2. payment \in Payment /\ payment.payId = NoPay
    BY <1>1 DEF Payment, PaymentStatuses
  <2> QED BY <1>3, <2>1, <2>2, PrepareStep DEF SubmitReference
<1>4. ASSUME NEW purpose \in ManualPurposes, NEW amount \in ManualAmounts,
             NEW status \in PaymentStatuses, RecordManual(s, purpose, amount, status)
      PROVE  IInv'
  <2> DEFINE payment == [purpose |-> purpose, mode |-> "manual", status |-> status,
                         amount |-> amount, payId |-> NoPay, ref |-> NoRef]
  <2>1. payment \in Payment /\ payment.payId = NoPay
    BY DEF Payment
  <2> QED BY <1>4, <2>1, PrepareStep DEF RecordManual
<1> QED BY <1>2, <1>3, <1>4

LEMMA InsertStep ==
  ASSUME IInv, NEW s \in Sessions, Insert(s)
  PROVE  IInv'
<1>1. PICK r \in Rows \ Ledger : rows' = [rows EXCEPT ![r] = sess[s].val]
  BY DEF Insert
<1>2. sess[s].val \in Payment /\ sess[s].val.payId = NoPay
  BY DEF IInv, RequestsOK, RequestOK, Insert
<1>3. /\ sess' \in [Sessions -> SessionState]
      /\ sess'[s].pc = "idle"
      /\ \A t \in Sessions \ {s} : sess'[t] = sess[t]
  BY IdleIsOK DEF IInv, Insert
<1>4. /\ rows' \in [Rows -> Payment \cup {NoPayment}]
      /\ Ledger' = Ledger \cup {r}
      /\ \A q \in Ledger : rows'[q] = rows[q]
      /\ rows'[r].payId = NoPay
  BY <1>1, <1>2 DEF IInv, TypeOK, Ledger
<1>5. TypeOK' /\ GatewayOK'
  BY <1>3, <1>4 DEF IInv, TypeOK, GatewayOK, Insert
<1>6. CreditMatchesCapture'
  BY <1>4 DEF IInv, CreditMatchesCapture, Insert
<1>7. RequestsOK'
  BY <1>3, <1>4 DEF IInv, RequestsOK, RequestOK, Insert
<1> QED BY <1>5, <1>6, <1>7 DEF IInv

(* A write to the columns of one existing row that keeps its payment id,   *)
(* or binds it to a payment captured on it.                                *)
LEMMA RowWriteStep ==
  ASSUME IInv, NEW s \in Sessions, NEW r \in Ledger, NEW w \in Payment,
         rows' = [rows EXCEPT ![r] = w],
         \/ w.payId = rows[r].payId
         \/ w.payId \in captured /\ payOrder[w.payId] = r,
         sess' = [sess EXCEPT ![s] = Idle],
         UNCHANGED <<reqStatus, payOrder, captured>>
  PROVE  IInv'
<1>1. /\ sess' \in [Sessions -> SessionState]
      /\ sess'[s].pc = "idle"
      /\ \A t \in Sessions \ {s} : sess'[t] = sess[t]
  BY IdleIsOK DEF IInv
<1>2. /\ rows' \in [Rows -> Payment \cup {NoPayment}]
      /\ Ledger' = Ledger
      /\ \A q \in Ledger \ {r} : rows'[q] = rows[q]
      /\ rows'[r] = w
  BY DEF IInv, TypeOK, Ledger
<1>3. TypeOK' /\ GatewayOK'
  BY <1>1, <1>2 DEF IInv, TypeOK, GatewayOK
<1>4. CreditMatchesCapture'
  BY <1>2 DEF IInv, CreditMatchesCapture
<1>5. RequestsOK'
  BY <1>1, <1>2 DEF IInv, RequestsOK, RequestOK
<1> QED BY <1>3, <1>4, <1>5 DEF IInv

LEMMA LedgerRowIsPayment ==
  ASSUME TypeOK, NEW r \in Ledger
  PROVE  r \in Rows /\ rows[r] \in Payment
  BY DEF TypeOK, Ledger

LEMMA StatusStep ==
  ASSUME IInv, NEW s \in Sessions
  PROVE  /\ \A r \in Rows, to \in PaymentStatuses : ReadForStatus(s, r, to) => IInv'
         /\ WriteStatus(s) => IInv'
<1>1. ASSUME NEW r \in Rows, NEW to \in PaymentStatuses, ReadForStatus(s, r, to)
      PROVE  IInv'
  <2>1. /\ sess' \in [Sessions -> SessionState]
        /\ sess'[s].pc = "status" /\ sess'[s].row = r
        /\ \A t \in Sessions \ {s} : sess'[t] = sess[t]
    BY <1>1 DEF IInv, TypeOK, ReadForStatus, Idle, SessionState, PaymentStatuses
  <2>2. r \in Ledger /\ UNCHANGED <<rows, reqStatus, payOrder, captured>>
    BY <1>1 DEF ReadForStatus
  <2>3. TypeOK' /\ GatewayOK' /\ CreditMatchesCapture'
    BY <2>1, <2>2 DEF IInv, TypeOK, GatewayOK, CreditMatchesCapture, Ledger
  <2>4. RequestsOK'
    BY <2>1, <2>2 DEF IInv, RequestsOK, RequestOK, Ledger
  <2> QED BY <2>3, <2>4 DEF IInv
<1>2. ASSUME WriteStatus(s) PROVE IInv'
  <2> DEFINE r == sess[s].row
             w == [rows[r] EXCEPT !.status = sess[s].to]
  <2>1. r \in Ledger
    BY <1>2 DEF IInv, RequestsOK, RequestOK, WriteStatus
  <2>2. rows[r] \in Payment /\ sess[s].to \in PaymentStatuses
    BY <2>1, LedgerRowIsPayment DEF IInv, TypeOK, SessionState
  <2>3. w \in Payment /\ w.payId = rows[r].payId
    BY <2>2 DEF Payment
  <2>4. rows' = [rows EXCEPT ![r] = w]
    BY <1>2 DEF WriteStatus
  <2> QED BY <1>2, <2>1, <2>3, <2>4, RowWriteStep DEF WriteStatus
<1> QED BY <1>1, <1>2

(* The two ways a captured payment comes in, read step.                    *)
LEMMA ReceiveStep ==
  ASSUME IInv, NEW s \in Sessions, NEW p \in PayIds
  PROVE  (ReceiveCaptured(s, p) \/ ReceiveCheckout(s, p)) => IInv'
<1> SUFFICES ASSUME ReceiveCaptured(s, p) \/ ReceiveCheckout(s, p) PROVE IInv'
  OBVIOUS
<1> DEFINE r == payOrder[p]
<1>1. r \in Ledger /\ rows[r] \in Payment
  BY LedgerRowIsPayment DEF IInv, GatewayOK, ReceiveCaptured, ReceiveCheckout
<1>2. PICK pc \in {"webhook", "verify"} :
        /\ sess' = [sess EXCEPT ![s] = [Idle EXCEPT !.pc = pc, !.row = r, !.pay = p,
                                                    !.val = rows[r]]]
        /\ pc = "webhook" => p \in captured
  BY DEF ReceiveCaptured, ReceiveCheckout, Load
<1>3. /\ sess' \in [Sessions -> SessionState]
      /\ sess'[s].pc = pc /\ sess'[s].row = r /\ sess'[s].pay = p /\ sess'[s].val = rows[r]
      /\ \A t \in Sessions \ {s} : sess'[t] = sess[t]
  BY <1>1, <1>2 DEF IInv, TypeOK, Ledger, Idle, SessionState, PaymentStatuses
<1>4. UNCHANGED <<rows, reqStatus, payOrder, captured>>
  BY DEF ReceiveCaptured, ReceiveCheckout
<1>5. TypeOK' /\ GatewayOK' /\ CreditMatchesCapture'
  BY <1>3, <1>4 DEF IInv, TypeOK, GatewayOK, CreditMatchesCapture, Ledger
<1>6. RequestOK(s)'
  BY <1>1, <1>2, <1>3, <1>4 DEF IInv, CreditMatchesCapture, RequestOK, Ledger
<1>7. RequestsOK'
  BY <1>3, <1>4, <1>6 DEF IInv, RequestsOK, RequestOK, Ledger
<1> QED BY <1>5, <1>7 DEF IInv

(* The write of the reconciliation service, from either caller: it binds   *)
(* the row only to a captured payment, although `seen` may be stale.       *)
LEMMA ReconcileWrite ==
  ASSUME IInv, NEW s \in Sessions, ReconcileWebhook(s) \/ ReconcileCheckout(s)
  PROVE  \/ UNCHANGED rows
         \/ /\ sess[s].row \in Ledger
            /\ sess[s].pay \in captured
            /\ payOrder[sess[s].pay] = sess[s].row
            /\ \E id \in {rows[sess[s].row].payId, sess[s].pay} :
                 rows' = [rows EXCEPT ![sess[s].row] =
                            [rows[sess[s].row] EXCEPT !.payId = id, !.status = "paid"]]
<1> DEFINE r == sess[s].row
           p == sess[s].pay
           seen == sess[s].val
<1>1. /\ r \in Ledger
      /\ payOrder[p] = r
      /\ seen.payId # NoPay => seen.payId \in captured
      /\ sess[s].pc = "webhook" => p \in captured
  BY DEF IInv, RequestsOK, RequestOK, ReconcileWebhook, ReconcileCheckout
<1>2. CASE Conflicts(r, p, seen) \/ AlreadySettled(seen) \/ seen.status \notin {"pending", "failed"}
  BY <1>2 DEF ReconcileWebhook, ReconcileCheckout, Reconcile
<1>3. CASE ~(Conflicts(r, p, seen) \/ AlreadySettled(seen) \/ seen.status \notin {"pending", "failed"})
  <2>1. MarkPaid(r, p, seen)
    BY <1>3 DEF ReconcileWebhook, ReconcileCheckout, Reconcile
  <2>2. seen.payId \in {NoPay, p}
    BY <1>3 DEF Conflicts
  <2>3. p \in captured
    BY <1>1, <2>2 DEF ReconcileWebhook, ReconcileCheckout
  <2>4. rows[r] \in Payment
    BY <1>1, LedgerRowIsPayment DEF IInv
  <2>5. \E id \in {rows[r].payId, p} :
          rows' = [rows EXCEPT ![r] = [rows[r] EXCEPT !.payId = id, !.status = "paid"]]
    <3>1. CASE seen.payId = p
      <4> WITNESS rows[r].payId \in {rows[r].payId, p}
      <4> QED BY <1>1, <2>1, <2>4, <3>1 DEF MarkPaid, IInv, TypeOK, Payment, Ledger
    <3>2. CASE seen.payId # p
      <4> WITNESS p \in {rows[r].payId, p}
      <4> QED BY <1>1, <2>1, <2>4, <3>2 DEF MarkPaid, IInv, TypeOK, Payment, Ledger
    <3> QED BY <3>1, <3>2
  <2> QED BY <1>1, <2>3, <2>5
<1> QED BY <1>2, <1>3

LEMMA ReconcileStep ==
  ASSUME IInv, NEW s \in Sessions, ReconcileWebhook(s) \/ ReconcileCheckout(s)
  PROVE  IInv'
<1> DEFINE r == sess[s].row
           p == sess[s].pay
<1>1. /\ sess' = [sess EXCEPT ![s] = Idle]
      /\ UNCHANGED <<reqStatus, payOrder, captured>>
  BY DEF ReconcileWebhook, ReconcileCheckout
<1>2. CASE UNCHANGED rows
  <2>1. /\ sess' \in [Sessions -> SessionState]
        /\ sess'[s].pc = "idle"
        /\ \A t \in Sessions \ {s} : sess'[t] = sess[t]
    BY <1>1, IdleIsOK DEF IInv
  <2> QED BY <1>1, <1>2, <2>1 DEF IInv, TypeOK, GatewayOK, RequestsOK, RequestOK,
                                  CreditMatchesCapture, Ledger
<1>3. CASE ~UNCHANGED rows
  <2>1. /\ r \in Ledger /\ p \in captured /\ payOrder[p] = r
        /\ \E id \in {rows[r].payId, p} :
             rows' = [rows EXCEPT ![r] = [rows[r] EXCEPT !.payId = id, !.status = "paid"]]
    BY <1>3, ReconcileWrite
  <2>2. rows[r] \in Payment /\ captured \subseteq PayIds
    BY <2>1, LedgerRowIsPayment DEF IInv, TypeOK
  <2>3. PICK id \in {rows[r].payId, p} :
          rows' = [rows EXCEPT ![r] = [rows[r] EXCEPT !.payId = id, !.status = "paid"]]
    BY <2>1
  <2> DEFINE w == [rows[r] EXCEPT !.payId = id, !.status = "paid"]
  <2>4. w \in Payment /\ w.payId = id
    BY <2>1, <2>2, <2>3 DEF Payment, PaymentStatuses
  <2> QED BY <1>1, <2>1, <2>3, <2>4, RowWriteStep
<1> QED BY <1>2, <1>3

LEMMA GatewayStep ==
  ASSUME IInv
  PROVE  /\ \A p \in PayIds, r \in Rows : Checkout(p, r) => IInv'
         /\ \A p \in PayIds : Capture(p) => IInv'
<1>1. ASSUME NEW p \in PayIds, NEW r \in Rows, Checkout(p, r) PROVE IInv'
  <2>1. /\ payOrder' \in [PayIds -> Rows \cup {NoRow}]
        /\ payOrder'[p] = r /\ r \in Ledger /\ payOrder[p] = NoRow
        /\ \A q \in PayIds \ {p} : payOrder'[q] = payOrder[q]
        /\ UNCHANGED <<rows, reqStatus, captured, sess>>
    BY <1>1 DEF IInv, TypeOK, Checkout
  <2>2. p \notin captured
    BY <2>1 DEF IInv, GatewayOK
  <2>3. TypeOK' /\ GatewayOK'
    BY <2>1, <2>2 DEF IInv, TypeOK, GatewayOK, Ledger
  <2>4. CreditMatchesCapture'
    BY <2>1, <2>2 DEF IInv, TypeOK, CreditMatchesCapture, Ledger
  <2>5. ASSUME NEW s \in Sessions PROVE RequestOK(s)'
    <3>1. RequestOK(s)
      BY DEF IInv, RequestsOK
    <3>2. sess[s].row \in Ledger => sess[s].row # NoRow
      BY DEF Ledger
    <3> QED BY <2>1, <2>2, <3>1, <3>2 DEF IInv, TypeOK, RequestOK, Ledger
  <2> QED BY <2>3, <2>4, <2>5 DEF IInv, RequestsOK
<1>2. ASSUME NEW p \in PayIds, Capture(p) PROVE IInv'
  <2>1. /\ captured' = captured \cup {p} /\ payOrder[p] # NoRow
        /\ SingleCapture => \A q \in captured : payOrder[q] # payOrder[p]
        /\ UNCHANGED <<rows, reqStatus, payOrder, sess>>
    BY <1>2 DEF Capture
  <2>2. TypeOK' /\ GatewayOK' /\ CreditMatchesCapture'
    BY <2>1 DEF IInv, TypeOK, GatewayOK, CreditMatchesCapture, Ledger
  <2>3. RequestsOK'
    BY <2>1 DEF IInv, RequestsOK, RequestOK, Ledger
  <2> QED BY <2>2, <2>3 DEF IInv
<1> QED BY <1>1, <1>2

LEMMA OtherStep ==
  ASSUME IInv
  PROVE  /\ \A s \in Sessions : Abort(s) => IInv'
         /\ MoveRequirement => IInv'
         /\ UNCHANGED vars => IInv'
<1>1. ASSUME NEW s \in Sessions, Abort(s) PROVE IInv'
  <2>1. /\ sess' \in [Sessions -> SessionState]
        /\ sess'[s].pc = "idle"
        /\ \A t \in Sessions \ {s} : sess'[t] = sess[t]
        /\ UNCHANGED <<rows, reqStatus, payOrder, captured>>
    BY <1>1, IdleIsOK DEF IInv, Abort
  <2> QED BY <2>1 DEF IInv, TypeOK, GatewayOK, RequestsOK, RequestOK, CreditMatchesCapture, Ledger
<1>2. ASSUME MoveRequirement PROVE IInv'
  <2>1. /\ reqStatus' \in {"approved", "workers_assigned", "in_progress", "completed", "cancelled"}
        /\ UNCHANGED <<rows, payOrder, captured, sess>>
    BY <1>2 DEF MoveRequirement, RequirementMoves
  <2> QED BY <2>1 DEF IInv, TypeOK, GatewayOK, RequestsOK, RequestOK, CreditMatchesCapture, Ledger
<1>3. ASSUME UNCHANGED vars PROVE IInv'
  BY <1>3 DEF vars, IInv, TypeOK, GatewayOK, RequestsOK, RequestOK, CreditMatchesCapture, Ledger
<1> QED BY <1>1, <1>2, <1>3

LEMMA NextIInv == IInv /\ [Next]_vars => IInv'
<1> SUFFICES ASSUME IInv, [Next]_vars PROVE IInv'
  OBVIOUS
<1>1. CASE Next
  <2>1. ASSUME NEW s \in Sessions,
               \/ CreateOrder(s)
               \/ \E ref \in Refs : SubmitReference(s, ref)
               \/ \E purpose \in ManualPurposes, amount \in ManualAmounts,
                     status \in PaymentStatuses : RecordManual(s, purpose, amount, status)
        PROVE  IInv'
    BY <2>1, CreateStep
  <2>2. ASSUME NEW s \in Sessions, Insert(s) PROVE IInv'
    BY <2>2, InsertStep
  <2>3. ASSUME NEW s \in Sessions,
               \/ \E r \in Rows, to \in PaymentStatuses : ReadForStatus(s, r, to)
               \/ WriteStatus(s)
        PROVE  IInv'
    BY <2>3, StatusStep
  <2>4. ASSUME NEW s \in Sessions,
               \/ \E p \in PayIds : ReceiveCaptured(s, p)
               \/ \E p \in PayIds : ReceiveCheckout(s, p)
        PROVE  IInv'
    BY <2>4, ReceiveStep
  <2>5. ASSUME NEW s \in Sessions, ReconcileWebhook(s) \/ ReconcileCheckout(s) PROVE IInv'
    BY <2>5, ReconcileStep
  <2>6. ASSUME \/ \E s \in Sessions : Abort(s)
               \/ \E p \in PayIds, r \in Rows : Checkout(p, r)
               \/ \E p \in PayIds : Capture(p)
               \/ MoveRequirement
        PROVE  IInv'
    BY <2>6, OtherStep, GatewayStep
  <2> QED BY <1>1, <2>1, <2>2, <2>3, <2>4, <2>5, <2>6 DEF Next
<1>2. CASE UNCHANGED vars
  BY <1>2, OtherStep
<1> QED BY <1>1, <1>2

LEMMA Invariance == Spec => []IInv
  BY InitIInv, NextIInv, PTL DEF Spec

(* Every reachable state of the tables, the gateway and the requests in    *)
(* flight is well typed (models/client_payment.py, the endpoints' locals). *)
THEOREM TypeCorrect == Spec => []TypeOK
  BY Invariance, PTL DEF IInv

(* However webhooks, checkout callbacks, admins and crashes interleave, a  *)
(* row carries only a payment the gateway captured on that row's order.    *)
THEOREM CreditsAreCaptures == Spec => []CreditMatchesCapture
  BY Invariance, PTL DEF IInv

-----------------------------------------------------------------------------
(* The steps that leave every credit and the gateway alone.                *)
Quiet == CreditOf' = CreditOf /\ UNCHANGED <<payOrder, captured>>

LEMMA InsertIsQuiet ==
  ASSUME IInv, NEW s \in Sessions, Insert(s)
  PROVE  Quiet
<1>1. PICK r \in Rows \ Ledger : rows' = [rows EXCEPT ![r] = sess[s].val]
  BY DEF Insert
<1>2. sess[s].val \in Payment /\ sess[s].val.payId = NoPay /\ rows[r] = NoPayment
  BY <1>1 DEF IInv, RequestsOK, RequestOK, Insert, Ledger
<1>3. \A q \in Rows : (IF rows'[q] = NoPayment THEN NoPay ELSE rows'[q].payId)
                      = (IF rows[q] = NoPayment THEN NoPay ELSE rows[q].payId)
  BY <1>1, <1>2 DEF IInv, TypeOK
<1> QED BY <1>3 DEF Quiet, CreditOf, Insert

LEMMA WriteStatusIsQuiet ==
  ASSUME IInv, NEW s \in Sessions, WriteStatus(s)
  PROVE  Quiet
<1> DEFINE r == sess[s].row
<1>1. r \in Ledger
  BY DEF IInv, RequestsOK, RequestOK, WriteStatus
<1>2. rows[r] \in Payment /\ rows[r] # NoPayment /\ r \in Rows
  BY <1>1, LedgerRowIsPayment DEF IInv, Ledger
<1>3. rows' = [rows EXCEPT ![r] = [rows[r] EXCEPT !.status = sess[s].to]]
  BY DEF WriteStatus
<1>4. [rows[r] EXCEPT !.status = sess[s].to] \in Payment
  BY <1>2 DEF IInv, TypeOK, SessionState, Payment
<1>5. rows'[r].payId = rows[r].payId /\ rows'[r] # NoPayment
  BY <1>2, <1>3, <1>4 DEF IInv, TypeOK, Payment
<1>6. \A q \in Rows \ {r} : rows'[q] = rows[q]
  BY <1>3 DEF IInv, TypeOK
<1> QED BY <1>2, <1>5, <1>6 DEF Quiet, CreditOf, WriteStatus

LEMMA ReconcileCredits ==
  ASSUME IInv, SingleCapture, NEW s \in Sessions, ReconcileWebhook(s) \/ ReconcileCheckout(s)
  PROVE  Quiet \/ Abstract!Credit(sess[s].row, sess[s].pay)
<1> DEFINE r == sess[s].row
           p == sess[s].pay
<1>1. UNCHANGED <<payOrder, captured>>
  BY DEF ReconcileWebhook, ReconcileCheckout
<1>2. CASE UNCHANGED rows
  BY <1>1, <1>2 DEF Quiet, CreditOf
<1>3. CASE ~UNCHANGED rows
  <2>1. /\ r \in Ledger /\ p \in captured /\ payOrder[p] = r
        /\ \E id \in {rows[r].payId, p} :
             rows' = [rows EXCEPT ![r] = [rows[r] EXCEPT !.payId = id, !.status = "paid"]]
    BY <1>3, ReconcileWrite
  <2>2. rows[r] \in Payment /\ rows[r] # NoPayment /\ r \in Rows
    BY <2>1, LedgerRowIsPayment DEF IInv, Ledger
  <2>3. rows[r].payId \in {NoPay, p}
    BY <2>1 DEF IInv, CreditMatchesCapture, GatewayOK
  <2>4. PICK id \in {rows[r].payId, p} :
          rows' = [rows EXCEPT ![r] = [rows[r] EXCEPT !.payId = id, !.status = "paid"]]
    BY <2>1
  <2>5. [rows[r] EXCEPT !.payId = id, !.status = "paid"] \in Payment
    BY <2>1, <2>2, <2>4 DEF IInv, TypeOK, Payment, PaymentStatuses
  <2>6. rows'[r] # NoPayment /\ rows'[r].payId = id
    BY <2>2, <2>4, <2>5 DEF IInv, TypeOK, Payment
  <2>7. \A q \in Rows \ {r} : rows'[q] = rows[q]
    BY <2>4 DEF IInv, TypeOK
  <2>8. CreditOf[r] = rows[r].payId /\ CreditOf' = [CreditOf EXCEPT ![r] = id]
    BY <2>2, <2>6, <2>7 DEF CreditOf
  <2>9. CASE id = rows[r].payId
    <3>1. CreditOf' = CreditOf
      BY <2>2, <2>8, <2>9 DEF CreditOf
    <3> QED BY <1>1, <3>1 DEF Quiet
  <2>10. CASE id # rows[r].payId
    BY <1>1, <2>1, <2>3, <2>4, <2>8, <2>10 DEF Abstract!Credit
  <2> QED BY <2>9, <2>10
<1> QED BY <1>2, <1>3

LEMMA QuietStutters == Quiet => UNCHANGED Abstract!vars
  BY DEF Quiet, Abstract!vars

(* Every step of the endpoints, the gateway and the admins is a step of    *)
(* SettleOnce, or none.                                                    *)
LEMMA StepIsAbstract ==
  ASSUME IInv, SingleCapture, [Next]_vars
  PROVE  [Abstract!Next]_(Abstract!vars)
<1>1. ASSUME UNCHANGED rows, UNCHANGED payOrder, UNCHANGED captured
      PROVE  UNCHANGED Abstract!vars
  BY <1>1, QuietStutters DEF Quiet, CreditOf
<1>2. ASSUME NEW s \in Sessions,
             \/ CreateOrder(s)
             \/ \E ref \in Refs : SubmitReference(s, ref)
             \/ \E purpose \in ManualPurposes, amount \in ManualAmounts,
                   status \in PaymentStatuses : RecordManual(s, purpose, amount, status)
             \/ \E r \in Rows, to \in PaymentStatuses : ReadForStatus(s, r, to)
             \/ \E p \in PayIds : ReceiveCaptured(s, p)
             \/ \E p \in PayIds : ReceiveCheckout(s, p)
             \/ Abort(s)
      PROVE  UNCHANGED Abstract!vars
  BY <1>1, <1>2 DEF CreateOrder, SubmitReference, RecordManual, ReadForStatus,
                    ReceiveCaptured, ReceiveCheckout, Abort
<1>3. ASSUME NEW s \in Sessions, Insert(s) \/ WriteStatus(s)
      PROVE  UNCHANGED Abstract!vars
  BY <1>3, InsertIsQuiet, WriteStatusIsQuiet, QuietStutters
<1>4. ASSUME NEW s \in Sessions, ReconcileWebhook(s) \/ ReconcileCheckout(s)
      PROVE  [Abstract!Next]_(Abstract!vars)
  <2>1. CASE Quiet
    BY <2>1, QuietStutters
  <2>2. CASE Abstract!Credit(sess[s].row, sess[s].pay)
    <3>1. sess[s].row \in Rows /\ sess[s].pay \in PayIds
      BY <1>4 DEF IInv, RequestsOK, RequestOK, Ledger, ReconcileWebhook, ReconcileCheckout
    <3> QED BY <2>2, <3>1 DEF Abstract!Next
  <2> QED BY <1>4, <2>1, <2>2, ReconcileCredits
<1>5. ASSUME NEW p \in PayIds, NEW r \in Rows, Checkout(p, r)
      PROVE  Abstract!Next
  <2>1. Abstract!Pay(p, r)
    BY <1>5 DEF Checkout, Abstract!Pay, CreditOf
  <2> QED BY <2>1 DEF Abstract!Next
<1>6. ASSUME NEW p \in PayIds, Capture(p)
      PROVE  Abstract!Next
  <2>1. Abstract!CapturePayment(p)
    BY <1>6 DEF Capture, Abstract!CapturePayment, CreditOf
  <2> QED BY <2>1 DEF Abstract!Next
<1>7. CASE MoveRequirement
  BY <1>1, <1>7 DEF MoveRequirement
<1>8. CASE UNCHANGED vars
  BY <1>1, <1>8 DEF vars
<1> QED BY <1>2, <1>3, <1>4, <1>5, <1>6, <1>7, <1>8 DEF Next

(* If the gateway captures at most one payment per order, the endpoints    *)
(* implement SettleOnce: a charge is credited at most once, with a         *)
(* captured payment made for it, and keeps that credit.                    *)
THEOREM CaptureImplementsSettleOnce ==
  ASSUME SingleCapture
  PROVE  Spec => SettlesOnce
<1>1. Init => Abstract!Init
  BY DEF Init, Abstract!Init, CreditOf
<1>2. IInv /\ [Next]_vars => [Abstract!Next]_(Abstract!vars)
  BY StepIsAbstract
<1> QED BY <1>1, <1>2, Invariance, PTL DEF Spec, SettlesOnce, Abstract!Spec

(* Under the same assumption a recorded payment id is never exchanged,     *)
(* stale reads of webhooks and callbacks included.                         *)
THEOREM PaymentIdNeverExchanged ==
  ASSUME SingleCapture
  PROVE  Spec => PaymentIdKept
<1> DEFINE Kept == \A r \in Ledger : rows[r].payId # NoPay => rows'[r].payId = rows[r].payId
<1>1. ASSUME IInv, [Abstract!Next]_(Abstract!vars) PROVE Kept
  <2>1. ASSUME NEW r \in Rows PROVE CreditOf[r] # NoPay => CreditOf'[r] = CreditOf[r]
    BY <1>1, <2>1 DEF Abstract!Next, Abstract!vars, Abstract!Pay, Abstract!Credit,
                      Abstract!CapturePayment, CreditOf
  <2> QED BY <2>1 DEF CreditOf, Ledger
<1>2. IInv /\ [Next]_vars => Kept
  BY <1>1, StepIsAbstract
<1>3. IInv /\ [Next]_vars => [Kept]_vars
  BY <1>2
<1> QED BY <1>3, Invariance, PTL DEF Spec, PaymentIdKept

-----------------------------------------------------------------------------
(* One client at a time, nobody at the office: c is the only request that  *)
(* creates rows, beside any number of webhooks and checkout callbacks.     *)
OneCreator(c) ==
  /\ Serves[c] \cap {"manual", "status"} = {}
  /\ \A s \in Sessions \ {c} : Serves[s] \subseteq {"webhook", "verify"}

PaidRows    == {r \in Ledger : rows[r].status = "paid"}
PendingRows == {r \in Ledger : rows[r].status = "pending"}

(* A payment that, once made, completes the advance or the quote.          *)
Fits(v) ==
  /\ v.amount > 0
  /\ \/ v.purpose = "advance" /\ Paid + v.amount = Quote.advance
     \/ v.purpose = "balance" /\ Paid + v.amount = Quote.total /\ Quote.advance <= Paid

(* One payment is open at a time, in the table or about to be inserted,    *)
(* and it fits what is paid; what is paid does not move while it is open.  *)
OneOpen(c) ==
  /\ \A r \in Ledger : /\ rows[r].purpose \in {"advance", "balance"}
                       /\ rows[r].status \in {"pending", "paid"}
  /\ \A r, q \in PendingRows : r = q
  /\ \A r \in PendingRows : Fits(rows[r])
  /\ Paid <= Quote.total
  /\ \A s \in Sessions :
       /\ sess[s].pc # "status"
       /\ sess[s].pc = "insert" =>
            /\ s = c /\ PendingRows = {}
            /\ sess[s].val.status = "pending"
            /\ sess[s].val.purpose \in {"advance", "balance"}
            /\ Fits(sess[s].val)

LEMMA LedgerFacts ==
  ASSUME TypeOK
  PROVE  /\ IsFiniteSet(Ledger)
         /\ \A r \in Ledger : r \in Rows /\ rows[r] \in Payment /\ rows[r].amount \in Nat
  BY LedgerRowIsPayment, FS_Subset DEF Ledger, Payment

LEMMA PaidIsSum ==
  ASSUME TypeOK, \A r \in Ledger : ~IsRefund(rows[r])
  PROVE  Paid = SumOf(rows, PaidRows) /\ Paid \in Nat
  BY LedgerFacts, NetOfCharges DEF Paid, PaidRows

LEMMA PaidIsSumNext ==
  ASSUME TypeOK', \A r \in Ledger' : rows'[r].purpose # "refund"
  PROVE  Paid' = SumOf(rows', PaidRows') /\ Paid' \in Nat
<1>1. /\ IsFiniteSet(Ledger')
      /\ \A r \in Ledger' : rows'[r].amount \in Nat /\ ~IsRefund(rows'[r])
  BY FS_Subset DEF TypeOK, Ledger, Payment, IsRefund
<1> QED BY <1>1, NetOfCharges DEF Paid, PaidRows

LEMMA InitOneOpen == ASSUME NEW c \in Sessions PROVE Init => OneOpen(c)
<1> SUFFICES ASSUME Init PROVE OneOpen(c)
  OBVIOUS
<1>1. Ledger = {} /\ TypeOK
  BY InitIInv DEF Init, Ledger, IInv
<1>2. PaidRows = {} /\ PendingRows = {}
  BY <1>1 DEF PaidRows, PendingRows
<1>3. Paid = 0
  BY <1>1, <1>2, PaidIsSum, SumEmpty
<1>4. \A s \in Sessions : sess[s].pc = "idle"
  BY DEF Init, Idle
<1> QED BY <1>1, <1>2, <1>3, <1>4 DEF OneOpen, ValidQuote

(* An intent fits, and two payments that fit are for the same.             *)
LEMMA IntentFits ==
  ASSUME NEW paid \in Nat, paid = Paid, NEW i \in Intents
  PROVE  /\ i.purpose \in {"advance", "balance"} /\ Fits(i)
         /\ \A v : Fits(v) /\ v.amount \in Nat => v.amount = i.amount /\ v.purpose = i.purpose
<1>1. i \in PaymentIntents(Quote, reqStatus, paid)
  BY DEF Intents
<1>2. i.purpose \in {"advance", "balance"}
  BY <1>1 DEF PaymentIntents
<1>3. /\ i.amount \in Nat \ {0}
      /\ i.purpose = "advance" => paid + i.amount = Quote.advance
      /\ i.purpose = "balance" => paid + i.amount = Quote.total /\ Quote.advance <= paid
  BY <1>1, OneIntent
<1>4. Fits(i)
  BY <1>2, <1>3 DEF Fits
<1>5. ASSUME NEW v, Fits(v), v.amount \in Nat PROVE v.amount = i.amount /\ v.purpose = i.purpose
  BY <1>2, <1>3, <1>5 DEF Fits, ValidQuote
<1> QED BY <1>2, <1>4, <1>5

(* With a payment open the server derives that payment again.              *)
LEMMA NothingPending ==
  ASSUME IInv, NEW c \in Sessions, OneOpen(c), NEW i \in Intents, ~AlreadyPending(i)
  PROVE  PendingRows = {} /\ Fits(i) /\ i.purpose \in {"advance", "balance"}
<1>1. Paid \in Nat
  BY PaidIsSum DEF IInv, OneOpen, IsRefund
<1>2. ASSUME NEW r \in PendingRows PROVE FALSE
  <2>1. Fits(rows[r]) /\ rows[r].amount \in Nat /\ r \in Ledger /\ rows[r].status = "pending"
    BY LedgerFacts DEF OneOpen, PendingRows, IInv
  <2>2. rows[r].amount = i.amount /\ rows[r].purpose = i.purpose
    BY <1>1, <2>1, IntentFits
  <2> QED BY <2>1, <2>2 DEF AlreadyPending
<1> QED BY <1>1, <1>2, IntentFits

(* The same rows: a request moves, and what is paid stays.                 *)
LEMMA SameLedger ==
  ASSUME UNCHANGED rows
  PROVE  Ledger' = Ledger /\ PaidRows' = PaidRows /\ PendingRows' = PendingRows /\ Paid' = Paid
  BY DEF Ledger, PaidRows, PendingRows, Paid

LEMMA PrepareOpen ==
  ASSUME IInv, NEW c \in Sessions, OneOpen(c), NEW payment \in Payment,
         PendingRows = {}, Fits(payment),
         payment.purpose \in {"advance", "balance"}, payment.status = "pending",
         Prepare(c, payment), UNCHANGED rows
  PROVE  OneOpen(c)'
<1>1. /\ sess'[c].pc = "insert" /\ sess'[c].val = payment
      /\ \A t \in Sessions \ {c} : sess'[t] = sess[t]
  BY DEF IInv, TypeOK, Prepare, Idle, SessionState, PaymentStatuses
<1> QED BY <1>1, SameLedger DEF OneOpen, Fits

LEMMA CreateOpen ==
  ASSUME NEW c \in Sessions, OneCreator(c), IInv, OneOpen(c), NEW s \in Sessions,
         CreateOrder(s) \/ \E ref \in Refs : SubmitReference(s, ref)
  PROVE  OneOpen(c)'
<1>1. s = c /\ UNCHANGED rows
  BY DEF OneCreator, CreateOrder, SubmitReference, May
<1>2. PICK i \in Intents, mode \in {"gateway", "reference"}, ref \in Refs \cup {NoRef} :
        /\ ~AlreadyPending(i)
        /\ Prepare(s, [purpose |-> i.purpose, mode |-> mode, status |-> "pending",
                       amount |-> i.amount, payId |-> NoPay, ref |-> ref])
  BY DEF CreateOrder, SubmitReference
<1> DEFINE payment == [purpose |-> i.purpose, mode |-> mode, status |-> "pending",
                       amount |-> i.amount, payId |-> NoPay, ref |-> ref]
<1>3. PendingRows = {} /\ Fits(i) /\ i.purpose \in {"advance", "balance"}
  BY <1>2, NothingPending
<1>4. payment \in Payment /\ Fits(payment)
  BY <1>3 DEF Payment, PaymentStatuses, PaymentPurposes, Intents, Fits
<1> HIDE DEF payment
<1>5. payment.purpose \in {"advance", "balance"} /\ payment.status = "pending"
  BY <1>3 DEF payment
<1>6. Prepare(c, payment)
  BY <1>1, <1>2 DEF payment
<1> QED BY <1>1, <1>3, <1>4, <1>5, <1>6, PrepareOpen

LEMMA InsertOpen ==
  ASSUME IInv, IInv', NEW c \in Sessions, OneOpen(c), NEW s \in Sessions, Insert(s)
  PROVE  OneOpen(c)'
<1> DEFINE val == sess[s].val
<1>1. PICK r \in Rows \ Ledger : rows' = [rows EXCEPT ![r] = val]
  BY DEF Insert
<1>2. /\ s = c /\ PendingRows = {} /\ val \in Payment
      /\ val.status = "pending" /\ val.purpose \in {"advance", "balance"} /\ Fits(val)
  BY DEF Insert, OneOpen, IInv, RequestsOK, RequestOK
<1>3. /\ sess'[c].pc = "idle"
      /\ \A t \in Sessions \ {c} : sess'[t] = sess[t]
  BY <1>2, IdleIsOK DEF IInv, Insert
<1>4. /\ Ledger' = Ledger \cup {r} /\ rows'[r] = val
      /\ \A q \in Ledger : rows'[q] = rows[q] /\ q # r
  BY <1>1, <1>2 DEF IInv, TypeOK, Ledger
<1>5. PaidRows' = PaidRows /\ PendingRows' = {r}
  BY <1>2, <1>4 DEF PaidRows, PendingRows
<1>6. Paid' = Paid
  <2>1. \A q \in Ledger' : rows'[q].purpose # "refund"
    BY <1>2, <1>4 DEF OneOpen
  <2>2. Paid' = SumOf(rows', PaidRows')
    BY <2>1, PaidIsSumNext DEF IInv
  <2>3. Paid = SumOf(rows, PaidRows)
    BY PaidIsSum DEF IInv, OneOpen, IsRefund
  <2>4. IsFiniteSet(PaidRows) /\ PaidRows \subseteq Ledger
    BY LedgerFacts, FS_Subset DEF PaidRows, IInv
  <2>5. SumOf(rows', PaidRows) = SumOf(rows, PaidRows)
    BY <1>4, <2>4, SumAgrees
  <2> QED BY <1>5, <2>2, <2>3, <2>5
<1>7. Fits(rows[r])'
  BY <1>2, <1>4, <1>6 DEF Fits
<1> QED BY <1>2, <1>3, <1>4, <1>5, <1>6, <1>7 DEF OneOpen

(* A row becomes paid, or is already: what is open is settled.             *)
LEMMA MarkPaidOpen ==
  ASSUME IInv, IInv', NEW c \in Sessions, OneOpen(c), NEW r \in Ledger,
         NEW id \in PayIds \cup {NoPay},
         rows' = [rows EXCEPT ![r] = [rows[r] EXCEPT !.payId = id, !.status = "paid"]],
         NEW s \in Sessions, sess' = [sess EXCEPT ![s] = Idle]
  PROVE  OneOpen(c)'
<1> DEFINE w == [rows[r] EXCEPT !.payId = id, !.status = "paid"]
<1>1. /\ sess'[s].pc = "idle"
      /\ \A t \in Sessions \ {s} : sess'[t] = sess[t]
  BY IdleIsOK DEF IInv
<1>2. rows[r] \in Payment /\ r \in Rows /\ rows[r].amount \in Nat
  BY LedgerFacts DEF IInv
<1>3. /\ w \in Payment /\ w.status = "paid" /\ w.purpose = rows[r].purpose
      /\ w.amount = rows[r].amount
  BY <1>2 DEF Payment, PaymentStatuses
<1> HIDE DEF w
<1>4. rows'[r] = w /\ \A q \in Rows \ {r} : rows'[q] = rows[q]
  BY <1>2 DEF IInv, TypeOK, w
<1>5. Ledger' = Ledger /\ Ledger \subseteq Rows
  BY <1>3, <1>4 DEF Ledger
<1>6. PaidRows' = PaidRows \cup {r} /\ PendingRows' = PendingRows \ {r}
  BY <1>3, <1>4, <1>5 DEF PaidRows, PendingRows
<1>7. /\ IsFiniteSet(PaidRows) /\ PaidRows \subseteq Ledger
      /\ \A q \in Ledger : rows[q].amount \in Nat /\ rows'[q].amount = rows[q].amount
  BY <1>3, <1>4, <1>5, LedgerFacts, FS_Subset DEF PaidRows, IInv
<1>8. Paid = SumOf(rows, PaidRows) /\ Paid \in Nat
  BY PaidIsSum DEF IInv, OneOpen, IsRefund
<1>9. Paid' = SumOf(rows', PaidRows') /\ Paid' \in Nat
  <2>1. \A q \in Ledger' : rows'[q].purpose # "refund"
    BY <1>3, <1>4, <1>5 DEF OneOpen
  <2> QED BY <2>1, PaidIsSumNext DEF IInv
<1>10. SumOf(rows', PaidRows) = SumOf(rows, PaidRows)
  BY <1>7, SumAgrees
<1>11. \A q \in Ledger : /\ rows'[q].purpose \in {"advance", "balance"}
                         /\ rows'[q].status \in {"pending", "paid"}
  BY <1>3, <1>4, <1>5 DEF OneOpen
<1>12. CASE rows[r].status = "paid"
  <2>1. PaidRows \cup {r} = PaidRows /\ r \notin PendingRows
    BY <1>12 DEF PaidRows, PendingRows
  <2>2. Paid' = Paid /\ PendingRows' = PendingRows
    BY <1>6, <1>8, <1>9, <1>10, <2>1
  <2>3. \A q \in PendingRows : rows'[q] = rows[q]
    BY <1>4, <1>5, <2>1 DEF PendingRows
  <2> QED BY <1>1, <1>5, <1>11, <2>2, <2>3 DEF OneOpen, Fits
<1>13. CASE rows[r].status = "pending"
  <2>1. r \in PendingRows /\ r \notin PaidRows
    BY <1>13 DEF PendingRows, PaidRows
  <2>2. PendingRows' = {} /\ Fits(rows[r]) /\ \A t \in Sessions : sess[t].pc # "insert"
    BY <1>6, <2>1 DEF OneOpen
  <2>3. SumOf(rows', PaidRows \cup {r}) = rows'[r].amount + SumOf(rows', PaidRows)
    BY <1>7, <2>1, SumPutIn
  <2>4. Paid' = Paid + rows[r].amount
    BY <1>2, <1>6, <1>7, <1>8, <1>9, <1>10, <2>3
  <2>5. Paid' <= Quote.total
    BY <1>2, <1>8, <2>2, <2>4 DEF Fits, ValidQuote
  <2>6. \A t \in Sessions : sess'[t].pc # "insert" /\ sess'[t].pc # "status"
    BY <1>1, <2>2 DEF OneOpen
  <2> QED BY <1>5, <1>11, <2>2, <2>5, <2>6 DEF OneOpen
<1> QED BY <1>12, <1>13 DEF OneOpen

LEMMA NextOneOpen ==
  ASSUME NEW c \in Sessions, OneCreator(c)
  PROVE  IInv /\ OneOpen(c) /\ [Next]_vars => OneOpen(c)'
<1> SUFFICES ASSUME IInv, OneOpen(c), [Next]_vars PROVE OneOpen(c)'
  OBVIOUS
<1>0. IInv'
  BY NextIInv
<1>1. ASSUME NEW s \in Sessions, CreateOrder(s) \/ \E ref \in Refs : SubmitReference(s, ref)
      PROVE  OneOpen(c)'
  BY <1>1, CreateOpen
<1>2. ASSUME NEW s \in Sessions, Insert(s) PROVE OneOpen(c)'
  BY <1>0, <1>2, InsertOpen
(* Nobody is at the office.                                                *)
<1>3. ASSUME NEW s \in Sessions,
             \/ \E purpose \in ManualPurposes, amount \in ManualAmounts, status \in PaymentStatuses :
                  RecordManual(s, purpose, amount, status)
             \/ \E r \in Rows, to \in PaymentStatuses : ReadForStatus(s, r, to)
             \/ WriteStatus(s)
      PROVE  FALSE
  <2>1. "manual" \notin Serves[s] /\ "status" \notin Serves[s]
    BY DEF OneCreator
  <2> QED BY <1>3, <2>1 DEF RecordManual, ReadForStatus, May, WriteStatus, OneOpen
<1>4. ASSUME UNCHANGED rows, NEW s \in Sessions,
             \A t \in Sessions \ {s} : sess'[t] = sess[t],
             sess'[s].pc \notin {"insert", "status"}
      PROVE  OneOpen(c)'
  BY <1>4, SameLedger DEF OneOpen, Fits
<1>5. ASSUME NEW s \in Sessions,
             \E p \in PayIds : ReceiveCaptured(s, p) \/ ReceiveCheckout(s, p)
      PROVE  OneOpen(c)'
  <2>1. PICK pc, r, p : pc \in {"webhook", "verify"} /\ Load(s, pc, r, p)
    BY <1>5 DEF ReceiveCaptured, ReceiveCheckout
  <2>2. sess'[s].pc = pc /\ \A t \in Sessions \ {s} : sess'[t] = sess[t]
    BY <2>1 DEF Load, IInv, TypeOK, Idle
  <2> QED BY <1>4, <1>5, <2>1, <2>2 DEF ReceiveCaptured, ReceiveCheckout
<1>6. ASSUME NEW s \in Sessions, ReconcileWebhook(s) \/ ReconcileCheckout(s)
      PROVE  OneOpen(c)'
  <2>1. sess' = [sess EXCEPT ![s] = Idle]
    BY <1>6 DEF ReconcileWebhook, ReconcileCheckout
  <2>2. CASE UNCHANGED rows
    BY <1>4, <2>1, <2>2, IdleIsOK DEF IInv
  <2>3. CASE ~UNCHANGED rows
    <3> DEFINE r == sess[s].row
    <3>1. r \in Ledger /\ sess[s].pay \in PayIds
      BY <1>6, <2>3, ReconcileWrite DEF IInv, TypeOK
    <3>2. PICK id \in {rows[r].payId, sess[s].pay} :
            rows' = [rows EXCEPT ![r] = [rows[r] EXCEPT !.payId = id, !.status = "paid"]]
      BY <1>6, <2>3, ReconcileWrite
    <3>3. id \in PayIds \cup {NoPay}
      BY <3>1, <3>2, LedgerFacts DEF IInv, Payment
    <3> QED BY <1>0, <2>1, <3>1, <3>2, <3>3, MarkPaidOpen
  <2> QED BY <2>2, <2>3
<1>7. ASSUME NEW s \in Sessions, Abort(s) PROVE OneOpen(c)'
  BY <1>4, <1>7, IdleIsOK DEF Abort, IInv
<1>8. CASE UNCHANGED <<rows, sess>>
  BY <1>8, SameLedger DEF OneOpen, Fits
<1>9. ASSUME \/ \E p \in PayIds, r \in Rows : Checkout(p, r)
             \/ \E p \in PayIds : Capture(p)
             \/ MoveRequirement
             \/ UNCHANGED vars
      PROVE  OneOpen(c)'
  BY <1>8, <1>9 DEF Checkout, Capture, MoveRequirement, vars
<1> QED BY <1>1, <1>2, <1>3, <1>5, <1>6, <1>7, <1>9 DEF Next

LEMMA OneOpenAlways ==
  ASSUME NEW c \in Sessions, OneCreator(c)
  PROVE  Spec => []OneOpen(c)
<1>1. Init => OneOpen(c)
  BY InitOneOpen
<1>2. IInv /\ OneOpen(c) /\ [Next]_vars => OneOpen(c)'
  BY NextOneOpen
<1> QED BY <1>1, <1>2, Invariance, PTL DEF Spec

(* With one creating client and no office, no order of captures, webhook   *)
(* deliveries, checkout callbacks and crashes pays more than the quote.    *)
THEOREM OneCreatorPaysWithinQuote ==
  ASSUME NEW c \in Sessions, OneCreator(c)
  PROVE  Spec => []PaidWithinQuote
<1>1. IInv /\ OneOpen(c) => PaidWithinQuote
  <2> SUFFICES ASSUME IInv, OneOpen(c) PROVE PaidWithinQuote
    OBVIOUS
  <2>1. Paid \in Nat
    BY PaidIsSum DEF IInv, OneOpen, IsRefund
  <2> QED BY <2>1 DEF OneOpen, PaidWithinQuote, Overpaid, NonNegative, ValidQuote
<1> QED BY <1>1, OneOpenAlways, Invariance, PTL

(* Nor does that client ever hold two pending rows for the same payment.   *)
THEOREM OneCreatorHoldsOneIntent ==
  ASSUME NEW c \in Sessions, OneCreator(c)
  PROVE  Spec => []PendingIntentsDistinct
<1>1. OneOpen(c) => PendingIntentsDistinct
  BY DEF OneOpen, PendingRows, PendingIntentsDistinct
<1> QED BY <1>1, OneOpenAlways, PTL

-----------------------------------------------------------------------------
(* One person at a time: a single request at the office or the client's    *)
(* form, no gateway, and no refund recorded by hand.                       *)
OnePerson(s) ==
  /\ s \in Sessions
  /\ \A t \in Sessions \ {s} : Serves[t] = {}
  /\ Serves[s] \cap {"webhook", "verify"} = {}
  /\ "refund" \notin ManualPurposes

(* What a session may do.                                                  *)
Act(s) ==
  \/ CreateOrder(s)
  \/ \E ref \in Refs : SubmitReference(s, ref)
  \/ \E purpose \in ManualPurposes, amount \in ManualAmounts, status \in PaymentStatuses :
       RecordManual(s, purpose, amount, status)
  \/ Insert(s)
  \/ \E r \in Rows, to \in PaymentStatuses : ReadForStatus(s, r, to)
  \/ WriteStatus(s)
  \/ \E p \in PayIds : ReceiveCaptured(s, p) \/ ReceiveCheckout(s, p)
  \/ ReconcileWebhook(s)
  \/ ReconcileCheckout(s)
  \/ Abort(s)

OthersIdle(s) == \A t \in Sessions \ {s} : sess[t].pc = "idle"

(* What the request has read still holds when it writes.                   *)
OneAtDesk(s) ==
  /\ \A r \in Ledger : rows[r].purpose # "refund"
  /\ Paid <= Quote.total
  /\ sess[s].pc \notin {"webhook", "verify"}
  /\ sess[s].pc = "insert" =>
       /\ sess[s].val.purpose # "refund"
       /\ sess[s].val.status = "paid" => Paid + sess[s].val.amount <= Quote.total
  /\ sess[s].pc = "status" /\ sess[s].to = "paid" =>
       TotalPaid(rows, Ledger \ {sess[s].row}) + rows[sess[s].row].amount <= Quote.total

LEMMA InitOneAtDesk == ASSUME NEW s, OnePerson(s) PROVE Init => OneAtDesk(s)
<1> SUFFICES ASSUME Init PROVE OneAtDesk(s)
  OBVIOUS
<1>1. Ledger = {} /\ TypeOK /\ PaidRows = {}
  BY InitIInv DEF Init, Ledger, IInv, PaidRows
<1>2. Paid = 0
  BY <1>1, PaidIsSum, SumEmpty
<1>3. sess[s].pc = "idle"
  BY DEF Init, Idle, OnePerson
<1> QED BY <1>1, <1>2, <1>3 DEF OneAtDesk, ValidQuote

(* Without one of its rows a ledger of charges has paid that much less.    *)
LEMMA PaidWithout ==
  ASSUME TypeOK, \A r \in Ledger : rows[r].purpose # "refund", NEW r \in Ledger
  PROVE  /\ TotalPaid(rows, Ledger \ {r}) = SumOf(rows, PaidRows \ {r})
         /\ TotalPaid(rows, Ledger \ {r}) \in Nat
         /\ TotalPaid(rows, Ledger \ {r}) <= Paid
<1>1. /\ IsFiniteSet(Ledger \ {r}) /\ IsFiniteSet(PaidRows) /\ PaidRows \subseteq Ledger
      /\ \A q \in Ledger : rows[q].amount \in Nat /\ ~IsRefund(rows[q])
  BY LedgerFacts, FS_Subset DEF PaidRows, IsRefund
<1>2. {q \in Ledger \ {r} : rows[q].status = "paid"} = PaidRows \ {r}
  BY DEF PaidRows
<1>3. /\ TotalPaid(rows, Ledger \ {r}) = SumOf(rows, PaidRows \ {r})
      /\ TotalPaid(rows, Ledger \ {r}) \in Nat
  BY <1>1, <1>2, NetOfCharges
<1>4. SumOf(rows, PaidRows \ {r}) <= SumOf(rows, PaidRows)
  BY <1>1, SumMonotonic
<1> QED BY <1>1, <1>3, <1>4, PaidIsSum

LEMMA DeskInsert ==
  ASSUME NEW s, OnePerson(s), IInv, IInv', OneAtDesk(s), Insert(s)
  PROVE  OneAtDesk(s)'
<1> DEFINE val == sess[s].val
<1>1. PICK r \in Rows \ Ledger : rows' = [rows EXCEPT ![r] = val]
  BY DEF Insert
<1>2. /\ val \in Payment /\ val.amount \in Nat /\ val.purpose # "refund"
      /\ val.status = "paid" => Paid + val.amount <= Quote.total
      /\ sess'[s].pc = "idle"
  BY DEF Insert, OneAtDesk, IInv, RequestsOK, RequestOK, Payment, OnePerson, TypeOK, Idle
<1>3. /\ Ledger' = Ledger \cup {r} /\ rows'[r] = val
      /\ \A q \in Ledger : rows'[q] = rows[q] /\ q # r
  BY <1>1, <1>2 DEF IInv, TypeOK, Ledger
<1>4. \A q \in Ledger' : rows'[q].purpose # "refund"
  BY <1>2, <1>3 DEF OneAtDesk
<1>5. /\ Paid' = SumOf(rows', PaidRows') /\ Paid' \in Nat
      /\ Paid = SumOf(rows, PaidRows) /\ Paid \in Nat
  BY <1>4, PaidIsSumNext, PaidIsSum DEF IInv, OneAtDesk, IsRefund
<1>6. /\ IsFiniteSet(PaidRows) /\ PaidRows \subseteq Ledger
      /\ \A q \in Ledger' : rows'[q].amount \in Nat
  BY <1>2, <1>3, LedgerFacts, FS_Subset DEF PaidRows, IInv
<1>7. SumOf(rows', PaidRows) = SumOf(rows, PaidRows)
  BY <1>3, <1>6, SumAgrees
<1> HIDE DEF val
<1>8. CASE val.status = "paid"
  <2>1. PaidRows' = PaidRows \cup {r} /\ r \notin PaidRows
    BY <1>3, <1>8 DEF PaidRows
  <2>2. SumOf(rows', PaidRows \cup {r}) = rows'[r].amount + SumOf(rows', PaidRows)
    BY <1>3, <1>6, <2>1, SumPutIn
  <2>3. Paid' = val.amount + Paid
    BY <1>3, <1>5, <1>7, <2>1, <2>2
  <2>4. Paid' <= Quote.total
    BY <1>2, <1>5, <1>8, <2>3
  <2> QED BY <1>2, <1>4, <2>4 DEF OneAtDesk
<1>9. CASE val.status # "paid"
  <2>1. PaidRows' = PaidRows
    BY <1>3, <1>9 DEF PaidRows
  <2>2. Paid' = Paid
    BY <1>5, <1>7, <2>1
  <2> QED BY <1>2, <1>4, <2>2 DEF OneAtDesk
<1> QED BY <1>8, <1>9

LEMMA DeskWriteStatus ==
  ASSUME NEW s, OnePerson(s), IInv, IInv', OneAtDesk(s), WriteStatus(s)
  PROVE  OneAtDesk(s)'
<1> DEFINE r == sess[s].row
           to == sess[s].to
           w == [rows[r] EXCEPT !.status = to]
<1>1. /\ r \in Ledger /\ rows[r] \in Payment /\ r \in Rows /\ rows[r].amount \in Nat
      /\ to \in PaymentStatuses /\ sess'[s].pc = "idle"
      /\ rows' = [rows EXCEPT ![r] = w]
  BY LedgerFacts DEF WriteStatus, IInv, RequestsOK, RequestOK, OnePerson, TypeOK, SessionState, Idle
<1>2. /\ w \in Payment /\ w.status = to /\ w.purpose = rows[r].purpose
      /\ w.amount = rows[r].amount
  BY <1>1 DEF Payment
<1>3. /\ to = "paid" => TotalPaid(rows, Ledger \ {r}) + rows[r].amount <= Quote.total
  BY DEF OneAtDesk, WriteStatus
<1> HIDE DEF w, to
<1>4. rows'[r] = w /\ \A q \in Rows \ {r} : rows'[q] = rows[q]
  BY <1>1 DEF IInv, TypeOK
<1>5. Ledger' = Ledger /\ Ledger \subseteq Rows
  BY <1>1, <1>2, <1>4 DEF Ledger
<1>6. \A q \in Ledger' : rows'[q].purpose # "refund"
  BY <1>1, <1>2, <1>4, <1>5 DEF OneAtDesk
<1>7. /\ IsFiniteSet(PaidRows \ {r}) /\ PaidRows \subseteq Ledger
      /\ \A q \in Ledger : rows[q].amount \in Nat /\ rows'[q].amount = rows[q].amount
  BY <1>1, <1>2, <1>4, <1>5, LedgerFacts, FS_Subset DEF PaidRows, IInv
<1>8. Paid' = SumOf(rows', PaidRows') /\ Paid' \in Nat
  BY <1>6, PaidIsSumNext DEF IInv
<1>9. /\ TotalPaid(rows, Ledger \ {r}) = SumOf(rows, PaidRows \ {r})
      /\ TotalPaid(rows, Ledger \ {r}) \in Nat
      /\ TotalPaid(rows, Ledger \ {r}) <= Paid
      /\ Paid \in Nat
  BY <1>1, PaidWithout, PaidIsSum DEF IInv, OneAtDesk, IsRefund
<1>10. SumOf(rows', PaidRows \ {r}) = SumOf(rows, PaidRows \ {r})
  BY <1>7, SumAgrees
<1> HIDE DEF r
<1>11. Paid' <= Quote.total
  <2>1. CASE to = "paid"
    <3>1. PaidRows' = (PaidRows \ {r}) \cup {r}
      BY <1>1, <1>2, <1>4, <1>5, <2>1 DEF PaidRows
    <3>2. SumOf(rows', (PaidRows \ {r}) \cup {r}) = rows'[r].amount + SumOf(rows', PaidRows \ {r})
      BY <1>1, <1>7, SumPutIn
    <3>3. rows'[r].amount = rows[r].amount
      BY <1>1, <1>7
    <3>4. Paid' = rows[r].amount + TotalPaid(rows, Ledger \ {r})
      BY <1>8, <1>9, <1>10, <3>1, <3>2, <3>3
    <3> QED BY <1>1, <1>3, <1>9, <2>1, <3>4
  <2>2. CASE to # "paid"
    <3>1. PaidRows' = PaidRows \ {r}
      BY <1>1, <1>2, <1>4, <1>5, <2>2 DEF PaidRows
    <3>2. Paid' = TotalPaid(rows, Ledger \ {r})
      BY <1>8, <1>9, <1>10, <3>1
    <3> QED BY <1>9, <3>2 DEF OneAtDesk, ValidQuote
  <2> QED BY <2>1, <2>2
<1> QED BY <1>1, <1>6, <1>11 DEF OneAtDesk

LEMMA DeskReads ==
  ASSUME NEW s, OnePerson(s), IInv, OneAtDesk(s), UNCHANGED rows,
         \/ CreateOrder(s)
         \/ \E ref \in Refs : SubmitReference(s, ref)
         \/ \E purpose \in ManualPurposes, amount \in ManualAmounts, status \in PaymentStatuses :
              RecordManual(s, purpose, amount, status)
         \/ \E r \in Rows, to \in PaymentStatuses : ReadForStatus(s, r, to)
  PROVE  OneAtDesk(s)'
<1>0. Paid \in Nat /\ TypeOK /\ s \in Sessions /\ sess \in [Sessions -> SessionState] /\ Quote.total \in Nat
  BY PaidIsSum DEF IInv, OneAtDesk, IsRefund, TypeOK, OnePerson, ValidQuote
<1>1. Ledger' = Ledger /\ Paid' = Paid
  BY SameLedger
<1>2. ASSUME NEW payment, Prepare(s, payment), payment.purpose # "refund",
             payment.status = "paid" => Paid + payment.amount <= Quote.total
      PROVE  OneAtDesk(s)'
  <2>1. sess'[s].pc = "insert" /\ sess'[s].val = payment
    BY <1>0, <1>2 DEF Prepare, Idle
  <2> QED BY <1>1, <1>2, <2>1 DEF OneAtDesk
<1>3. CASE CreateOrder(s) \/ \E ref \in Refs : SubmitReference(s, ref)
  <2>1. PICK i \in Intents, mode \in {"gateway", "reference"}, ref \in Refs \cup {NoRef} :
          Prepare(s, [purpose |-> i.purpose, mode |-> mode, status |-> "pending",
                      amount |-> i.amount, payId |-> NoPay, ref |-> ref])
    BY <1>3 DEF CreateOrder, SubmitReference
  <2>2. i.purpose # "refund"
    BY DEF Intents, PaymentIntents
  <2> QED BY <1>2, <2>1, <2>2
<1>4. ASSUME NEW purpose \in ManualPurposes, NEW amount \in ManualAmounts,
             NEW status \in PaymentStatuses, RecordManual(s, purpose, amount, status)
      PROVE  OneAtDesk(s)'
  <2>1. Prepare(s, [purpose |-> purpose, mode |-> "manual", status |-> status,
                    amount |-> amount, payId |-> NoPay, ref |-> NoRef])
    BY <1>4 DEF RecordManual
  <2>2. purpose # "refund" /\ amount \in Nat
    BY DEF OnePerson
  <2>3. Paid + amount <= Quote.total
    BY <1>0, <1>4, <2>2 DEF RecordManual, ManualPaymentAllowed, Outstanding, NonNegative, OneAtDesk
  <2> QED BY <1>2, <2>1, <2>2, <2>3
<1>5. ASSUME NEW r \in Rows, NEW to \in PaymentStatuses, ReadForStatus(s, r, to)
      PROVE  OneAtDesk(s)'
  <2>1. /\ r \in Ledger /\ rows[r].amount \in Nat
        /\ sess'[s].pc = "status" /\ sess'[s].row = r /\ sess'[s].to = to
    BY <1>0, <1>5, LedgerFacts DEF ReadForStatus, Idle
  <2>2. to = "paid" => TotalPaid(rows, Ledger \ {r}) + rows[r].amount <= Quote.total
    <3>1. /\ TotalPaid(rows, Ledger \ {r}) \in Nat
          /\ TotalPaid(rows, Ledger \ {r}) <= Paid
      BY <1>0, <2>1, PaidWithout DEF OneAtDesk
    <3>2. to = "paid" => rows[r].amount <= Outstanding(Quote, TotalPaid(rows, Ledger \ {r}))
      BY <1>5, <2>1 DEF ReadForStatus, ManualPaymentAllowed, OneAtDesk
    <3>3. Paid <= Quote.total
      BY DEF OneAtDesk
    <3> QED BY <1>0, <2>1, <3>1, <3>2, <3>3 DEF Outstanding, NonNegative
  <2> QED BY <1>1, <2>1, <2>2 DEF OneAtDesk
<1> QED BY <1>3, <1>4, <1>5

(* The others serve nothing, so they never start.                          *)
LEMMA OthersStayIdle ==
  ASSUME NEW s, OnePerson(s), IInv, OthersIdle(s), [Next]_vars
  PROVE  OthersIdle(s)'
<1> SUFFICES ASSUME NEW t \in Sessions \ {s} PROVE sess'[t].pc = "idle"
  BY DEF OthersIdle
<1>1. sess[t].pc = "idle" /\ Serves[t] = {} /\ sess \in [Sessions -> SessionState]
  BY DEF OthersIdle, OnePerson, IInv, TypeOK
<1>2. ASSUME NEW x \in Sessions, Act(x) PROVE x # t /\ \E v : sess' = [sess EXCEPT ![x] = v]
  BY <1>1, <1>2 DEF Act, CreateOrder, SubmitReference, RecordManual, ReadForStatus, May, Prepare, Insert,
                    WriteStatus, ReceiveCaptured, ReceiveCheckout, Load, ReconcileWebhook,
                    ReconcileCheckout, Abort
<1>3. CASE \E x \in Sessions : Act(x)
  <2>1. PICK x, v : x # t /\ sess' = [sess EXCEPT ![x] = v]
    BY <1>2, <1>3
  <2> QED BY <1>1, <2>1
<1>4. CASE UNCHANGED sess
  BY <1>1, <1>4
<1> QED BY <1>3, <1>4 DEF Next, Act, Checkout, Capture, MoveRequirement, vars

LEMMA NextOneAtDesk ==
  ASSUME NEW s, OnePerson(s), IInv, OneAtDesk(s), OthersIdle(s), [Next]_vars
  PROVE  OneAtDesk(s)'
<1>0. IInv'
  BY NextIInv
<1>1. CASE \/ CreateOrder(s)
           \/ \E ref \in Refs : SubmitReference(s, ref)
           \/ \E purpose \in ManualPurposes, amount \in ManualAmounts, status \in PaymentStatuses :
                RecordManual(s, purpose, amount, status)
           \/ \E r \in Rows, to \in PaymentStatuses : ReadForStatus(s, r, to)
  <2>1. UNCHANGED rows
    BY <1>1 DEF CreateOrder, SubmitReference, RecordManual, ReadForStatus
  <2> QED BY <1>1, <2>1, DeskReads
<1>2. CASE Insert(s)
  BY <1>0, <1>2, DeskInsert
<1>3. CASE WriteStatus(s)
  BY <1>0, <1>3, DeskWriteStatus
(* No gateway.                                                             *)
<1>4. ASSUME \/ \E p \in PayIds : ReceiveCaptured(s, p) \/ ReceiveCheckout(s, p)
             \/ ReconcileWebhook(s) \/ ReconcileCheckout(s)
      PROVE  FALSE
  BY <1>4 DEF ReceiveCaptured, ReceiveCheckout, May, ReconcileWebhook, ReconcileCheckout,
              OnePerson, OneAtDesk
<1>5. CASE Abort(s)
  <2>1. sess'[s].pc = "idle" /\ UNCHANGED rows
    BY <1>0, <1>5 DEF Abort, IInv, TypeOK, Idle
  <2> QED BY <2>1, SameLedger DEF OneAtDesk
<1>6. CASE UNCHANGED <<rows, sess>>
  BY <1>6, SameLedger DEF OneAtDesk
<1>7. ASSUME \/ \E p \in PayIds, r \in Rows : Checkout(p, r)
             \/ \E p \in PayIds : Capture(p)
             \/ MoveRequirement
             \/ UNCHANGED vars
      PROVE  OneAtDesk(s)'
  BY <1>6, <1>7 DEF Checkout, Capture, MoveRequirement, vars
<1>8. CASE \E t \in Sessions : Act(t)
  <2>1. PICK t \in Sessions : Act(t)
    BY <1>8
  <2>2. ASSUME t # s PROVE FALSE
    <3>1. sess[t].pc = "idle" /\ Serves[t] = {}
      BY <2>2 DEF OthersIdle, OnePerson
    <3> QED BY <2>1, <3>1 DEF Act, CreateOrder, SubmitReference, RecordManual, ReadForStatus, May, Insert,
                             WriteStatus, ReceiveCaptured, ReceiveCheckout, ReconcileWebhook,
                             ReconcileCheckout, Abort
  <2> QED BY <1>1, <1>2, <1>3, <1>4, <1>5, <2>1, <2>2 DEF Act
<1> QED BY <1>7, <1>8 DEF Next, Act

(* Any sequence of references, manual charges and status changes, made one *)
(* at a time and each possibly dying half-way, keeps what is paid within   *)
(* the quote: every move to paid, by insert or by status, is validated.    *)
THEOREM OneAtATimePaysWithinQuote ==
  ASSUME NEW s, OnePerson(s)
  PROVE  Spec => []PaidWithinQuote
<1>1. Init => OneAtDesk(s) /\ OthersIdle(s)
  BY InitOneAtDesk DEF Init, Idle, OthersIdle
<1>2. IInv /\ OneAtDesk(s) /\ OthersIdle(s) /\ [Next]_vars => (OneAtDesk(s) /\ OthersIdle(s))'
  BY NextOneAtDesk, OthersStayIdle
<1>3. IInv /\ OneAtDesk(s) => PaidWithinQuote
  <2> SUFFICES ASSUME IInv, OneAtDesk(s) PROVE PaidWithinQuote
    OBVIOUS
  <2>1. Paid \in Nat
    BY PaidIsSum DEF IInv, OneAtDesk, IsRefund
  <2> QED BY <2>1 DEF OneAtDesk, PaidWithinQuote, Overpaid, NonNegative, ValidQuote
<1> QED BY <1>1, <1>2, <1>3, Invariance, PTL DEF Spec

(* The same of the specification that chooses between one person at a time *)
(* and the gateway's mix: the choice is made once, and where it fell on    *)
(* the one person everything that holds of him holds.                      *)
THEOREM DeskPaysWithinQuote ==
  ASSUME NEW s, OnePerson(s)
  PROVE  DeskSpec => []PaidOneAtATime
<1> DEFINE AtDesk == alone \in BOOLEAN /\ (alone => IInv /\ OneAtDesk(s) /\ OthersIdle(s))
<1>1. DeskInit => AtDesk
  BY InitIInv, InitOneAtDesk DEF DeskInit, Init, Idle, OthersIdle
<1>2. ASSUME AtDesk, [DeskNext]_<<vars, alone>> PROVE AtDesk'
  <2>1. CASE alone
    <3>1. [Next]_vars /\ UNCHANGED alone
      BY <1>2, <2>1 DEF DeskNext
    <3> QED BY <1>2, <2>1, <3>1, NextIInv, NextOneAtDesk, OthersStayIdle
  <2>2. CASE ~alone
    <3>1. UNCHANGED alone
      BY <1>2, <2>2 DEF DeskNext
    <3> QED BY <1>2, <2>2, <3>1
  <2> QED BY <2>1, <2>2
<1>3. ASSUME AtDesk PROVE PaidOneAtATime
  <2> SUFFICES ASSUME alone PROVE PaidWithinQuote
    BY DEF PaidOneAtATime
  <2>1. Paid \in Nat
    BY <1>3, PaidIsSum DEF IInv, OneAtDesk, IsRefund
  <2> QED BY <1>3, <2>1 DEF OneAtDesk, PaidWithinQuote, Overpaid, NonNegative, ValidQuote
<1> QED BY <1>1, <1>2, <1>3, PTL DEF DeskSpec
=============================================================================
