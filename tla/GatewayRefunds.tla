--------------------------- MODULE GatewayRefunds ---------------------------
(***************************************************************************)
(* Refunds of captured payments to their source: the refund endpoint of    *)
(* api/admin_finance.py, services/payment_refund_service.py and the refund *)
(* branch of api/payment_webhooks.py, beside manual refunds recorded by an *)
(* admin on the same requirement.                                          *)
(*                                                                         *)
(* A refund row is identified with its idempotency key, which the gateway  *)
(* also uses, so the gateway keeps at most one refund per key.  Row locks  *)
(* are explicit: they are what the endpoint relies on.  After its first    *)
(* commit the endpoint works on the row as it then was (val): the later    *)
(* SELECT ... FOR UPDATE locks the row again but does not reload it, and   *)
(* the UPDATE it ends in carries only the columns that differ from val.    *)
(***************************************************************************)
EXTENDS LedgerRules

CONSTANTS
  Sources,       \* captured gateway payments of the requirement
  SourceAmount,  \* SourceAmount[src]: the amount captured
  Keys,          \* idempotency keys, hence refund rows
  Manuals,       \* slots for manual refund rows
  RefundAmounts, \* amounts an admin may ask for
  Sessions,      \* requests in flight
  Quote, ReqStatus,
  HttpErrors,    \* HTTP errors of the gateway: "rejected" before, "late" after creating
  Reordered,     \* TRUE: an old refund webhook may arrive after a newer one
  NoRow, NoSession

ASSUME SourceAssumption ==
  /\ SourceAmount \in [Sources -> Nat \ {0}]
  /\ RefundAmounts \subseteq Nat
  /\ Sources \cap Keys = {} /\ Sources \cap Manuals = {} /\ Keys \cap Manuals = {}
  /\ NoRow \notin Sources \cup Keys \cup Manuals
  /\ NoSession \notin Sessions
ASSUME GatewayAssumption ==
  HttpErrors \subseteq {"rejected", "late"} /\ Reordered \in BOOLEAN
ASSUME RefundContext ==
  ValidQuote(Quote) /\ ReqStatus \in StatesAccepting("refund")

Ids == Sources \cup Keys \cup Manuals

ASSUME FiniteTable == IsFiniteSet(Ids)

Outcomes == {"pending", "processed", "failed"}   \* gateway refund statuses

Row == [purpose  : {"advance", "refund", "absent"},
        status   : PaymentStatuses,
        amount   : Nat,
        parent   : Sources \cup {NoRow},
        gwStatus : Outcomes \cup {"none", "request_failed"}]

Absent == [purpose |-> "absent", status |-> "pending", amount |-> 0,
           parent |-> NoRow, gwStatus |-> "none"]

VARIABLES
  rows,   \* client_payments of the requirement
  lock,   \* row locks: the session holding each row
  gw,     \* gateway: status of the refund of each key, "none" before it exists
  sent,   \* gateway: the statuses webhooks were sent with, per key
  acked,  \* gateway: those of them acknowledged at least once
  sess    \* requests in flight

vars == <<rows, lock, gw, sent, acked, sess>>

Idle == [pc |-> "idle", key |-> NoRow, src |-> NoRow, amount |-> 0,
         val |-> Absent, resp |-> "pending"]

SessionState ==
  [pc     : {"idle", "approve", "insert", "refresh", "relookup", "call", "reconcile",
             "error", "manual"},
   key    : Keys \cup {NoRow},
   src    : Sources \cup {NoRow},
   amount : Nat,
   val    : Row,
   resp   : Outcomes]

TypeOK ==
  /\ rows \in [Ids -> Row]
  /\ lock \in [Ids -> Sessions \cup {NoSession}]
  /\ gw \in [Keys -> Outcomes \cup {"none"}]
  /\ sent \in [Keys -> SUBSET Outcomes]
  /\ acked \in [Keys -> SUBSET Outcomes]
  /\ sess \in [Sessions -> SessionState]

Init ==
  /\ rows = [r \in Ids |-> IF r \in Sources
                           THEN [Absent EXCEPT !.purpose = "advance", !.status = "paid",
                                               !.amount = SourceAmount[r]]
                           ELSE Absent]
  /\ lock = [r \in Ids |-> NoSession]
  /\ gw = [k \in Keys |-> "none"]
  /\ sent = [k \in Keys |-> {}]
  /\ acked = [k \in Keys |-> {}]
  /\ sess = [s \in Sessions |-> Idle]

Exists(r) == rows[r].purpose # "absent"
Ledger    == {r \in Ids : Exists(r)}

Free(r, s)    == lock[r] \in {NoSession, s}
Unlocked(s)   == [r \in Ids |-> IF lock[r] = s THEN NoSession ELSE lock[r]]
Goto(s, pc)   == sess' = [sess EXCEPT ![s].pc = pc]
Finish(s)     == sess' = [sess EXCEPT ![s] = Idle] /\ lock' = Unlocked(s)
Matching(k, src, amount) == rows[k].parent = src /\ rows[k].amount = amount

-----------------------------------------------------------------------------
(* POST /client-payments/{src}/refunds.  The lookup by key waits for and   *)
(* takes the row's lock; a mismatch is a 409 and a paid refund is          *)
(* returned as it is, neither of which changes anything.                   *)
Lookup(s, k, src, amount) ==
  /\ sess[s].pc = "idle"
  /\ \/ /\ Exists(k)
        /\ Free(k, s)
        /\ Matching(k, src, amount)
        /\ rows[k].status # "paid"
        /\ lock' = [lock EXCEPT ![k] = s]
        /\ sess' = [sess EXCEPT ![s] = [pc |-> "call", key |-> k, src |-> src, amount |-> amount,
                                        val |-> rows[k], resp |-> "pending"]]
     \/ /\ ~Exists(k)
        /\ sess' = [sess EXCEPT ![s] = [pc |-> "approve", key |-> k, src |-> src, amount |-> amount,
                                        val |-> Absent, resp |-> "pending"]]
        /\ UNCHANGED lock
  /\ UNCHANGED <<rows, gw, sent, acked>>

(* Seeded fault: the source row is read without its lock.                  *)
ApproveUnlocked(s) ==
  /\ sess[s].pc = "approve"
  /\ GatewayRefundAllowed(Quote, ReqStatus, rows, Ledger, sess[s].src, TRUE, sess[s].amount)
  /\ Goto(s, "insert")
  /\ UNCHANGED <<rows, lock, gw, sent, acked>>

(* A new key: lock the source, then read the ledger and validate; a        *)
(* refusal ends the request (Abort).                                       *)
Approve(s) ==
  /\ sess[s].pc = "approve"
  /\ Free(sess[s].src, s)
  /\ GatewayRefundAllowed(Quote, ReqStatus, rows, Ledger, sess[s].src, TRUE, sess[s].amount)
  /\ lock' = [lock EXCEPT ![sess[s].src] = s]
  /\ Goto(s, "insert")
  /\ UNCHANGED <<rows, gw, sent, acked>>

(* Insert and commit, which releases the source.  If the key appeared in   *)
(* the meantime the unique constraint makes the request look it up again.  *)
Insert(s) ==
  LET new == [purpose |-> "refund", status |-> "pending", amount |-> sess[s].amount,
              parent |-> sess[s].src, gwStatus |-> "pending"]
  IN
  /\ sess[s].pc = "insert"
  /\ lock' = Unlocked(s)
  /\ \/ /\ ~Exists(sess[s].key)
        /\ rows' = [rows EXCEPT ![sess[s].key] = new]
        /\ Goto(s, "refresh")
     \/ /\ Exists(sess[s].key)
        /\ Goto(s, "relookup")
        /\ UNCHANGED rows
  /\ UNCHANGED <<gw, sent, acked>>

Refresh(s) ==
  /\ sess[s].pc = "refresh"
  /\ sess' = [sess EXCEPT ![s].pc = "call", ![s].val = rows[sess[s].key]]
  /\ UNCHANGED <<rows, lock, gw, sent, acked>>

LookupAgain(s) ==
  /\ sess[s].pc = "relookup"
  /\ Free(sess[s].key, s)
  /\ IF Matching(sess[s].key, sess[s].src, sess[s].amount)
     THEN /\ lock' = [lock EXCEPT ![sess[s].key] = s]
          /\ sess' = [sess EXCEPT ![s].pc = "call", ![s].val = rows[sess[s].key]]
     ELSE Finish(s)
  /\ UNCHANGED <<rows, gw, sent, acked>>

(* The call to the gateway, which creates the refund or returns the one it *)
(* already has for the key.  It may process a refund at once.              *)
Created(k, status) ==
  /\ gw[k] = "none"
  /\ status \in {"pending", "processed"}
  /\ gw' = [gw EXCEPT ![k] = status]
  /\ sent' = [sent EXCEPT ![k] = {status}]

Accepted(k, status) ==
  Created(k, status) \/ (gw[k] = status /\ UNCHANGED <<gw, sent>>)

Answered(s) ==
  /\ sess[s].pc = "call"
  /\ \E status \in Outcomes :
       /\ Accepted(sess[s].key, status)
       /\ sess' = [sess EXCEPT ![s].pc = "reconcile", ![s].resp = status]
  /\ UNCHANGED <<rows, lock, acked>>

(* Seeded fault: a connection error is handled like an HTTP error.         *)
TimedOutAsRefused(s) ==
  /\ sess[s].pc = "call"
  /\ \E status \in Outcomes : Accepted(sess[s].key, status)
  /\ Goto(s, "error")
  /\ UNCHANGED <<rows, lock, acked>>

(* The connection fails: the refund may exist, the row stays as it is.     *)
TimedOut(s) ==
  /\ sess[s].pc = "call"
  /\ \E status \in Outcomes : Accepted(sess[s].key, status)
  /\ Finish(s)
  /\ UNCHANGED <<rows, acked>>

(* An HTTP error status, without a refund or in spite of one.              *)
Refused(s) ==
  /\ sess[s].pc = "call"
  /\ \/ "rejected" \in HttpErrors /\ gw[sess[s].key] = "none" /\ UNCHANGED <<gw, sent>>
     \/ "late" \in HttpErrors /\ \E status \in Outcomes : Accepted(sess[s].key, status)
  /\ Goto(s, "error")
  /\ UNCHANGED <<rows, lock, acked>>

-----------------------------------------------------------------------------
(* Seeded faults: an accepted refund counts as paid; a failed one is kept  *)
(* pending.                                                                *)
StatusAccepted(seen, outcome) == IF outcome = "failed" THEN "failed" ELSE "paid"
StatusIgnoresFailure(seen, outcome) ==
  IF outcome = "processed" \/ seen.status = "paid" THEN "paid" ELSE "pending"

(* The attributes the service assigns, given the row as it was loaded.     *)
StatusAfter(seen, outcome) ==
  CASE outcome = "processed"                          -> "paid"
    [] outcome = "failed" /\ seen.status # "paid"     -> "failed"
    [] outcome # "processed" /\ seen.status = "paid"  -> "paid"
    [] OTHER                                          -> "pending"

(* Seeded fault: the UPDATE carries the status whether or not it changed.  *)
FlushWhole(k, seen, status, gwStatus) ==
  rows' = [rows EXCEPT ![k].status = status, ![k].gwStatus = gwStatus]

(* An UPDATE of row k after its attributes, loaded as seen, became new:    *)
(* an attribute equal to the loaded one is not written.                    *)
Flush(k, seen, status, gwStatus) ==
  rows' = [rows EXCEPT ![k].status   = IF status = seen.status THEN @ ELSE status,
                       ![k].gwStatus = IF gwStatus = seen.gwStatus THEN @ ELSE gwStatus]

(* reconcile_gateway_refund under the locks of the refund and its source.  *)
ReconcileRow(k, seen, outcome) ==
  Flush(k, seen, StatusAfter(seen, outcome), outcome)

ReconcileAnswer(s) ==
  /\ sess[s].pc = "reconcile"
  /\ Free(sess[s].key, s) /\ Free(sess[s].src, s)
  /\ ReconcileRow(sess[s].key, sess[s].val, sess[s].resp)
  /\ Finish(s)
  /\ UNCHANGED <<gw, sent, acked>>

(* The HTTPStatusError handler.                                            *)
RecordRefusal(s) ==
  /\ sess[s].pc = "error"
  /\ Free(sess[s].key, s)
  /\ IF sess[s].val.status = "paid" THEN UNCHANGED rows
     ELSE Flush(sess[s].key, sess[s].val, "failed", "request_failed")
  /\ Finish(s)
  /\ UNCHANGED <<gw, sent, acked>>

(* refund.created, refund.processed, refund.failed: one transaction that   *)
(* loads the row for the first time when it locks it.                      *)
RefundWebhook(k, outcome) ==
  /\ outcome \in sent[k]
  /\ Reordered \/ outcome = gw[k]
  /\ Exists(k)
  /\ lock[k] = NoSession /\ lock[rows[k].parent] = NoSession
  /\ ReconcileRow(k, rows[k], outcome)
  /\ acked' = [acked EXCEPT ![k] = @ \cup {outcome}]
  /\ UNCHANGED <<lock, gw, sent, sess>>

-----------------------------------------------------------------------------
(* POST /client-payments/manual with purpose refund: read, then insert.    *)
ReadManualRefund(s, amount) ==
  /\ sess[s].pc = "idle"
  /\ ManualPaymentAllowed(Quote, ReqStatus, TotalPaid(rows, Ledger), "refund", amount)
  /\ sess' = [sess EXCEPT ![s] = [Idle EXCEPT !.pc = "manual", !.amount = amount]]
  /\ UNCHANGED <<rows, lock, gw, sent, acked>>

InsertManualRefund(s) ==
  /\ sess[s].pc = "manual"
  /\ \E r \in Manuals \ Ledger :
       rows' = [rows EXCEPT ![r] = [Absent EXCEPT !.purpose = "refund", !.status = "paid",
                                                  !.amount = sess[s].amount]]
  /\ Finish(s)
  /\ UNCHANGED <<gw, sent, acked>>

(* A request dies or is refused before its commit; its locks are released. *)
Abort(s) ==
  /\ sess[s].pc # "idle"
  /\ Finish(s)
  /\ UNCHANGED <<rows, gw, sent, acked>>

(* The gateway settles a pending refund and says so.                       *)
Settle(k) ==
  /\ gw[k] = "pending"
  /\ \E status \in {"processed", "failed"} :
       /\ gw' = [gw EXCEPT ![k] = status]
       /\ sent' = [sent EXCEPT ![k] = @ \cup {status}]
  /\ UNCHANGED <<rows, lock, acked, sess>>

Next ==
  \/ \E s \in Sessions :
       \/ \E k \in Keys, src \in Sources, amount \in RefundAmounts : Lookup(s, k, src, amount)
       \/ Approve(s)
       \/ Insert(s)
       \/ Refresh(s)
       \/ LookupAgain(s)
       \/ Answered(s)
       \/ TimedOut(s)
       \/ Refused(s)
       \/ ReconcileAnswer(s)
       \/ RecordRefusal(s)
       \/ \E amount \in RefundAmounts : ReadManualRefund(s, amount)
       \/ InsertManualRefund(s)
       \/ Abort(s)
  \/ \E k \in Keys, outcome \in Outcomes : RefundWebhook(k, outcome)
  \/ \E k \in Keys : Settle(k)

Spec == Init /\ [][Next]_vars

(* The gateway settles what it accepted and delivers its last word until   *)
(* that is acknowledged once; a request that waits on nothing ends, one    *)
(* way or the other, and so releases its locks.                            *)
Ends(s) ==
  \/ Insert(s) \/ Answered(s) \/ TimedOut(s) \/ Refused(s)
  \/ ReconcileAnswer(s) \/ RecordRefusal(s) \/ InsertManualRefund(s) \/ Abort(s)

Redeliver(k) == gw[k] \notin acked[k] /\ RefundWebhook(k, gw[k])

FairSpec ==
  /\ Spec
  /\ \A k \in Keys : WF_vars(Settle(k))
  /\ \A k \in Keys : SF_vars(Redeliver(k))
  /\ \A s \in Sessions : WF_vars(Ends(s))

-----------------------------------------------------------------------------
(* The ledger calls a refund paid only when the gateway processed it:      *)
(* never on an error, a timeout, an old webhook or a stale row.            *)
PaidRefundIsProcessed ==
  \A k \in Keys : Exists(k) /\ rows[k].status = "paid" => gw[k] = "processed"

(* "Pending stays reserved until a signed refund.processed or              *)
(* refund.failed webhook supplies the final state" (PAYMENT_LEDGER.md):    *)
(* once paid, a refund is never taken back to pending or failed.           *)
PaidRefundStands ==
  [][\A k \in Keys : Exists(k) /\ rows[k].status = "paid" => rows'[k].status = "paid"]_vars

(* "concurrent approvals cannot over-refund ... [the] captured source      *)
(* payment": what the gateway has refunded or will refund of a payment is  *)
(* at most the payment, even if the gateway does not check.                *)
SentFrom(src) == {k \in Keys : gw[k] \in {"pending", "processed"} /\ rows[k].parent = src}

SourceNotOverRefunded ==
  \A src \in Sources : SumOf(rows, SentFrom(src)) <= SourceAmount[src]

(* "cannot over-refund the requirement": manual and gateway refunds        *)
(* together never exceed what was collected.                               *)
RequirementNotOverRefunded ==
  SumOf(rows, {k \in Keys : gw[k] \in {"pending", "processed"}} \cup (Manuals \cap Ledger))
    <= GrossPaid(rows, Ledger)

(* A refund the gateway accepted is in the ledger with a reservation until *)
(* the gateway fails it: the row cannot be failed, and its balance reused, *)
(* while the money is on its way.                                          *)
AcceptedStaysReserved ==
  \A k \in Keys : gw[k] \in {"pending", "processed"} =>
    Exists(k) /\ rows[k].status \in {"pending", "paid"}

(* The refund path implements ReservedRefunds: a row reserves its amount    *)
(* of the payment until the gateway fails the refund, the gateway's status *)
(* is where the money is, and the row's status is the ledger's word.       *)
ReservedOf(src) == {k \in Keys : Exists(k) /\ rows[k].parent = src /\ gw[k] # "failed"}

LeftOf   == [src \in Sources |-> SourceAmount[src] - SumOf(rows, ReservedOf(src))]
SourceOf == [k \in Keys |-> rows[k].parent]
AmountOf == [k \in Keys |-> rows[k].amount]
WordOf   == [k \in Keys |-> rows[k].status]
MoneyOf  == [k \in Keys |-> CASE gw[k] = "processed" -> "returned"
                              [] gw[k] = "failed"    -> "refused"
                              [] OTHER               -> IF Exists(k) THEN "reserved" ELSE "free"]

Kept == INSTANCE ReservedRefunds
          WITH Refunds <- Keys, Payments <- Sources, Captured <- SourceAmount,
               NoPayment <- NoRow, Retold <- Reordered,
               left <- LeftOf, from <- SourceOf, amount <- AmountOf, money <- MoneyOf, word <- WordOf

RefundsAreKept == Kept!Spec

(* Whatever the request that asked for it went through, a refund the       *)
(* gateway has settled comes to that state in the ledger and stays there.  *)
SettledRefundIsRecorded ==
  \A k \in Keys :
    /\ gw[k] = "processed" ~> [](rows[k].status = "paid")
    /\ gw[k] = "failed" ~> [](rows[k].status = "failed")
=============================================================================
